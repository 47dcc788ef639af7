----------------------------- MODULE HeapProofs -----------------------------
(***************************************************************************)
(* HeapSane and MallocFindsFit hold for a heap of every size, for headers  *)
(* and least blocks of every size, and for every set of requests.          *)
(***************************************************************************)
EXTENDS Heap, TLAPS

\* What next, prev, used and lfree may be.
Typed(h) ==
  /\ Structs(h) \subseteq 0 .. Total
  /\ h.next \in [Structs(h) -> 0 .. Total]
  /\ h.prev \in [Structs(h) -> 0 .. Total]
  /\ h.used \in [Structs(h) -> {0, 1}]
  /\ h.lfree \in 0 .. Total

Sound(h) == Typed(h) /\ Tiled(h)

\* No two free blocks in a row; or only such that x is one of them.
NoHoles(h) == \A p \in Blocks(h) : ~(Free(h, p) /\ Free(h, h.next[p]))
NoHolesBut(h, x) ==
  \A p \in Blocks(h) : Free(h, p) /\ Free(h, h.next[p]) => x \in {p, h.next[p]}

\* lfree is not above a free block; and it is one unless there is none.
Below(h) == \A p \in Blocks(h) : Free(h, p) => h.lfree <= p
AtFree(h) == h.lfree = Total \/ (h.lfree \in Blocks(h) /\ Free(h, h.lfree))

\* The heap when no call is under way.
Good(h) == Sound(h) /\ NoHoles(h) /\ Below(h) /\ AtFree(h)

JobType ==
  job \in [pc : {"idle", "scan", "take", "adjust", "plug", "aborted", "raced"},
           p : Nat, size : Nat, seen : BOOLEAN]

\* What the main loop knows in the middle of a call.
Scanning ==
  /\ Good(heap) /\ job.p \in Structs(heap) /\ job.size >= MinSize
  /\ ~job.seen => \A q \in Blocks(heap) : q < job.p => ~Fits(heap, q, job.size)

Taking ==
  /\ Good(heap) /\ job.p \in Blocks(heap) /\ job.size >= MinSize
  /\ Fits(heap, job.p, job.size)

Adjusting ==
  /\ Sound(heap) /\ NoHoles(heap)
  /\ heap.lfree \in Blocks(heap)
  /\ job.p \in Structs(heap) /\ heap.lfree <= job.p
  /\ \A q \in Blocks(heap) : Free(heap, q) => job.p <= q

Plugging ==
  /\ Sound(heap) /\ NoHolesBut(heap, job.p) /\ Below(heap) /\ AtFree(heap)
  /\ job.p \in Blocks(heap) /\ Free(heap, job.p)

IInv ==
  /\ JobType
  /\ missed = FALSE
  /\ job.pc = "idle" => Good(heap)
  /\ job.pc = "scan" => Scanning
  /\ job.pc = "take" => Taking
  /\ job.pc = "adjust" => Adjusting
  /\ job.pc = "plug" => Plugging

-----------------------------------------------------------------------------

\* Size never returns less than MIN_SIZE_ALIGNED.
LEMMA SizeLarge == \A n \in Requests : Size(n) \in Nat /\ Size(n) >= MinSize
  BY SizesAssumption DEF Size

\* Between a struct and the next one there is no other.
LEMMA NextUnique ==
  ASSUME NEW h, Sound(h), NEW p \in Blocks(h), NEW q \in Blocks(h), h.next[p] = h.next[q]
  PROVE  p = q
  BY SizesAssumption DEF Sound, Typed, Tiled, Blocks

\* A split keeps the heap tiled if both parts are large enough.
LEMMA SplitSound ==
  ASSUME NEW h, Sound(h), NEW p \in Blocks(h), NEW p2 \in Nat,
         p + Hdr + MinSize <= p2, p2 + Hdr + MinSize <= h.next[p]
  PROVE  LET s == Split(h, p, p2)
         IN  /\ Sound(s)
             /\ Structs(s) = Structs(h) \cup {p2} /\ p2 \in Blocks(s)
             /\ p2 \notin Structs(h)
             /\ s.next = [q \in Structs(h) \cup {p2} |->
                            IF q = p2 THEN h.next[p] ELSE IF q = p THEN p2 ELSE h.next[q]]
             /\ s.used = [q \in Structs(h) \cup {p2} |-> IF q = p2 THEN 0 ELSE h.used[q]]
             /\ s.lfree = h.lfree
<1> DEFINE s == Split(h, p, p2)
<1>1. /\ Structs(s) = Structs(h) \cup {p2}
      /\ s.next = [q \in Structs(h) \cup {p2} |->
                     IF q = p2 THEN h.next[p] ELSE IF q = p THEN p2 ELSE h.next[q]]
      /\ s.prev = [q \in Structs(h) \cup {p2} |->
                     IF q = p2 THEN p
                     ELSE IF q = h.next[p] /\ q # Total THEN p2 ELSE h.prev[q]]
      /\ s.used = [q \in Structs(h) \cup {p2} |-> IF q = p2 THEN 0 ELSE h.used[q]]
      /\ s.lfree = h.lfree
  BY DEF Split, Structs
<1>2. /\ Structs(h) \subseteq 0 .. Total
      /\ h.next \in [Structs(h) -> 0 .. Total]
      /\ h.prev \in [Structs(h) -> 0 .. Total]
      /\ h.used \in [Structs(h) -> {0, 1}]
      /\ h.lfree \in 0 .. Total
      /\ p \in Structs(h) /\ p # Total
  BY DEF Sound, Typed, Blocks
<1>3. p2 \notin Structs(h) /\ p2 < Total /\ p < p2 /\ p2 \in 0 .. Total
  BY <1>2, SizesAssumption DEF Sound, Tiled, Blocks
<1>4. Typed(s)
  BY <1>1, <1>2, <1>3 DEF Typed
<1>5. Blocks(s) = Blocks(h) \cup {p2}
  BY <1>1, <1>3, <1>2 DEF Blocks
<1>6. /\ 0 \in Blocks(s) /\ Total \in Structs(s)
      /\ s.prev[0] = 0 /\ s.used[Total] = 1
  BY <1>1, <1>2, <1>3, <1>5, SizesAssumption DEF Sound, Tiled, Blocks
<1>7. ASSUME NEW r \in Blocks(s)
      PROVE  /\ s.next[r] \in Structs(s)
             /\ s.next[r] >= r + Hdr + MinSize
             /\ \A q \in Structs(s) : q <= r \/ s.next[r] <= q
             /\ s.next[r] # Total => s.prev[s.next[r]] = r
             /\ r # 0 => s.prev[r] \in Blocks(s) /\ s.next[s.prev[r]] = r
  <2>1. CASE r = p2
    BY <1>1, <1>2, <1>3, <1>5, <2>1, SizesAssumption DEF Sound, Tiled, Blocks
  <2>2. CASE r = p
    BY <1>1, <1>2, <1>3, <1>5, <2>2, SizesAssumption DEF Sound, Tiled, Blocks
  <2>3. CASE r # p /\ r # p2
    <3>1. r \in Blocks(h) /\ s.next[r] = h.next[r] /\ h.next[r] # h.next[p]
      BY <1>1, <1>2, <1>5, <2>3, NextUnique DEF Blocks
    <3>2. /\ s.next[r] \in Structs(s)
          /\ s.next[r] >= r + Hdr + MinSize
      BY <1>1, <3>1 DEF Sound, Tiled
    <3>3. \A q \in Structs(s) : q <= r \/ s.next[r] <= q
      BY <1>1, <1>2, <1>3, <3>1, SizesAssumption DEF Sound, Tiled, Blocks
    <3>4. s.next[r] # Total => s.prev[s.next[r]] = r
      BY <1>1, <1>2, <1>3, <3>1 DEF Sound, Tiled, Blocks
    <3>5. r # 0 => s.prev[r] \in Blocks(s) /\ s.next[s.prev[r]] = r
      BY <1>1, <1>2, <1>3, <1>5, <3>1, <2>3, SizesAssumption DEF Sound, Tiled, Blocks
    <3> QED BY <3>2, <3>3, <3>4, <3>5
  <2> QED BY <2>1, <2>2, <2>3
<1>8. Tiled(s)
  BY <1>6, <1>7 DEF Tiled
<1> QED BY <1>1, <1>3, <1>4, <1>5, <1>8 DEF Sound

\* A block that takes in the next one leaves the heap tiled.
LEMMA AbsorbSound ==
  ASSUME NEW h, Sound(h), NEW lo \in Blocks(h), NEW hi \in Blocks(h), h.next[lo] = hi
  PROVE  LET a == Absorb(h, lo, hi)
         IN  /\ Sound(a)
             /\ Structs(a) = Structs(h) \ {hi} /\ lo \in Blocks(a) /\ lo < hi
             /\ a.next = [q \in Structs(h) \ {hi} |->
                            IF q = lo THEN h.next[hi] ELSE h.next[q]]
             /\ a.used = [q \in Structs(h) \ {hi} |-> h.used[q]]
             /\ a.lfree = (IF h.lfree = hi THEN lo ELSE h.lfree)
<1> DEFINE a == Absorb(h, lo, hi)
<1>1. /\ Structs(a) = Structs(h) \ {hi}
      /\ a.next = [q \in Structs(h) \ {hi} |->
                     IF q = lo THEN h.next[hi] ELSE h.next[q]]
      /\ a.prev = [q \in Structs(h) \ {hi} |->
                     IF q = h.next[hi] /\ q # Total THEN lo ELSE h.prev[q]]
      /\ a.used = [q \in Structs(h) \ {hi} |-> h.used[q]]
      /\ a.lfree = (IF h.lfree = hi THEN lo ELSE h.lfree)
  BY DEF Absorb, Structs
<1>2. /\ Structs(h) \subseteq 0 .. Total
      /\ h.next \in [Structs(h) -> 0 .. Total]
      /\ h.prev \in [Structs(h) -> 0 .. Total]
      /\ h.used \in [Structs(h) -> {0, 1}]
      /\ h.lfree \in 0 .. Total
      /\ lo \in Structs(h) /\ lo # Total /\ hi \in Structs(h) /\ hi # Total
  BY DEF Sound, Typed, Blocks
<1>3. lo < hi /\ hi < h.next[hi] /\ h.next[hi] \in Structs(h)
  BY <1>2, SizesAssumption DEF Sound, Tiled, Blocks
<1>4. Typed(a)
  BY <1>1, <1>2, <1>3 DEF Typed
<1>5. Blocks(a) = Blocks(h) \ {hi} /\ lo \in Blocks(a)
  BY <1>1, <1>3, <1>2 DEF Blocks
<1>6. /\ 0 \in Blocks(a) /\ Total \in Structs(a)
      /\ a.prev[0] = 0 /\ a.used[Total] = 1
  BY <1>1, <1>2, <1>3, <1>5, SizesAssumption DEF Sound, Tiled, Blocks
<1>7. ASSUME NEW r \in Blocks(a)
      PROVE  /\ a.next[r] \in Structs(a)
             /\ a.next[r] >= r + Hdr + MinSize
             /\ \A q \in Structs(a) : q <= r \/ a.next[r] <= q
             /\ a.next[r] # Total => a.prev[a.next[r]] = r
             /\ r # 0 => a.prev[r] \in Blocks(a) /\ a.next[a.prev[r]] = r
  <2>1. CASE r = lo
    <3>1. /\ a.next[lo] = h.next[hi] /\ h.next[hi] # hi
          /\ hi >= lo + Hdr + MinSize /\ h.next[hi] >= hi + Hdr + MinSize
          /\ \A q \in Structs(h) : (q <= lo \/ hi <= q) /\ (q <= hi \/ h.next[hi] <= q)
      BY <1>1, <1>2, <1>3 DEF Sound, Tiled, Blocks
    <3>2. /\ a.next[lo] \in Structs(a) /\ a.next[lo] >= lo + Hdr + MinSize
          /\ \A q \in Structs(a) : q <= lo \/ a.next[lo] <= q
      BY <1>1, <1>2, <1>3, <3>1, SizesAssumption
    <3>3. a.next[lo] # Total => a.prev[a.next[lo]] = lo
      BY <1>1, <1>2, <1>3, <3>1
    <3>4. lo # 0 => a.prev[lo] \in Blocks(a) /\ a.next[a.prev[lo]] = lo
      <4>1. lo # h.next[hi] /\ a.prev[lo] = h.prev[lo]
        BY <1>1, <1>2, <1>3
      <4>2. lo # 0 => h.prev[lo] \in Blocks(h) /\ h.next[h.prev[lo]] = lo
        BY DEF Sound, Tiled
      <4>3. lo # 0 => h.prev[lo] # hi /\ h.prev[lo] # lo
        BY <1>2, <1>3, <4>2
      <4> QED BY <1>1, <1>5, <4>1, <4>2, <4>3 DEF Blocks
    <3> QED BY <2>1, <3>2, <3>3, <3>4
  <2>2. CASE r # lo
    <3>1. /\ r \in Blocks(h) /\ r # hi /\ a.next[r] = h.next[r]
          /\ h.next[r] # h.next[hi] /\ h.next[r] # hi
      BY <1>1, <1>2, <1>5, <2>2, NextUnique DEF Blocks
    <3>2. /\ a.next[r] \in Structs(a)
          /\ a.next[r] >= r + Hdr + MinSize
          /\ \A q \in Structs(a) : q <= r \/ a.next[r] <= q
      BY <1>1, <3>1 DEF Sound, Tiled
    <3>3. a.next[r] # Total => a.prev[a.next[r]] = r
      BY <1>1, <1>2, <1>3, <3>1 DEF Sound, Tiled, Blocks
    <3>4. r # 0 => a.prev[r] \in Blocks(a) /\ a.next[a.prev[r]] = r
      BY <1>1, <1>2, <1>3, <1>5, <3>1, <2>2, SizesAssumption DEF Sound, Tiled, Blocks
    <3> QED BY <3>2, <3>3, <3>4
  <2> QED BY <2>1, <2>2
<1>8. Tiled(a)
  BY <1>6, <1>7 DEF Tiled
<1> QED BY <1>1, <1>3, <1>4, <1>5, <1>8 DEF Sound

\* Marking a block, or moving lfree, leaves the links alone.
LEMMA SetUsedSound ==
  ASSUME NEW h, Sound(h), NEW p \in Blocks(h), NEW u \in {0, 1}
  PROVE  LET s == SetUsed(h, p, u)
         IN  /\ Sound(s) /\ Structs(s) = Structs(h)
             /\ s.next = h.next /\ s.prev = h.prev
             /\ s.used = [h.used EXCEPT ![p] = u] /\ s.lfree = h.lfree
  BY DEF Sound, Typed, Tiled, SetUsed, Structs, Blocks

\* lfree may point anywhere, as far as the links are concerned.
LEMMA SetLfreeSound ==
  ASSUME NEW h, Sound(h), NEW p \in 0 .. Total
  PROVE  LET s == SetLfree(h, p)
         IN  /\ Sound(s) /\ Structs(s) = Structs(h)
             /\ s.next = h.next /\ s.prev = h.prev
             /\ s.used = h.used /\ s.lfree = p
  BY DEF Sound, Typed, Tiled, SetLfree, Structs, Blocks
-----------------------------------------------------------------------------

\* mem_malloc takes a block that is large enough: what is left of it is free
\* and has a used block behind it.
LEMMA TakenSound ==
  ASSUME NEW h, Good(h), NEW p \in Blocks(h), NEW size \in Nat, size >= MinSize,
         Fits(h, p, size)
  PROVE  LET t == Taken(h, p, size)
         IN  /\ Sound(t) /\ NoHoles(t) /\ t.lfree = h.lfree
             /\ p \in Blocks(t) /\ ~Free(t, p)
             /\ \A q \in Blocks(t) : Free(t, q) => h.lfree <= q
             /\ h.lfree \in Structs(t)
             /\ p # h.lfree => AtFree(t)
<1>1. /\ Sound(h) /\ p \in Structs(h) /\ p # Total /\ Structs(h) \subseteq 0 .. Total
      /\ h.next \in [Structs(h) -> 0 .. Total] /\ h.used \in [Structs(h) -> {0, 1}]
      /\ h.next[p] \in Structs(h) /\ p < h.next[p] /\ h.lfree <= p
      /\ ~Free(h, h.next[p]) /\ h.lfree \in Structs(h)
  BY SizesAssumption DEF Good, Sound, Typed, Tiled, Blocks, NoHoles, Below, AtFree, Fits
<1>2. CASE h.next[p] - (p + Hdr) >= size + Hdr + MinSize
  <2> DEFINE p2 == p + Hdr + size
  <2>1. p2 \in Nat /\ p + Hdr + MinSize <= p2 /\ p2 + Hdr + MinSize <= h.next[p]
    BY <1>1, <1>2, SizesAssumption
  <2> HIDE DEF p2
  <2> DEFINE s == Split(h, p, p2)
             t == SetUsed(s, p, 1)
  <2>2. /\ Sound(s)
        /\ Structs(s) = Structs(h) \cup {p2} /\ p2 \in Blocks(s)
        /\ p2 \notin Structs(h)
        /\ s.next = [q \in Structs(h) \cup {p2} |->
                       IF q = p2 THEN h.next[p] ELSE IF q = p THEN p2 ELSE h.next[q]]
        /\ s.used = [q \in Structs(h) \cup {p2} |-> IF q = p2 THEN 0 ELSE h.used[q]]
        /\ s.lfree = h.lfree
    <3>1. Sound(h)
      BY <1>1
    <3>2. p \in Blocks(h)
      OBVIOUS
    <3> QED BY ONLY <3>1, <3>2, <2>1, SplitSound
  <2>3. p \in Blocks(s)
    BY <1>1, <2>2 DEF Blocks
  <2>4. /\ Sound(t) /\ Structs(t) = Structs(s) /\ t.next = s.next
        /\ t.used = [s.used EXCEPT ![p] = 1] /\ t.lfree = h.lfree
    BY <2>2, <2>3, SetUsedSound
  <2> HIDE DEF s, t
  <2>5. /\ t.used[p] = 1 /\ p \in Blocks(t) /\ p # p2
        /\ \A q \in Blocks(t) : q = p2 \/ (q \in Blocks(h) /\ (q # p => t.used[q] = h.used[q]))
        /\ \A q \in Structs(h) : q # p => t.used[q] = h.used[q]
        /\ t.used[p2] = 0 /\ t.next[p2] = h.next[p] /\ p < p2
    <3>1. p < p2 /\ p # p2 /\ p \in Structs(s) /\ p2 \in Structs(s) /\ p2 \in Structs(t)
      <4>1. p < p2 /\ p # p2
        BY <2>1, <1>1, SizesAssumption
      <4> QED BY <4>1, <2>2, <2>4, <1>1
    <3>2. t.used[p] = 1 /\ t.used[p2] = 0 /\ t.next[p2] = h.next[p]
      BY <3>1, <2>2, <2>4
    <3>3. \A q \in Structs(h) : q # p => t.used[q] = h.used[q]
      BY <2>2, <2>4
    <3> QED BY <1>1, <2>2, <2>4, <3>1, <3>2, <3>3 DEF Blocks
  <2>6. NoHoles(t)
    <3> SUFFICES ASSUME NEW q \in Blocks(t), Free(t, q), Free(t, t.next[q])
                 PROVE  FALSE
      BY DEF NoHoles
    <3>1. CASE q = p2
      BY <3>1, <1>1, <2>5 DEF Free
    <3>2. CASE q # p2 /\ q # p
      <4>1. q \in Blocks(h) /\ t.next[q] = h.next[q] /\ h.next[q] \in Structs(h)
        <5>1. q \in Blocks(h) /\ q \in Structs(h) \cup {p2}
          BY <3>2, <2>5 DEF Blocks
        <5>2. t.next[q] = h.next[q]
          BY <3>2, <2>2, <2>4, <5>1
        <5>3. h.next[q] \in Structs(h)
          BY <1>1, <5>1 DEF Sound, Tiled
        <5> QED BY <5>1, <5>2, <5>3
      <4>2. h.next[q] # p
        BY <4>1, <2>5 DEF Free
      <4>3. Free(h, q) /\ Free(h, h.next[q])
        BY <4>1, <4>2, <3>2, <2>5 DEF Free, Blocks
      <4> QED BY <4>1, <4>3 DEF Good, NoHoles
    <3> QED BY <3>1, <3>2, <2>5 DEF Free
  <2>7. \A q \in Blocks(t) : Free(t, q) => h.lfree <= q
    BY <1>1, <2>1, <2>5, SizesAssumption DEF Free, Good, Below, Sound, Typed
  <2>8. h.lfree \in Structs(t) /\ (p # h.lfree => AtFree(t))
    BY <1>1, <2>2, <2>4, <2>5 DEF Good, AtFree, Free, Blocks
  <2>9. t = Taken(h, p, size)
    BY <1>2 DEF Taken, p2, s, t
  <2>10. ~Free(t, p)
    BY <2>5 DEF Free
  <2> QED BY <2>4, <2>5, <2>6, <2>7, <2>8, <2>9, <2>10
<1>3. CASE ~(h.next[p] - (p + Hdr) >= size + Hdr + MinSize)
  <2> DEFINE t == SetUsed(h, p, 1)
  <2>1. /\ Sound(t) /\ Structs(t) = Structs(h) /\ t.next = h.next
        /\ t.used = [h.used EXCEPT ![p] = 1] /\ t.lfree = h.lfree
    BY <1>1, SetUsedSound
  <2>2. t = Taken(h, p, size)
    BY <1>3 DEF Taken
  <2> HIDE DEF t
  <2>3. /\ t.used[p] = 1 /\ p \in Blocks(t) /\ Blocks(t) = Blocks(h)
        /\ \A q \in Structs(h) : q # p => t.used[q] = h.used[q]
    BY <1>1, <2>1 DEF Blocks
  <2>4. NoHoles(t)
    BY <1>1, <2>1, <2>3 DEF NoHoles, Free, Good, Sound, Tiled, Blocks
  <2>5. \A q \in Blocks(t) : Free(t, q) => h.lfree <= q
    BY <2>3 DEF Free, Good, Below, Blocks
  <2>6. h.lfree \in Structs(t) /\ (p # h.lfree => AtFree(t))
    BY <1>1, <2>1, <2>3 DEF Good, AtFree, Free, Blocks
  <2>7. ~Free(t, p)
    BY <2>3 DEF Free
  <2> QED BY <2>1, <2>2, <2>3, <2>4, <2>5, <2>6, <2>7
<1> QED BY <1>2, <1>3

\* mem_free marks a block: only next to it can there be another free one.
LEMMA MarkedSound ==
  ASSUME NEW h, Good(h), NEW p \in Blocks(h)
  PROVE  LET m == Marked(h, p)
         IN  /\ Sound(m) /\ NoHolesBut(m, p) /\ Below(m) /\ AtFree(m)
             /\ p \in Blocks(m) /\ Free(m, p)
<1> DEFINE s == SetUsed(h, p, 0)
           m == SetLfree(s, LoweredTo(h, p))
<1>1. /\ Sound(h) /\ p \in Structs(h) /\ p # Total /\ Structs(h) \subseteq 0 .. Total
      /\ h.used \in [Structs(h) -> {0, 1}] /\ h.lfree \in 0 .. Total
      /\ LoweredTo(h, p) \in 0 .. Total
  BY DEF Good, Sound, Typed, Blocks, LoweredTo
<1>2. /\ Sound(s) /\ Structs(s) = Structs(h) /\ s.next = h.next
      /\ s.used = [h.used EXCEPT ![p] = 0]
  BY <1>1, SetUsedSound
<1>3. /\ Sound(m) /\ Structs(m) = Structs(h) /\ m.next = h.next
      /\ m.used = [h.used EXCEPT ![p] = 0] /\ m.lfree = LoweredTo(h, p)
  BY <1>1, <1>2, SetLfreeSound
<1>4. m = Marked(h, p)
  BY DEF Marked
<1> HIDE DEF m
<1>5. /\ Blocks(m) = Blocks(h) /\ m.used[p] = 0
      /\ \A q \in Structs(h) : q # p => m.used[q] = h.used[q]
  BY <1>1, <1>3 DEF Blocks
<1>6. NoHolesBut(m, p)
  BY <1>1, <1>3, <1>5 DEF NoHolesBut, NoHoles, Free, Good, Sound, Tiled, Blocks
<1>7. Below(m) /\ AtFree(m)
  BY <1>1, <1>3, <1>5 DEF Below, AtFree, Free, Good, LoweredTo, Blocks
<1> QED BY <1>3, <1>4, <1>5, <1>6, <1>7 DEF Free

\* After plug_holes no two free blocks are next to each other.
LEMMA PlugHolesGood ==
  ASSUME NEW h, NEW p \in Blocks(h), Sound(h), NoHolesBut(h, p), Below(h), AtFree(h),
         Free(h, p)
  PROVE  Good(PlugHoles(h, p))
<1> DEFINE f == PlugForward(h, p)
<1>1. /\ Sound(f) /\ NoHolesBut(f, p) /\ Below(f) /\ AtFree(f)
      /\ p \in Blocks(f) /\ Free(f, p) /\ ~Free(f, f.next[p])
  <2> DEFINE n == h.next[p]
  <2>1. /\ Structs(h) \subseteq 0 .. Total /\ p \in Structs(h) /\ p # Total
        /\ h.used \in [Structs(h) -> {0, 1}] /\ h.next \in [Structs(h) -> 0 .. Total]
        /\ n \in Structs(h) /\ p < n /\ h.used[Total] = 1 /\ h.lfree <= p
        /\ h.lfree \in 0 .. Total
    BY SizesAssumption DEF Sound, Typed, Tiled, Blocks, Below
  <2>2. CASE Free(h, n)
    <3> DEFINE a == Absorb(h, p, n)
    <3>1. n # Total /\ n \in Blocks(h) /\ f = a
      BY <2>1, <2>2 DEF Free, Blocks, PlugForward
    <3>2. /\ Sound(a)
          /\ Structs(a) = Structs(h) \ {n} /\ p \in Blocks(a)
          /\ a.next = [q \in Structs(h) \ {n} |-> IF q = p THEN h.next[n] ELSE h.next[q]]
          /\ a.used = [q \in Structs(h) \ {n} |-> h.used[q]]
          /\ a.lfree = (IF h.lfree = n THEN p ELSE h.lfree)
      BY <3>1, AbsorbSound
    <3> HIDE DEF a
    <3>3. /\ Blocks(a) = Blocks(h) \ {n} /\ a.lfree = h.lfree
          /\ \A q \in Structs(a) : a.used[q] = h.used[q]
          /\ a.next[p] = h.next[n] /\ h.next[n] \in Structs(h) /\ n < h.next[n]
      <4>1. h.next[n] \in Structs(h) /\ n + Hdr + MinSize <= h.next[n]
        BY <3>1 DEF Sound, Tiled
      <4>2. n < h.next[n]
        BY <2>1, <4>1, SizesAssumption
      <4>3. Blocks(a) = Blocks(h) \ {n}
        BY <3>2 DEF Blocks
      <4>4. a.lfree = h.lfree
        BY <2>1, <3>2
      <4>5. \A q \in Structs(a) : a.used[q] = h.used[q]
        BY <3>2
      <4>6. a.next[p] = h.next[n]
        BY <2>1, <3>2
      <4> QED BY <4>1, <4>2, <4>3, <4>4, <4>5, <4>6
    <3>4. ~Free(a, a.next[p])
      BY <2>1, <2>2, <3>1, <3>2, <3>3 DEF Free, NoHolesBut, Blocks
    <3>5. NoHolesBut(a, p)
      <4> SUFFICES ASSUME NEW q \in Blocks(a), Free(a, q), Free(a, a.next[q]), q # p
                   PROVE  a.next[q] = p
        BY DEF NoHolesBut
      <4>1. /\ q \in Blocks(h) /\ q \in Structs(a)
            /\ a.next[q] = h.next[q] /\ a.next[q] \in Structs(a)
        <5>1. a.next[q] \in Structs(a)
          BY <3>2 DEF Sound, Tiled
        <5>2. q \in Blocks(h) /\ q \in Structs(h) \ {n} /\ q \in Structs(a)
          BY <3>2, <3>3 DEF Blocks
        <5>3. a.next[q] = h.next[q]
          BY <3>2, <5>2
        <5> QED BY <5>1, <5>2, <5>3
      <4> QED BY <4>1, <3>3 DEF NoHolesBut, Free
    <3>6. Below(a) /\ AtFree(a)
      BY <2>1, <3>2, <3>3 DEF Below, AtFree, Free, Blocks
    <3> QED BY <3>1, <3>2, <3>3, <3>4, <3>5, <3>6, <2>1 DEF Free, Blocks
  <2>3. CASE ~Free(h, n)
    BY <2>3 DEF PlugForward
  <2> QED BY <2>2, <2>3
<1> HIDE DEF f
<1> DEFINE q == f.prev[p]
           g == PlugBackward(f, p)
<1>2. /\ Structs(f) \subseteq 0 .. Total /\ p \in Structs(f) /\ p # Total
      /\ f.used \in [Structs(f) -> {0, 1}] /\ f.next \in [Structs(f) -> 0 .. Total]
      /\ p = 0 => q = p
      /\ p # 0 => q \in Blocks(f) /\ f.next[q] = p /\ q < p
      /\ f.next[p] \in Structs(f) /\ p < f.next[p] /\ f.lfree <= p /\ f.lfree \in 0 .. Total
  BY <1>1, SizesAssumption DEF Sound, Typed, Tiled, Blocks, Below
<1>3. Good(g)
  <2>1. CASE q # p /\ Free(f, q)
    <3> DEFINE a == Absorb(f, q, p)
    <3>1. q \in Blocks(f) /\ f.next[q] = p /\ q < p /\ g = a
      BY <1>2, <2>1 DEF PlugBackward
    <3>2. /\ Sound(a)
          /\ Structs(a) = Structs(f) \ {p} /\ q \in Blocks(a)
          /\ a.next = [r \in Structs(f) \ {p} |-> IF r = q THEN f.next[p] ELSE f.next[r]]
          /\ a.used = [r \in Structs(f) \ {p} |-> f.used[r]]
          /\ a.lfree = (IF f.lfree = p THEN q ELSE f.lfree)
      <4> HIDE DEF q
      <4>1. Sound(f) /\ q \in Blocks(f) /\ p \in Blocks(f) /\ f.next[q] = p
        BY <3>1, <1>1, <1>2 DEF Blocks
      <4> QED BY ONLY <4>1, AbsorbSound
    <3> HIDE DEF a, q
    <3>3. /\ Blocks(a) = Blocks(f) \ {p} /\ f.lfree <= q /\ a.lfree = f.lfree
          /\ \A r \in Structs(a) : a.used[r] = f.used[r]
          /\ a.next[q] = f.next[p] /\ q \in Structs(f) /\ q # p
      BY <1>1, <1>2, <2>1, <3>1, <3>2 DEF Blocks, Below
    <3>4. NoHoles(a)
      <4> SUFFICES ASSUME NEW r \in Blocks(a), Free(a, r), Free(a, a.next[r])
                   PROVE  FALSE
        BY DEF NoHoles
      <4>1. a.next[r] \in Structs(a)
        BY <3>2 DEF Sound, Tiled
      <4>2. CASE r = q
        BY <4>1, <4>2, <1>1, <3>3 DEF Free
      <4>3. CASE r # q
        <5>1. /\ r \in Blocks(f) /\ r # p /\ r \in Structs(a)
              /\ a.next[r] = f.next[r] /\ a.next[r] # p
          BY <4>1, <4>3, <3>2, <3>3 DEF Blocks
        <5> QED BY <4>1, <5>1, <1>1, <3>3 DEF NoHolesBut, Free
      <4> QED BY <4>2, <4>3
    <3>5. Below(a) /\ AtFree(a)
      BY <1>1, <1>2, <3>1, <3>2, <3>3 DEF Below, AtFree, Free, Blocks
    <3> QED BY <3>1, <3>2, <3>4, <3>5 DEF Good
  <2>2. CASE ~(q # p /\ Free(f, q))
    <3>1. g = f
      BY <2>2 DEF PlugBackward
    <3>2. NoHoles(f)
      <4> SUFFICES ASSUME NEW r \in Blocks(f), Free(f, r), Free(f, f.next[r])
                   PROVE  FALSE
        BY DEF NoHoles
      <4>1. r # p /\ f.next[r] = p
        BY <1>1 DEF NoHolesBut
      <4>2. r = q /\ q # p
        BY <4>1, <1>1, <1>2 DEF Sound, Tiled
      <4> QED BY <4>2, <2>2
    <3> QED BY <3>1, <3>2, <1>1 DEF Good
  <2> QED BY <2>1, <2>2
<1> QED BY <1>3 DEF PlugHoles, f
\* mem_trim leaves the heap in order, whether it moves the free struct behind
\* the block, makes one, or does nothing.
LEMMA TrimmedGood ==
  ASSUME NEW h, Good(h), NEW p \in Blocks(h), ~Free(h, p),
         NEW size \in Nat, size >= MinSize, size < h.next[p] - p - Hdr,
         ~TrimAborts(h, p, size)
  PROVE  Good(Trimmed(h, p, size))
<1> DEFINE n == h.next[p]
           p2 == p + Hdr + size
<1>1. /\ Sound(h) /\ p \in Structs(h) /\ p # Total /\ Structs(h) \subseteq 0 .. Total
      /\ h.next \in [Structs(h) -> 0 .. Total] /\ h.used \in [Structs(h) -> {0, 1}]
      /\ n \in Structs(h) /\ p < n /\ n \in 0 .. Total /\ h.used[Total] = 1
      /\ h.lfree \in 0 .. Total
  BY SizesAssumption DEF Good, Sound, Typed, Tiled, Blocks
<1>2. p2 \in Nat /\ p + Hdr + MinSize <= p2 /\ p < p2 /\ p2 < n /\ p2 \in 0 .. Total
      /\ p # p2
  BY <1>1, SizesAssumption
<1>3. CASE Free(h, n)
  <2> HIDE DEF p2
  <2> DEFINE a == Absorb(h, p, n)
             s == Split(a, p, p2)
             t == SetLfree(s, IF h.lfree = n THEN p2 ELSE h.lfree)
  <2>1. n \in Blocks(h)
    BY <1>1, <1>3 DEF Blocks, Free
  <2>2. /\ Sound(a)
        /\ Structs(a) = Structs(h) \ {n} /\ p \in Blocks(a)
        /\ a.next = [q \in Structs(h) \ {n} |-> IF q = p THEN h.next[n] ELSE h.next[q]]
        /\ a.used = [q \in Structs(h) \ {n} |-> h.used[q]]
    BY <1>1, <2>1, AbsorbSound
  <2> HIDE DEF a
  <2>3. /\ a.next[p] = h.next[n] /\ h.next[n] \in Structs(h) /\ h.next[n] \in 0 .. Total
        /\ n + Hdr + MinSize <= h.next[n] /\ ~Free(h, h.next[n]) /\ h.next[n] # n
    <3>1. h.next[n] \in Structs(h) /\ n + Hdr + MinSize <= h.next[n]
      BY <1>1, <2>1 DEF Sound, Tiled
    <3>2. h.next[n] \in 0 .. Total /\ h.next[n] # n
      BY <1>1, <3>1, SizesAssumption
    <3>3. ~Free(h, h.next[n])
      BY <1>3, <2>1 DEF Good, NoHoles
    <3>4. p \in Structs(h) \ {n} /\ a.next[p] = h.next[n]
      BY <1>1, <2>2
    <3> QED BY <3>1, <3>2, <3>3, <3>4
  <2>4. p2 + Hdr + MinSize <= a.next[p]
    BY <1>1, <1>2, <2>3, SizesAssumption
  <2>5. /\ Sound(s)
        /\ Structs(s) = Structs(a) \cup {p2} /\ p2 \in Blocks(s)
        /\ p2 \notin Structs(a)
        /\ s.next = [q \in Structs(a) \cup {p2} |->
                       IF q = p2 THEN a.next[p] ELSE IF q = p THEN p2 ELSE a.next[q]]
        /\ s.used = [q \in Structs(a) \cup {p2} |-> IF q = p2 THEN 0 ELSE a.used[q]]
    <3>1. /\ Sound(a) /\ p \in Blocks(a) /\ p2 \in Nat
          /\ p + Hdr + MinSize <= p2 /\ p2 + Hdr + MinSize <= a.next[p]
      BY <1>2, <2>2, <2>4
    <3> QED BY <3>1, SplitSound
  <2> HIDE DEF s
  <2>6. /\ Sound(t) /\ Structs(t) = Structs(s) /\ t.next = s.next /\ t.used = s.used
        /\ t.lfree = (IF h.lfree = n THEN p2 ELSE h.lfree)
    BY <1>1, <1>2, <2>5, SetLfreeSound
  <2> HIDE DEF t
  <2>7. /\ p2 \in Structs(t) /\ p2 \in Blocks(t) /\ t.used[p2] = 0 /\ t.next[p2] = h.next[n]
        /\ \A q \in Structs(h) : q # n => q \in Structs(t) /\ t.used[q] = h.used[q]
        /\ \A q \in Blocks(t) : q = p2 \/ (q \in Blocks(h) /\ q # n)
        /\ \A q \in Blocks(h) : q # n /\ q # p => t.next[q] = h.next[q]
    <3>1. /\ Structs(t) = (Structs(h) \ {n}) \cup {p2} /\ p2 \notin Structs(h) \ {n}
          /\ p2 \in Blocks(t)
      BY <2>2, <2>5, <2>6 DEF Blocks
    <3>2. t.used[p2] = 0 /\ t.next[p2] = h.next[n]
      BY <2>3, <2>5, <2>6
    <3>3. ASSUME NEW q \in Structs(h), q # n
          PROVE  /\ q \in Structs(t) /\ q # p2 /\ t.used[q] = h.used[q]
                 /\ q # p => t.next[q] = h.next[q]
      <4>1. q \in Structs(a) /\ q # p2
        BY <3>1, <3>3, <2>2
      <4>2. t.used[q] = a.used[q] /\ (q # p => t.next[q] = a.next[q])
        BY <4>1, <2>5, <2>6
      <4> QED BY <3>1, <3>3, <4>1, <4>2, <2>2
    <3> QED BY <3>1, <3>2, <3>3 DEF Blocks
  <2>8. NoHoles(t)
    <3> SUFFICES ASSUME NEW q \in Blocks(t), Free(t, q), Free(t, t.next[q])
                 PROVE  FALSE
      BY DEF NoHoles
    <3>1. CASE q = p2
      BY <3>1, <2>3, <2>7 DEF Free
    <3>2. CASE q # p2
      <4>1. q \in Blocks(h) /\ q # n /\ Free(h, q)
        BY <3>2, <2>7 DEF Free, Blocks
      <4>2. q # p
        BY <4>1
      <4>3. t.next[q] = h.next[q] /\ h.next[q] \in Structs(h)
        BY <4>1, <4>2, <2>7, <1>1 DEF Sound, Tiled
      <4>4. Free(h, h.next[q])
        BY <4>3, <1>3, <2>7 DEF Free
      <4> QED BY <4>1, <4>4 DEF Good, NoHoles
    <3> QED BY <3>1, <3>2
  <2>9. Below(t)
    <3> SUFFICES ASSUME NEW q \in Blocks(t), Free(t, q)
                 PROVE  t.lfree <= q
      BY DEF Below
    <3>1. h.lfree <= n
      BY <1>3, <2>1 DEF Good, Below
    <3>2. CASE q = p2
      <4>1. h.lfree # n => h.lfree <= p
        <5>1. \A r \in Structs(h) : r <= p \/ n <= r
          BY <1>1 DEF Sound, Tiled
        <5>2. h.lfree \in Structs(h)
          BY <1>1 DEF Good, AtFree, Blocks, Sound, Tiled
        <5>3. h.lfree <= p \/ n <= h.lfree
          BY <5>1, <5>2
        <5> QED BY <5>3, <3>1, <1>1
      <4> QED BY <4>1, <3>2, <2>6, <1>1, <1>2
    <3>3. CASE q # p2
      <4>1. q \in Blocks(h) /\ q # n /\ Free(h, q)
        BY <3>3, <2>7 DEF Free, Blocks
      <4>2. h.lfree <= q /\ q \in 0 .. Total
        BY <4>1, <1>1 DEF Good, Below, Blocks
      <4> QED BY <4>2, <4>1, <2>6, <1>1, <1>2
    <3> QED BY <3>2, <3>3
  <2>10. AtFree(t)
    BY <1>1, <2>1, <2>6, <2>7 DEF AtFree, Free, Blocks, Good
  <2>11. t = Trimmed(h, p, size)
    BY <1>3 DEF Trimmed, Moved, a, s, t, p2
  <2> QED BY <2>6, <2>8, <2>9, <2>10, <2>11 DEF Good
<1>4. CASE ~Free(h, n) /\ size + Hdr + MinSize <= n - p - Hdr
  <2>1. p2 + Hdr + MinSize <= n
    BY <1>1, <1>4, SizesAssumption
  <2> HIDE DEF p2
  <2> DEFINE s == Split(h, p, p2)
             t == SetLfree(s, LoweredTo(h, p2))
  <2>2. /\ Sound(s)
        /\ Structs(s) = Structs(h) \cup {p2} /\ p2 \in Blocks(s)
        /\ p2 \notin Structs(h)
        /\ s.next = [q \in Structs(h) \cup {p2} |->
                       IF q = p2 THEN h.next[p] ELSE IF q = p THEN p2 ELSE h.next[q]]
        /\ s.used = [q \in Structs(h) \cup {p2} |-> IF q = p2 THEN 0 ELSE h.used[q]]
    BY <1>1, <1>2, <2>1, SplitSound
  <2> HIDE DEF s
  <2>3. LoweredTo(h, p2) \in 0 .. Total
    BY <1>1, <1>2 DEF LoweredTo
  <2>4. /\ Sound(t) /\ Structs(t) = Structs(s) /\ t.next = s.next /\ t.used = s.used
        /\ t.lfree = LoweredTo(h, p2)
    BY <2>2, <2>3, SetLfreeSound
  <2> HIDE DEF t
  <2>5. /\ p2 \in Structs(t) /\ p2 \in Blocks(t) /\ t.used[p2] = 0 /\ t.next[p2] = n
        /\ \A q \in Structs(h) : q \in Structs(t) /\ t.used[q] = h.used[q]
        /\ \A q \in Blocks(t) : q = p2 \/ q \in Blocks(h)
        /\ \A q \in Blocks(h) : q # p => t.next[q] = h.next[q]
    BY <1>1, <2>2, <2>4 DEF Blocks
  <2>6. NoHoles(t)
    <3> SUFFICES ASSUME NEW q \in Blocks(t), Free(t, q), Free(t, t.next[q])
                 PROVE  FALSE
      BY DEF NoHoles
    <3>1. CASE q = p2
      BY <3>1, <1>1, <1>4, <2>5 DEF Free
    <3>2. CASE q # p2
      <4>1. q \in Blocks(h) /\ Free(h, q)
        BY <3>2, <2>5 DEF Free, Blocks
      <4>2. q # p
        BY <4>1
      <4>3. t.next[q] = h.next[q] /\ h.next[q] \in Structs(h)
        BY <4>1, <4>2, <2>5, <1>1 DEF Sound, Tiled
      <4>4. Free(h, h.next[q])
        BY <4>3, <2>5 DEF Free
      <4> QED BY <4>1, <4>4 DEF Good, NoHoles
    <3> QED BY <3>1, <3>2
  <2>7. Below(t)
    BY <1>1, <1>2, <2>4, <2>5 DEF Below, Free, Good, LoweredTo, Blocks
  <2>8. AtFree(t)
    BY <1>1, <2>4, <2>5 DEF AtFree, Free, Blocks, Good, LoweredTo
  <2>9. t = Trimmed(h, p, size)
    BY <1>4 DEF Trimmed, TrimSplit, s, t, p2
  <2> QED BY <2>4, <2>6, <2>7, <2>8, <2>9 DEF Good
<1>5. CASE ~Free(h, n) /\ ~(size + Hdr + MinSize <= n - p - Hdr)
  BY <1>5 DEF Trimmed
<1> QED BY <1>3, <1>4, <1>5
\* lfree is set to the lowest free block, or to the end if there is none.
LEMMA SetLfreeGood ==
  ASSUME NEW h, Sound(h), NoHoles(h), NEW cur \in Structs(h), cur = Total \/ Free(h, cur),
         \A q \in Blocks(h) : Free(h, q) => cur <= q
  PROVE  Good(SetLfree(h, cur))
<1> DEFINE t == SetLfree(h, cur)
<1>1. cur \in 0 .. Total
  BY DEF Sound, Typed
<1>2. /\ Sound(t) /\ Structs(t) = Structs(h)
      /\ t.next = h.next /\ t.used = h.used /\ t.lfree = cur
  BY <1>1, SetLfreeSound
<1> HIDE DEF t
<1>3. NoHoles(t) /\ Below(t) /\ AtFree(t)
  BY <1>2 DEF NoHoles, Below, AtFree, Free, Blocks
<1> QED BY <1>2, <1>3 DEF Good, t

-----------------------------------------------------------------------------

\* The heap is in order whenever the main loop is not writing to it.
LEMMA ReadingGood ==
  ASSUME IInv, job.pc \in {"idle", "scan", "take"}
  PROVE  Good(heap)
  BY DEF IInv, Scanning, Taking

\* An interrupt that leaves the heap in order, if it found it so, keeps what
\* the main loop knows, or the main loop's call is stale.
LEMMA InterruptKeeps ==
  ASSUME IInv, Running, NEW h, job.pc \in {"idle", "scan", "take"} => Good(h),
         Interrupt(h), missed' = missed
  PROVE  IInv'
<1>1. JobType /\ JobType' /\ missed' = FALSE /\ heap' = h
  BY DEF IInv, JobType, Interrupt, Halted
<1>2. CASE Stale(h)
  BY <1>1, <1>2 DEF IInv, Interrupt, Halted
<1>3. CASE ~Stale(h) /\ job.pc = "idle"
  BY <1>1, <1>3 DEF IInv, Interrupt
<1>4. CASE ~Stale(h) /\ job.pc = "scan"
  <2>1. job' = [job EXCEPT !.seen = TRUE] /\ job.p \in Structs(h) /\ Good(h)
    BY <1>4 DEF Interrupt, Stale
  <2>2. job'.pc = "scan" /\ job'.p = job.p /\ job'.size = job.size /\ job'.seen = TRUE
    BY <1>1, <1>4, <2>1 DEF JobType
  <2>3. Scanning'
    BY <1>1, <1>4, <2>1, <2>2 DEF Scanning, IInv
  <2> QED BY <1>1, <2>2, <2>3 DEF IInv
<1>5. CASE ~Stale(h) /\ job.pc = "take"
  <2>1. /\ job' = [job EXCEPT !.seen = TRUE] /\ job.p \in Structs(h) /\ Good(h)
        /\ h.next[job.p] = heap.next[job.p] /\ h.used[job.p] = heap.used[job.p]
    BY <1>5 DEF Interrupt, Stale
  <2>2. job'.pc = "take" /\ job'.p = job.p /\ job'.size = job.size
    BY <1>1, <1>5, <2>1 DEF JobType
  <2>3. Taking
    BY <1>5 DEF IInv
  <2>4. job.p \in Blocks(h) /\ Fits(h, job.p, job.size)
    BY <2>1, <2>3 DEF Taking, Fits, Free, Blocks
  <2>5. Taking'
    BY <1>1, <2>1, <2>2, <2>3, <2>4 DEF Taking
  <2> QED BY <1>1, <2>2, <2>5 DEF IInv
<1> QED BY <1>1, <1>2, <1>3, <1>4, <1>5 DEF Stale, Running, JobType

\* mem_init makes one free block, which lfree points to.
THEOREM InitInvariant == Init => IInv
<1> SUFFICES ASSUME Init PROVE IInv
  OBVIOUS
<1>1. /\ Structs(heap) = {0, Total} /\ Blocks(heap) = {0}
      /\ heap.next = [q \in {0, Total} |-> Total]
      /\ heap.prev = [q \in {0, Total} |-> q]
      /\ heap.used = [q \in {0, Total} |-> IF q = Total THEN 1 ELSE 0]
      /\ heap.lfree = 0 /\ 0 # Total
  BY SizesAssumption DEF Init, Structs, Blocks
<1>2. Sound(heap)
  BY <1>1, SizesAssumption DEF Sound, Typed, Tiled
<1>3. NoHoles(heap) /\ Below(heap) /\ AtFree(heap)
  BY <1>1, SizesAssumption DEF NoHoles, Below, AtFree, Free
<1> QED BY <1>2, <1>3 DEF Init, Idle, IInv, JobType, Good

\* Every step of mem_malloc, mem_free and mem_trim keeps the invariant.
THEOREM StepInvariant == IInv /\ [Next]_vars => IInv'
<1> SUFFICES ASSUME IInv, [Next]_vars PROVE IInv'
  OBVIOUS
<1>0. JobType /\ missed = FALSE
  BY DEF IInv
<1>1. CASE MallocBegin
  <2>1. PICK n \in Requests : /\ Size(n) <= Total
                              /\ job' = [pc |-> "scan", p |-> heap.lfree,
                                         size |-> Size(n), seen |-> FALSE]
    BY <1>1 DEF MallocBegin
  <2>2. Good(heap) /\ heap' = heap /\ missed' = FALSE
    BY <1>0, <1>1 DEF MallocBegin, IInv
  <2>3. heap.lfree \in Structs(heap) /\ heap.lfree \in Nat
    BY <2>2 DEF Good, AtFree, Sound, Tiled, Typed, Blocks
  <2>4. \A q \in Blocks(heap) : q < heap.lfree => ~Fits(heap, q, Size(n))
    BY <2>2 DEF Good, Sound, Typed, Below, Fits, Blocks
  <2>5. Scanning'
    BY <2>1, <2>2, <2>3, <2>4, SizeLarge DEF Scanning
  <2> QED BY <2>1, <2>2, <2>3, <2>5, SizeLarge DEF IInv, JobType
<1>2. CASE MallocFail
  <2>1. Scanning /\ job.p >= Total - job.size /\ heap' = heap /\ job' = Idle
    BY <1>2 DEF MallocFail, IInv
  <2>2. ~job.seen => ~SomeFits(job.size)
    <3> SUFFICES ASSUME ~job.seen, NEW q \in Blocks(heap), Fits(heap, q, job.size)
                 PROVE  FALSE
      BY DEF SomeFits
    <3>1. /\ q \in 0 .. Total /\ heap.next[q] \in 0 .. Total /\ job.p \in 0 .. Total
          /\ heap.next[q] - (q + Hdr) >= job.size /\ job.size \in Nat
      BY <1>0, <2>1 DEF Scanning, Good, Sound, Typed, Blocks, Fits, JobType
    <3>2. q < job.p
      BY <3>1, <2>1, SizesAssumption
    <3> QED BY <2>1, <3>2 DEF Scanning
  <2>3. missed' = FALSE
    BY <1>0, <1>2, <2>2 DEF MallocFail
  <2> QED BY <2>1, <2>3 DEF IInv, JobType, Scanning, Idle
<1>3. CASE MallocScan
  <2>1. /\ Scanning /\ heap' = heap /\ missed' = FALSE /\ job.pc = "scan"
        /\ job.p < Total - job.size
    BY <1>0, <1>3 DEF MallocScan, IInv
  <2>2. /\ job.p \in Blocks(heap) /\ job.p \in Nat /\ job.size \in Nat
        /\ heap.next[job.p] \in Structs(heap) /\ heap.next[job.p] \in Nat
        /\ \A q \in Structs(heap) : q <= job.p \/ heap.next[job.p] <= q
        /\ Structs(heap) \subseteq 0 .. Total
    <3>1. job.p \in Blocks(heap) /\ job.p \in Nat /\ job.size \in Nat
      BY <1>0, <2>1, SizesAssumption DEF Scanning, Blocks, JobType
    <3> QED BY <3>1, <2>1 DEF Scanning, Good, Sound, Tiled, Typed, Blocks
  <2>3. CASE Fits(heap, job.p, job.size)
    <3>1. job' = [job EXCEPT !.pc = "take"]
      BY <1>3, <2>3 DEF MallocScan
    <3>2. job'.pc = "take" /\ job'.p = job.p /\ job'.size = job.size /\ JobType'
      BY <1>0, <3>1 DEF JobType
    <3>3. Taking'
      BY <2>1, <2>2, <2>3, <3>2 DEF Taking, Scanning
    <3> QED BY <2>1, <3>2, <3>3 DEF IInv
  <2>4. CASE ~Fits(heap, job.p, job.size)
    <3>1. job' = [job EXCEPT !.p = heap.next[job.p]]
      BY <1>3, <2>4 DEF MallocScan
    <3>2. /\ job'.pc = "scan" /\ job'.p = heap.next[job.p] /\ job'.size = job.size
          /\ job'.seen = job.seen /\ JobType'
      BY <1>0, <2>1, <2>2, <3>1 DEF JobType
    <3>3. ASSUME ~job.seen, NEW q \in Blocks(heap), q < heap.next[job.p]
          PROVE  ~Fits(heap, q, job.size)
      <4>1. q \in Structs(heap) /\ q \in Nat /\ q <= job.p
        BY <2>2, <3>3 DEF Blocks
      <4>2. q = job.p \/ q < job.p
        BY <4>1, <2>2
      <4> QED BY <4>2, <2>1, <2>4, <3>3 DEF Scanning
    <3>4. Scanning'
      BY <2>1, <2>2, <3>2, <3>3 DEF Scanning
    <3> QED BY <2>1, <3>2, <3>4 DEF IInv
  <2> QED BY <2>3, <2>4
<1>4. CASE MallocTake
  <2> DEFINE t == Taken(heap, job.p, job.size)
  <2>1. Taking /\ heap' = t /\ missed' = FALSE /\ job.pc = "take" /\ job.size \in Nat
    BY <1>0, <1>4 DEF MallocTake, IInv, JobType
  <2>2. /\ Sound(t) /\ NoHoles(t) /\ t.lfree = heap.lfree
        /\ job.p \in Blocks(t) /\ ~Free(t, job.p)
        /\ \A q \in Blocks(t) : Free(t, q) => heap.lfree <= q
        /\ job.p # heap.lfree => AtFree(t)
    BY <2>1, TakenSound DEF Taking
  <2> HIDE DEF t
  <2>3. CASE job.p = heap.lfree
    <3>1. job' = [job EXCEPT !.pc = "adjust"]
      BY <1>4, <2>3 DEF MallocTake
    <3>2. job'.pc = "adjust" /\ job'.p = job.p /\ JobType'
      BY <1>0, <3>1 DEF JobType
    <3>3. job.p <= job.p
      BY <1>0 DEF JobType
    <3>4. Adjusting'
      BY <2>1, <2>2, <2>3, <3>2, <3>3 DEF Adjusting, Blocks
    <3> QED BY <2>1, <3>2, <3>4 DEF IInv
  <2>4. CASE job.p # heap.lfree
    <3>1. job' = Idle
      BY <1>4, <2>4 DEF MallocTake
    <3>2. Good(t)
      BY <2>2, <2>4 DEF Good, Below
    <3> QED BY <2>1, <3>1, <3>2 DEF IInv, JobType, Idle
  <2> QED BY <2>3, <2>4
<1>5. CASE MallocAdjust
  <2>1. Adjusting /\ missed' = FALSE /\ job.pc = "adjust"
    BY <1>0, <1>5 DEF MallocAdjust, IInv
  <2>2. CASE ~Free(heap, job.p) /\ job.p # Total
    <3>1. job' = [job EXCEPT !.p = heap.next[job.p]] /\ heap' = heap
      BY <1>5, <2>2 DEF MallocAdjust
    <3>2. /\ job.p \in Blocks(heap) /\ job.p \in Nat
          /\ heap.next[job.p] \in Structs(heap) /\ heap.next[job.p] \in Nat
          /\ job.p < heap.next[job.p] /\ heap.lfree \in Nat
          /\ \A q \in Structs(heap) : q <= job.p \/ heap.next[job.p] <= q
          /\ Structs(heap) \subseteq 0 .. Total
      BY <2>1, <2>2, SizesAssumption DEF Adjusting, Sound, Typed, Tiled, Blocks
    <3>3. job'.pc = "adjust" /\ job'.p = heap.next[job.p] /\ JobType'
      BY <1>0, <2>1, <3>1, <3>2 DEF JobType
    <3>4. ASSUME NEW q \in Blocks(heap), Free(heap, q)
          PROVE  heap.next[job.p] <= q
      <4>1. q # job.p /\ job.p <= q /\ q \in Nat /\ q \in Structs(heap)
        BY <2>1, <2>2, <3>2, <3>4 DEF Adjusting, Blocks
      <4> QED BY <4>1, <3>2
    <3>5. heap.lfree <= heap.next[job.p]
      BY <2>1, <3>2 DEF Adjusting
    <3>6. Adjusting'
      BY <2>1, <3>1, <3>2, <3>3, <3>4, <3>5 DEF Adjusting
    <3> QED BY <2>1, <3>3, <3>6 DEF IInv
  <2>3. CASE ~(~Free(heap, job.p) /\ job.p # Total)
    <3>1. heap' = SetLfree(heap, job.p) /\ job' = Idle
      BY <1>5, <2>3 DEF MallocAdjust
    <3>2. Good(heap')
      BY <2>1, <2>3, <3>1, SetLfreeGood DEF Adjusting
    <3> QED BY <2>1, <3>1, <3>2 DEF IInv, JobType, Idle
  <2> QED BY <2>2, <2>3
<1>6. CASE FreeMark
  <2>1. Good(heap) /\ missed' = FALSE
    BY <1>0, <1>6 DEF FreeMark, IInv
  <2>2. PICK p \in Blocks(heap) : /\ heap' = Marked(heap, p)
                                  /\ job' = [pc |-> "plug", p |-> p, size |-> 0, seen |-> FALSE]
    BY <1>6 DEF FreeMark, Allocated
  <2>3. p \in Nat
    BY <2>1 DEF Good, Sound, Typed, Blocks
  <2>4. Plugging'
    BY <2>1, <2>2, MarkedSound DEF Plugging
  <2> QED BY <2>1, <2>2, <2>3, <2>4 DEF IInv, JobType
<1>7. CASE FreePlug
  <2>1. Plugging /\ heap' = PlugHoles(heap, job.p) /\ job' = Idle /\ missed' = FALSE
    BY <1>0, <1>7 DEF FreePlug, IInv
  <2>2. Good(heap')
    BY <2>1, PlugHolesGood DEF Plugging
  <2> QED BY <2>1, <2>2 DEF IInv, JobType, Idle
<1>8. CASE Trim
  <2>1. Good(heap) /\ missed' = FALSE /\ job.pc = "idle"
    BY <1>0, <1>8 DEF Trim, IInv
  <2>2. PICK p \in Blocks(heap), n \in Requests :
          /\ ~Free(heap, p) /\ Size(n) < heap.next[p] - p - Hdr
          /\ IF TrimAborts(heap, p, Size(n))
             THEN job' = Halted("aborted") /\ UNCHANGED heap
             ELSE heap' = Trimmed(heap, p, Size(n)) /\ UNCHANGED job
    BY <1>8 DEF Trim, Allocated, CanTrim
  <2>3. CASE TrimAborts(heap, p, Size(n))
    <3>1. job' = Halted("aborted")
      BY <2>2, <2>3
    <3> QED BY <2>1, <3>1 DEF IInv, JobType, Halted
  <2>4. CASE ~TrimAborts(heap, p, Size(n))
    <3>1. heap' = Trimmed(heap, p, Size(n)) /\ job' = job
      BY <2>2, <2>4
    <3>2. Good(heap')
      BY <2>1, <2>2, <2>4, <3>1, SizeLarge, TrimmedGood
    <3> QED BY <1>0, <2>1, <3>1, <3>2 DEF IInv, JobType
  <2> QED BY <2>3, <2>4
<1>9. CASE IsrMalloc
  <2>1. PICK n \in Requests, p \in Blocks(heap) :
          /\ IsFirstFit(p, Size(n))
          /\ IF p = heap.lfree
             THEN \E cur \in Structs(Taken(heap, p, Size(n))) :
                    /\ IsNextFree(Taken(heap, p, Size(n)), p, cur)
                    /\ Interrupt(SetLfree(Taken(heap, p, Size(n)), cur))
             ELSE Interrupt(Taken(heap, p, Size(n)))
    BY <1>9 DEF IsrMalloc
  <2> DEFINE t == Taken(heap, p, Size(n))
  <2>2. ASSUME job.pc \in {"idle", "scan", "take"}
        PROVE  /\ Sound(t) /\ NoHoles(t) /\ t.lfree = heap.lfree
               /\ \A q \in Blocks(t) : Free(t, q) => heap.lfree <= q
               /\ p # heap.lfree => AtFree(t)
    BY <2>1, <2>2, ReadingGood, SizeLarge, TakenSound DEF IsFirstFit
  <2>3. Running /\ missed' = missed
    BY <1>9 DEF IsrMalloc
  <2> HIDE DEF t
  <2>4. CASE p = heap.lfree
    <3>1. PICK cur \in Structs(t) : IsNextFree(t, p, cur) /\ Interrupt(SetLfree(t, cur))
      BY <2>1, <2>4 DEF t
    <3>2. ASSUME job.pc \in {"idle", "scan", "take"}
          PROVE  Good(SetLfree(t, cur))
      <4>1. ASSUME NEW q \in Blocks(t), Free(t, q)
            PROVE  cur <= q
        <5>1. p <= q /\ q \in Nat /\ cur \in Nat
          BY <2>2, <2>4, <3>2, <4>1 DEF Sound, Typed, Blocks
        <5> QED BY <5>1, <3>1, <4>1 DEF IsNextFree
      <4> QED BY <2>2, <3>1, <3>2, <4>1, SetLfreeGood DEF IsNextFree
    <3> QED BY <2>3, <3>1, <3>2, InterruptKeeps
  <2>5. CASE p # heap.lfree
    <3>1. ASSUME job.pc \in {"idle", "scan", "take"}
          PROVE  Good(t)
      BY <2>2, <2>5, <3>1 DEF Good, Below
    <3>2. Interrupt(t)
      BY <2>1, <2>5 DEF t
    <3> QED BY <2>3, <3>1, <3>2, InterruptKeeps
  <2> QED BY <2>4, <2>5
<1>10. CASE IsrMallocFail
  <2>1. heap' = heap /\ job' = job /\ Running
    BY <1>10 DEF IsrMallocFail
  <2>2. \A p \in Blocks(heap) : Free(heap, p) => heap.lfree <= p
    <3>1. CASE job.pc = "adjust"
      <4>1. Adjusting
        BY <3>1 DEF IInv
      <4>2. ASSUME NEW q \in Blocks(heap), Free(heap, q)
            PROVE  heap.lfree <= q
        BY <4>1, <4>2 DEF Adjusting, Sound, Typed, Blocks
      <4> QED BY <4>2
    <3>2. CASE job.pc = "plug"
      BY <3>2 DEF IInv, Plugging, Below
    <3>3. CASE job.pc \in {"idle", "scan", "take"}
      BY <3>3, ReadingGood DEF Good, Below
    <3> QED BY <1>0, <2>1, <3>1, <3>2, <3>3 DEF JobType, Running
  <2>3. missed' = FALSE
    BY <1>0, <1>10, <2>2 DEF IsrMallocFail, SomeFits, Fits
  <2> QED BY <2>1, <2>3 DEF IInv, JobType, Scanning, Taking, Adjusting, Plugging
<1>11. CASE IsrFree
  <2>1. PICK p \in Blocks(heap) : Interrupt(PlugHoles(Marked(heap, p), p))
    BY <1>11 DEF IsrFree, Allocated
  <2>2. ASSUME job.pc \in {"idle", "scan", "take"}
        PROVE  Good(PlugHoles(Marked(heap, p), p))
    <3> DEFINE m == Marked(heap, p)
    <3>1. /\ Sound(m) /\ NoHolesBut(m, p) /\ Below(m) /\ AtFree(m)
          /\ p \in Blocks(m) /\ Free(m, p)
      BY <2>2, ReadingGood, MarkedSound
    <3> HIDE DEF m
    <3> QED BY <3>1, PlugHolesGood DEF m
  <2> QED BY <1>11, <2>1, <2>2, InterruptKeeps DEF IsrFree
<1>12. CASE IsrTrim
  <2>1. Running /\ missed' = missed
    BY <1>12 DEF IsrTrim
  <2>2. PICK p \in Blocks(heap), n \in Requests :
          /\ job.pc # "adjust" => ~Free(heap, p)
          /\ Size(n) < heap.next[p] - p - Hdr
          /\ IF TrimAborts(heap, p, Size(n))
             THEN job' = Halted("aborted") /\ UNCHANGED heap
             ELSE Interrupt(Trimmed(heap, p, Size(n)))
    BY <1>12 DEF IsrTrim, Allocated, CanTrim
  <2>3. CASE TrimAborts(heap, p, Size(n))
    <3>1. job' = Halted("aborted")
      BY <2>2, <2>3
    <3> QED BY <1>0, <2>1, <3>1 DEF IInv, JobType, Halted
  <2>4. CASE ~TrimAborts(heap, p, Size(n))
    <3>1. Interrupt(Trimmed(heap, p, Size(n)))
      BY <2>2, <2>4
    <3>2. ASSUME job.pc \in {"idle", "scan", "take"}
          PROVE  Good(Trimmed(heap, p, Size(n)))
      BY <2>2, <2>4, <3>2, ReadingGood, SizeLarge, TrimmedGood
    <3> QED BY <2>1, <3>1, <3>2, InterruptKeeps
  <2> QED BY <2>3, <2>4
<1>13. CASE UNCHANGED vars
  BY <1>13 DEF vars, IInv, JobType, Scanning, Taking, Adjusting, Plugging
<1> QED BY <1>1, <1>2, <1>3, <1>4, <1>5, <1>6, <1>7, <1>8, <1>9, <1>10, <1>11,
           <1>12, <1>13 DEF Next

\* The invariant is strong enough.
LEMMA InvariantIsSane == IInv => HeapSane /\ MallocFindsFit
<1> SUFFICES ASSUME IInv PROVE HeapSane /\ MallocFindsFit
  OBVIOUS
<1>1. MallocFindsFit
  BY DEF IInv, MallocFindsFit
<1>2. CASE job.pc \in {"idle", "scan", "take"}
  BY <1>1, <1>2, ReadingGood
     DEF HeapSane, Good, Sound, NoHoles, Coalesced, Below, AtFree, LowestFree
<1>3. CASE job.pc = "adjust"
  <2>1. Adjusting
    BY <1>3 DEF IInv
  <2>2. ASSUME NEW q \in Blocks(heap), Free(heap, q)
        PROVE  heap.lfree <= q
    BY <2>1, <2>2 DEF Adjusting, Sound, Typed, Blocks
  <2> QED BY <1>1, <1>3, <2>1, <2>2
             DEF HeapSane, Adjusting, Sound, NoHoles, Coalesced, LowestFree
<1>4. CASE job.pc = "plug"
  BY <1>1, <1>4
     DEF IInv, Plugging, HeapSane, Sound, NoHolesBut, Coalesced, Below, AtFree, LowestFree
<1> QED BY <1>1, <1>2, <1>3, <1>4 DEF IInv, JobType, HeapSane, Running

(***************************************************************************)
(* The heap of mem.c stays in order under every sequence of mem_malloc,    *)
(* mem_free and mem_trim, of the main loop and of interrupts, until an     *)
(* interrupt pulls away what the main loop has just read.                  *)
(***************************************************************************)
THEOREM HeapSaneCorrect == Spec => []HeapSane
<1>1. IInv => HeapSane
  BY InvariantIsSane
<1> QED BY <1>1, InitInvariant, StepInvariant, PTL DEF Spec

(***************************************************************************)
(* mem_malloc, if no interrupt has disturbed it, returns NULL only when no *)
(* free block has room.                                                    *)
(***************************************************************************)
THEOREM MallocFindsFitCorrect == Spec => []MallocFindsFit
<1>1. IInv => MallocFindsFit
  BY InvariantIsSane
<1> QED BY <1>1, InitInvariant, StepInvariant, PTL DEF Spec
=============================================================================
