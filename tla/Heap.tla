-------------------------------- MODULE Heap --------------------------------
(***************************************************************************)
(* The heap of the network stack (lwip/src/core/mem.c), from which the     *)
(* PBUF_RAM buffers come.                                                  *)
(*                                                                         *)
(* The main loop allocates, shrinks and frees (a datagram of cannelloni, a *)
(* neighbour solicitation, an mDNS answer); so does the receive interrupt  *)
(* when a packet is answered, and the transmit interrupt frees what was    *)
(* sent.  LWIP_ALLOW_MEM_FREE_FROM_OTHER_CONTEXT is 0 and there is no      *)
(* operating system, so that neither the mutex nor the PROTECT macros do   *)
(* anything: an interrupt comes between any two steps of the main loop's   *)
(* call.  The stores of one split or one merge are one step here.          *)
(*                                                                         *)
(* Addresses and sizes are in units of MEM_ALIGNMENT.                      *)
(***************************************************************************)
EXTENDS Integers

CONSTANTS Total,    \* MEM_SIZE_ALIGNED
          Hdr,      \* SIZEOF_STRUCT_MEM
          MinSize,  \* MIN_SIZE_ALIGNED
          Requests  \* the sizes that are asked for

ASSUME SizesAssumption ==
  /\ Hdr \in Nat \ {0} /\ MinSize \in Nat \ {0}
  /\ Total \in Nat /\ Total >= Hdr + MinSize
  /\ Requests \subseteq Nat \ {0}

VARIABLES heap,   \* the structs, by address: next, prev and used; and lfree
          job,    \* the call of the main loop that is under way
          missed  \* mem_malloc has returned NULL though a block had room

vars == <<heap, job, missed>>

\* ram_end is the struct at Total; every other one heads a block.
Structs(h) == DOMAIN h.next
Blocks(h) == Structs(h) \ {Total}

Free(h, p) == h.used[p] = 0

\* The alignment, and the least size, of what is asked for.
Size(n) == IF n < MinSize THEN MinSize ELSE n

Fits(h, p, size) == Free(h, p) /\ h.next[p] - (p + Hdr) >= size

SetUsed(h, p, u) == [next |-> h.next, prev |-> h.prev,
                     used |-> [h.used EXCEPT ![p] = u], lfree |-> h.lfree]

SetLfree(h, p) == [next |-> h.next, prev |-> h.prev, used |-> h.used, lfree |-> p]

-----------------------------------------------------------------------------

\* A faulty variant: the struct after the new one is not linked back to it.
SplitUnlinked(h, p, p2) ==
  [next  |-> [q \in Structs(h) \cup {p2} |->
                IF q = p2 THEN h.next[p] ELSE IF q = p THEN p2 ELSE h.next[q]],
   prev  |-> [q \in Structs(h) \cup {p2} |-> IF q = p2 THEN p ELSE h.prev[q]],
   used  |-> [q \in Structs(h) \cup {p2} |-> IF q = p2 THEN 0 ELSE h.used[q]],
   lfree |-> h.lfree]

\* A free struct is made at p2, inside the block at p.
Split(h, p, p2) ==
  [next  |-> [q \in Structs(h) \cup {p2} |->
                IF q = p2 THEN h.next[p] ELSE IF q = p THEN p2 ELSE h.next[q]],
   prev  |-> [q \in Structs(h) \cup {p2} |->
                IF q = p2 THEN p
                ELSE IF q = h.next[p] /\ q # Total THEN p2 ELSE h.prev[q]],
   used  |-> [q \in Structs(h) \cup {p2} |-> IF q = p2 THEN 0 ELSE h.used[q]],
   lfree |-> h.lfree]

\* The block at lo takes in the one at hi, which comes after it.
Absorb(h, lo, hi) ==
  [next  |-> [q \in Structs(h) \ {hi} |-> IF q = lo THEN h.next[hi] ELSE h.next[q]],
   prev  |-> [q \in Structs(h) \ {hi} |->
                IF q = h.next[hi] /\ q # Total THEN lo ELSE h.prev[q]],
   used  |-> [q \in Structs(h) \ {hi} |-> h.used[q]],
   lfree |-> IF h.lfree = hi THEN lo ELSE h.lfree]

\* mem_malloc has found the block at p: the rest is split off if it is worth it.
Taken(h, p, size) ==
  SetUsed(IF h.next[p] - (p + Hdr) >= size + Hdr + MinSize
          THEN Split(h, p, p + Hdr + size) ELSE h, p, 1)

\* cur, where the search for the lowest free block from p on ends.
IsNextFree(h, p, cur) ==
  /\ cur >= p
  /\ cur = Total \/ Free(h, cur)
  /\ \A q \in Blocks(h) : p <= q /\ q < cur => ~Free(h, q)

\* A faulty variant: a block that is freed below lfree is forgotten.
LoweredNever(h, p) == h.lfree

LoweredTo(h, p) == IF p < h.lfree THEN p ELSE h.lfree

\* mem_free, up to the call of plug_holes.
Marked(h, p) == SetLfree(SetUsed(h, p, 0), LoweredTo(h, p))

\* plug_holes: first forward, then backward.
PlugForward(h, p) ==
  LET n == h.next[p]
  IN  IF n # p /\ Free(h, n) /\ n # Total THEN Absorb(h, p, n) ELSE h

PlugBackward(h, p) ==
  LET q == h.prev[p]
  IN  IF q # p /\ Free(h, q) THEN Absorb(h, q, p) ELSE h

PlugHoles(h, p) == PlugBackward(PlugForward(h, p), p)

\* mem_trim when the next struct is free: it is moved down.
Moved(h, p, p2) ==
  LET n == h.next[p]
  IN  SetLfree(Split(Absorb(h, p, n), p, p2),
               IF h.lfree = n THEN p2 ELSE h.lfree)

-----------------------------------------------------------------------------

Idle == [pc |-> "idle", p |-> 0, size |-> 0, seen |-> FALSE]

\* The program has come to an end, or has done what the source does not decide.
Halted(why) == [pc |-> why, p |-> 0, size |-> 0, seen |-> FALSE]

\* mem_init
Init ==
  /\ heap = [next  |-> [q \in {0, Total} |-> Total],
             prev  |-> [q \in {0, Total} |-> q],
             used  |-> [q \in {0, Total} |-> IF q = Total THEN 1 ELSE 0],
             lfree |-> 0]
  /\ job = Idle
  /\ missed = FALSE

\* The blocks in the hands of a caller: not the one that is being allocated.
Allocated ==
  {p \in Blocks(heap) : ~Free(heap, p) /\ ~(job.pc = "adjust" /\ p = heap.lfree)}

\* mem_malloc, up to the first look at a struct.
MallocBegin ==
  /\ job.pc = "idle"
  /\ \E n \in Requests :
       /\ Size(n) <= Total
       /\ job' = [pc |-> "scan", p |-> heap.lfree, size |-> Size(n), seen |-> FALSE]
  /\ UNCHANGED <<heap, missed>>

SomeFits(size) == \E q \in Blocks(heap) : Fits(heap, q, size)

\* The condition of the loop over the structs fails: NULL is returned.
MallocFail ==
  /\ job.pc = "scan" /\ job.p >= Total - job.size
  /\ missed' = (missed \/ (~job.seen /\ SomeFits(job.size)))
  /\ job' = Idle
  /\ UNCHANGED heap

MallocScan ==
  /\ job.pc = "scan" /\ job.p < Total - job.size
  /\ job' = IF Fits(heap, job.p, job.size) THEN [job EXCEPT !.pc = "take"]
            ELSE [job EXCEPT !.p = heap.next[job.p]]
  /\ UNCHANGED <<heap, missed>>

\* The block is taken, and lfree is looked for if it was this one.
MallocTake ==
  /\ job.pc = "take"
  /\ heap' = Taken(heap, job.p, job.size)
  /\ job' = IF job.p = heap.lfree THEN [job EXCEPT !.pc = "adjust"] ELSE Idle
  /\ UNCHANGED missed

\* The search for the lowest free block, one struct at a time.
MallocAdjust ==
  /\ job.pc = "adjust"
  /\ IF ~Free(heap, job.p) /\ job.p # Total
     THEN job' = [job EXCEPT !.p = heap.next[job.p]] /\ UNCHANGED heap
     ELSE heap' = SetLfree(heap, job.p) /\ job' = Idle
  /\ UNCHANGED missed

\* mem_free called by the main loop.
FreeMark ==
  /\ job.pc = "idle"
  /\ \E p \in Allocated :
       /\ heap' = Marked(heap, p)
       /\ job' = [pc |-> "plug", p |-> p, size |-> 0, seen |-> FALSE]
  /\ UNCHANGED missed

FreePlug ==
  /\ job.pc = "plug"
  /\ heap' = PlugHoles(heap, job.p)
  /\ job' = Idle
  /\ UNCHANGED missed

(***************************************************************************)
(* mem_trim of the block at p to size, less than it has.  When the struct  *)
(* after it is in use, ram_end included, the rest becomes a free block if  *)
(* it is worth it; but if it is ram_end an assertion ends the program.     *)
(***************************************************************************)
TrimAborts(h, p, size) ==
  /\ h.next[p] = Total
  /\ size + Hdr + MinSize <= h.next[p] - p - Hdr

TrimSplit(h, p, p2) == SetLfree(Split(h, p, p2), LoweredTo(h, p2))

Trimmed(h, p, size) ==
  LET p2 == p + Hdr + size
  IN  IF Free(h, h.next[p]) THEN Moved(h, p, p2)
      ELSE IF size + Hdr + MinSize <= h.next[p] - p - Hdr THEN TrimSplit(h, p, p2)
      ELSE h

CanTrim(p, size) == size < heap.next[p] - p - Hdr

\* mem_trim called by the main loop (mdns_send_outpacket).
Trim ==
  /\ job.pc = "idle"
  /\ \E p \in Allocated, n \in Requests :
       /\ CanTrim(p, Size(n))
       /\ IF TrimAborts(heap, p, Size(n))
          THEN job' = Halted("aborted") /\ UNCHANGED heap
          ELSE heap' = Trimmed(heap, p, Size(n)) /\ UNCHANGED job
  /\ UNCHANGED missed

-----------------------------------------------------------------------------

(***************************************************************************)
(* What the main loop has read no longer holds when the interrupt returns: *)
(* the struct it is at is gone, or the block it is about to take has       *)
(* changed, or the list has changed while it was at work on it.  What the  *)
(* program does then depends on stores into memory that is no struct.      *)
(***************************************************************************)
Stale(h) ==
  \/ job.pc = "scan" /\ job.p \notin Structs(h)
  \/ /\ job.pc = "take"
     /\ \/ job.p \notin Structs(h)
        \/ <<h.next[job.p], h.used[job.p]>> # <<heap.next[job.p], heap.used[job.p]>>
  \/ job.pc \in {"adjust", "plug"}

\* An interrupt leaves the heap as h.
Interrupt(h) ==
  /\ heap' = h
  /\ job' = IF Stale(h) THEN Halted("raced")
            ELSE IF job.pc = "idle" THEN job ELSE [job EXCEPT !.seen = TRUE]

Running == job.pc \notin {"aborted", "raced"}

\* The first block of at least size, from lfree on.
IsFirstFit(p, size) ==
  /\ heap.lfree <= p /\ Fits(heap, p, size)
  /\ \A q \in Blocks(heap) : heap.lfree <= q /\ q < p => ~Fits(heap, q, size)

\* mem_malloc in the receive interrupt.
IsrMalloc ==
  /\ Running
  /\ \E n \in Requests, p \in Blocks(heap) :
       LET h == Taken(heap, p, Size(n))
       IN  /\ IsFirstFit(p, Size(n))
           /\ IF p = heap.lfree
              THEN \E cur \in Structs(h) :
                     IsNextFree(h, p, cur) /\ Interrupt(SetLfree(h, cur))
              ELSE Interrupt(h)
  /\ UNCHANGED missed

IsrMallocFail ==
  /\ Running
  /\ \E n \in Requests :
       /\ \A p \in Blocks(heap) : heap.lfree <= p => ~Fits(heap, p, Size(n))
       /\ missed' = (missed \/ SomeFits(Size(n)))
  /\ UNCHANGED <<heap, job>>

\* mem_free in the receive or the transmit interrupt.
IsrFree ==
  /\ Running
  /\ \E p \in Allocated : Interrupt(PlugHoles(Marked(heap, p), p))
  /\ UNCHANGED missed

\* mem_trim in the receive interrupt.
IsrTrim ==
  /\ Running
  /\ \E p \in Allocated, n \in Requests :
       /\ CanTrim(p, Size(n))
       /\ IF TrimAborts(heap, p, Size(n))
          THEN job' = Halted("aborted") /\ UNCHANGED heap
          ELSE Interrupt(Trimmed(heap, p, Size(n)))
  /\ UNCHANGED missed

Next == \/ MallocBegin \/ MallocFail \/ MallocScan \/ MallocTake \/ MallocAdjust
        \/ FreeMark \/ FreePlug \/ Trim
        \/ IsrMalloc \/ IsrMallocFail \/ IsrFree \/ IsrTrim

Spec == Init /\ [][Next]_vars

-----------------------------------------------------------------------------

\* The blocks fill the heap, each begins where the one before it ends, and
\* next and prev agree.
Tiled(h) ==
  /\ 0 \in Blocks(h) /\ Total \in Structs(h)
  /\ h.prev[0] = 0 /\ h.used[Total] = 1
  /\ \A p \in Blocks(h) :
       /\ h.next[p] \in Structs(h)
       /\ h.next[p] >= p + Hdr + MinSize
       /\ \A q \in Structs(h) : q <= p \/ h.next[p] <= q
       /\ h.next[p] # Total => h.prev[h.next[p]] = p
       /\ p # 0 => /\ h.prev[p] \in Blocks(h)
                   /\ h.next[h.prev[p]] = p

\* No free block comes after a free one, unless it is the one being freed.
Coalesced(h) ==
  \A p \in Blocks(h) :
    Free(h, p) /\ Free(h, h.next[p]) => job.pc = "plug" /\ job.p \in {p, h.next[p]}

\* lfree is "the lowest free block" (mem.c:420), or is being looked for.
LowestFree(h) ==
  /\ \A p \in Blocks(h) : Free(h, p) => h.lfree <= p
  /\ h.lfree = Total \/ (h.lfree \in Blocks(h) /\ (Free(h, h.lfree) \/ job.pc = "adjust"))

(***************************************************************************)
(* The heap is in order whatever is allocated, shrunk and freed in which   *)
(* sequence, and whatever interrupts do while the main loop searches it,   *)
(* as long as none of them pulls away what the main loop has just read:    *)
(* the blocks fill it without overlap, plug_holes leaves no "empty struct  *)
(* mem pointing to another empty struct mem" (mem.c:465), and lfree is the *)
(* lowest free block.                                                      *)
(***************************************************************************)
HeapSane == Running => Tiled(heap) /\ Coalesced(heap) /\ LowestFree(heap)

(***************************************************************************)
(* mem_malloc returns "NULL if no free memory was found" (mem.c:826), and  *)
(* only then: if an allocation fails that no interrupt has disturbed, no   *)
(* free block had room, though the search begins at lfree and ends short   *)
(* of the end of the heap.                                                 *)
(***************************************************************************)
MallocFindsFit == ~missed
=============================================================================
