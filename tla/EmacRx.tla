------------------------------- MODULE EmacRx -------------------------------
(***************************************************************************)
(* The receive half of the EMAC driver (lwip/ports/hdk/netif/hdkif.c): a   *)
(* list of buffer descriptors, each with one pbuf of the pool, that        *)
(* hdkif_rx_inthandler and the DMA engine of the EMAC share.               *)
(*                                                                         *)
(* The handler hands each received packet to the stack (ethernet_input),   *)
(* and then replaces the pbufs the packet took by new ones, as many bytes  *)
(* as have been taken since an allocation last succeeded.  The stack has   *)
(* freed the packet's pbufs by then, unless it keeps the packet: the mDNS  *)
(* responder keeps a truncated question, and the answers that belong to    *)
(* it, until a timer of the main loop fires (mdns.c:2154-2188).            *)
(*                                                                         *)
(* Lengths are in units: a pool pbuf holds BufSize of them (1400 bytes in  *)
(* the program), the longest frame Mtu of them (1514 bytes).               *)
(***************************************************************************)
EXTENDS Integers, Sequences, FiniteSetsExt

CONSTANTS BufSize,     \* capacity of a pool pbuf
          Mtu,         \* the longest frame, and the first allocations
          PoolSize,    \* pbufs in the pool (16 in the program)
          MaxAlloc,    \* MAX_RX_PBUF_ALLOC
          Lens,        \* the lengths of the frames that are sent to the board
          MaxKept,     \* bound: packets the stack keeps at a time
          None         \* the NULL descriptor pointer

ASSUME SizeAssumption == /\ BufSize \in Nat \ {0}
                         /\ Mtu \in Nat \ {0}
                         /\ PoolSize \in Nat
                         /\ MaxAlloc \in Nat \ {0}
                         /\ Lens \subseteq 1 .. Mtu
                         /\ MaxKept \in Nat

\* pbuf_alloc(PBUF_RAW, len, PBUF_POOL): the lengths of the pbufs in the chain.
Split(len) ==
  LET n == (len + BufSize - 1) \div BufSize
  IN  [i \in 1 .. n |-> IF i < n THEN BufSize ELSE len - (n - 1) * BufSize]

\* hdkif_hw_init stops at the first allocation that fails.
NumChains == Min({MaxAlloc, PoolSize \div Len(Split(Mtu))})

NumBd == NumChains * Len(Split(Mtu))

ASSUME PoolAssumption == NumChains >= 2 /\ None \notin 0 .. NumBd - 1

Bd == 0 .. NumBd - 1

VARIABLES bd,            \* the descriptors in the EMAC's RAM
          free_head,     \* rxch->free_head
          active_head,   \* rxch->active_head
          active_tail,   \* rxch->active_tail
          freed,         \* rxch->freed_pbuf_len
          pc,            \* "idle", "loop", "refill", "restart", "hung"
          local,         \* curr_bd and last_bd once descriptors are refilled
          pool,          \* free pbufs in the pool
          kept,          \* pbufs of each packet that the stack keeps
          rxhdp,         \* the head descriptor pointer register
          incoming,      \* length of the frame being received, or 0
          rxcp,          \* the completion pointer: last descriptor filled
          pending,       \* the receive interrupt is asserted
          latest,        \* number of the frame received last, modulo 3
          accepted,      \* the frames received and not yet given to the stack
          everKept       \* the stack has kept a packet

rxch == <<free_head, active_head, active_tail, freed>>
memory == <<pool, kept>>
dma == <<rxhdp, incoming, rxcp, pending, latest>>
ghost == <<accepted, everKept>>
vars == <<bd, rxch, pc, local, memory, dma, ghost>>

-----------------------------------------------------------------------------

(***************************************************************************)
(* hdkif_hw_init: NumChains chains of pbufs for a full frame, laid out one *)
(* after the other, and the DMA started on the first descriptor.           *)
(***************************************************************************)
InitBd(b) ==
  [next |-> IF b = NumBd - 1 THEN None ELSE b + 1,
   cap |-> Split(Mtu)[(b % Len(Split(Mtu))) + 1],
   sop |-> FALSE, owner |-> TRUE, eop |-> FALSE, eoq |-> FALSE,
   frame |-> 0, len |-> 0]

Init == /\ bd = [b \in Bd |-> InitBd(b)]
        /\ free_head = None
        /\ active_head = 0
        /\ active_tail = NumBd - 1
        /\ freed = 0
        /\ pc = "idle"
        /\ local = [curr_bd |-> None, last_bd |-> None]
        /\ pool = PoolSize - NumBd
        /\ kept = <<>>
        /\ rxhdp = 0
        /\ incoming = 0
        /\ rxcp = None
        /\ pending = FALSE
        /\ latest = 0
        /\ accepted = <<>>
        /\ everKept = FALSE

-----------------------------------------------------------------------------

\* The descriptors met by following the next pointers from b.
Follow(b) ==
  LET at[i \in 1 .. NumBd] ==
        IF i = 1 THEN b
        ELSE LET prev == at[i - 1]
             IN  IF prev = None THEN None ELSE bd[prev].next
  IN  [i \in 1 .. NumBd |-> at[i]]

\* The descriptors from b to the first one with EOP set.
PacketAt(b) ==
  LET at == Follow(b)
      n == Min({i \in 1 .. NumBd : at[i] # None /\ bd[at[i]].eop})
  IN  [i \in 1 .. n |-> at[i]]

Caps(bds) == MapThenSumSet(LAMBDA b : bd[b].cap, bds)

Elements(s) == {s[i] : i \in 1 .. Len(s)}

-----------------------------------------------------------------------------
(***************************************************************************)
(* The DMA engine.  A frame fills as many descriptors as it needs, from    *)
(* RXHDP on; a frame for which they do not suffice is lost.  SOP is seen   *)
(* in the first descriptor while the frame is still coming in.  When it is *)
(* complete the flags are written, EOQ in the last descriptor if its next  *)
(* pointer is NULL.                                                        *)
(***************************************************************************)
Filling(len) ==
  LET at == Follow(rxhdp)
      room[i \in 0 .. NumBd] ==
        IF i = 0 THEN 0
        ELSE room[i - 1] + IF at[i] = None THEN 0 ELSE bd[at[i]].cap
      fits == {i \in 1 .. NumBd : room[i] >= len}
      n == Min(fits)
  IN  IF rxhdp = None \/ fits = {} THEN <<>>
      ELSE [i \in 1 .. n |->
              [b |-> at[i],
               len |-> IF i < n THEN bd[at[i]].cap ELSE len - room[n - 1]]]

DmaBegin(len) ==
  /\ incoming = 0
  /\ Filling(len) # <<>>
  /\ incoming' = len
  /\ bd' = [bd EXCEPT ![rxhdp].sop = TRUE]
  /\ UNCHANGED <<rxch, pc, local, memory, rxhdp, rxcp, pending, latest, ghost>>

DmaEnd ==
  LET fill == Filling(incoming)
      first == fill[1].b
      last == fill[Len(fill)].b
      ends == bd[last].next = None
      f == (latest + 1) % 3
  IN  /\ incoming > 0
      /\ bd' = [b \in Bd |->
                  IF \E i \in 1 .. Len(fill) : fill[i].b = b
                  THEN LET i == CHOOSE i \in 1 .. Len(fill) : fill[i].b = b
                       IN  [bd[b] EXCEPT !.owner = FALSE, !.eop = b = last,
                                         !.eoq = b = last /\ ends,
                                         !.frame = f, !.len = fill[i].len]
                  ELSE bd[b]]
      /\ rxhdp' = bd[last].next
      /\ rxcp' = last
      /\ pending' = TRUE
      /\ incoming' = 0
      /\ latest' = f
      /\ accepted' = Append(accepted, [frame |-> f, len |-> incoming])
      /\ UNCHANGED <<rxch, pc, local, memory, everKept>>

-----------------------------------------------------------------------------

RxIsr ==
  /\ pc = "idle"
  /\ pending
  /\ pc' = "loop"
  /\ UNCHANGED <<bd, rxch, local, memory, dma, ghost>>

\* The handler is at a descriptor that a whole packet has been loaded to.
Loaded == /\ pc = "loop"
          /\ active_head # None
          /\ bd[active_head].sop
          /\ ~bd[active_head].owner

TakenReceived(pkt) == MapThenSumSet(LAMBDA b : bd[b].len, Elements(pkt))

\* The bytes to replace: the capacity of the packet's pbufs.
Taken(pkt) == Caps(Elements(pkt))

(***************************************************************************)
(* A packet is loaded: its pbufs are chained and given to the stack, which *)
(* frees them before it returns or keeps them; the interrupt is            *)
(* acknowledged and the bytes to replace are counted.  The handler waits   *)
(* at a descriptor with SOP and OWNER set, as the frame is still coming.   *)
(***************************************************************************)
Take(keep) ==
  LET pkt == PacketAt(active_head)
      last == pkt[Len(pkt)]
  IN  /\ Loaded
      /\ free_head' = IF free_head = None THEN active_head ELSE free_head
      /\ accepted' = IF accepted = <<>> THEN <<>> ELSE Tail(accepted)
      /\ IF keep
         THEN /\ Len(kept) < MaxKept
              /\ kept' = Append(kept, Len(pkt))
              /\ UNCHANGED pool
         ELSE /\ pool' = pool + Len(pkt)
              /\ UNCHANGED kept
      /\ everKept' = (everKept \/ keep)
      /\ pending' = (pending /\ rxcp # last)
      /\ active_head' = bd[last].next
      /\ freed' = freed + Taken(pkt)
      /\ pc' = "refill"
      /\ UNCHANGED <<bd, active_tail, local, rxhdp, incoming, rxcp, latest>>

\* The descriptors from free_head up to active_head: those without a pbuf.
FreeBds ==
  LET at == Follow(free_head)
      ends == {i \in 1 .. NumBd : at[i] = active_head}
      n == IF ends = {} THEN NumBd ELSE Min(ends) - 1
  IN  [i \in 1 .. n |-> at[i]]

\* pbuf_alloc returns NULL: the pool cannot provide the whole chain.
Short == Len(Split(freed)) > pool

(***************************************************************************)
(* The allocation fails as a whole when the pool is short, and is tried    *)
(* again with the next packet.  Otherwise the free descriptors get the new *)
(* pbufs and are linked behind active_tail.                                *)
(***************************************************************************)
AllocFails ==
  /\ pc = "refill"
  /\ Short
  /\ pc' = "loop"
  /\ UNCHANGED <<bd, rxch, local, memory, dma, ghost>>

FreshStale(b, len) == [bd[b] EXCEPT !.cap = len]

\* A descriptor with a new pbuf: its flags are OWNER and nothing else.
Fresh(b, len) ==
  [bd[b] EXCEPT !.cap = len, !.owner = TRUE, !.sop = FALSE, !.eop = FALSE,
                !.eoq = FALSE, !.frame = 0, !.len = 0]

Refill ==
  LET new == Split(freed)
      free == FreeBds
      n == Min({Len(new), Len(free)})
      used == {free[i] : i \in 1 .. n}
      last == free[n]
      Position(b) == CHOOSE i \in 1 .. n : free[i] = b
      filled == [b \in Bd |-> IF b \in used THEN Fresh(b, new[Position(b)])
                              ELSE bd[b]]
  IN  /\ pc = "refill"
      /\ ~Short
      /\ pool' = pool - n
      /\ freed' = freed - MapThenSumSet(LAMBDA i : new[i], 1 .. n)
      /\ bd' = [[filled EXCEPT ![last].next = None]
                        EXCEPT ![active_tail].next = free_head]
      /\ local' = [curr_bd |-> bd[last].next, last_bd |-> last]
      /\ pc' = "restart"
      /\ UNCHANGED <<free_head, active_head, active_tail, kept, dma, ghost>>

TailAfterStale == active_tail

\* The new end of the list.
TailAfter == local.last_bd

ReceptionEndedNever == FALSE

\* The descriptor whose EOQ flag tells that the DMA has stopped.
ReceptionEnded == bd[active_tail].eoq

(***************************************************************************)
(* "If the EOQ flag is set, the NULL Pointer is taken by the DMA engine.   *)
(* So we need to write the RX HDP with the next descriptor."               *)
(***************************************************************************)
Restart ==
  /\ pc = "restart"
  /\ rxhdp' = IF ReceptionEnded THEN free_head ELSE rxhdp
  /\ free_head' = local.curr_bd
  /\ active_tail' = TailAfter
  /\ local' = [curr_bd |-> None, last_bd |-> None]
  /\ pc' = "loop"
  /\ UNCHANGED <<bd, active_head, freed, memory, incoming, rxcp, pending,
                 latest, ghost>>

RxIsrReturn ==
  /\ pc = "loop"
  /\ active_head # None
  /\ ~bd[active_head].sop
  /\ pc' = "idle"
  /\ UNCHANGED <<bd, rxch, local, memory, dma, ghost>>

(***************************************************************************)
(* With active_head NULL the loop reads its flags from address 12.  The    *)
(* word there is the branch of prefetchEntry to itself (startup.asm:180),  *)
(* 0xEAFFFFFE, which hdkif_swizzle_data turns into one with SOP and OWNER  *)
(* set: the handler waits for good.                                        *)
(***************************************************************************)
Hang ==
  /\ pc = "loop"
  /\ active_head = None
  /\ pc' = "hung"
  /\ UNCHANGED <<bd, rxch, local, memory, dma, ghost>>

\* The timer of a kept packet fires in the main loop and frees its pbufs.
LetGo ==
  /\ pc = "idle"
  /\ ~pending
  /\ kept # <<>>
  /\ pool' = pool + Head(kept)
  /\ kept' = Tail(kept)
  /\ UNCHANGED <<bd, rxch, pc, local, dma, ghost>>

Handler == \/ RxIsr
           \/ \E keep \in BOOLEAN : Take(keep)
           \/ AllocFails
           \/ Refill
           \/ Restart
           \/ RxIsrReturn
           \/ Hang

Next == \/ \E len \in Lens : DmaBegin(len)
        \/ DmaEnd
        \/ Handler
        \/ LetGo

\* The processor executes the handler.  Nothing makes frames arrive, and
\* nothing makes the stack let go of a packet.
Fairness == WF_vars(Handler)

Spec == Init /\ [][Next]_vars /\ Fairness

-----------------------------------------------------------------------------

\* The descriptors the driver has given to the DMA or has still to look at.
ActiveBds ==
  LET at == Follow(active_head) IN {at[i] : i \in 1 .. NumBd} \ {None}

\* Between two rounds of the loop, with a descriptor to look at.
AtLoopHead == pc \in {"idle", "loop"} /\ active_head # None

(***************************************************************************)
(* ethernet_input gets the frames in the order in which they were          *)
(* received, each once and whole: the pbuf chain the handler closes at EOP *)
(* holds the bytes of the oldest frame not yet handed over, and all of     *)
(* them, wherever its descriptors lie and whatever their sizes.            *)
(***************************************************************************)
DeliveredWhole ==
  Loaded =>
    LET pkt == PacketAt(active_head)
    IN  /\ accepted # <<>>
        /\ \A i \in 1 .. Len(pkt) : bd[pkt[i]].frame = Head(accepted).frame
        /\ MapThenSumSet(LAMBDA b : bd[b].len, Elements(pkt)) = Head(accepted).len

(***************************************************************************)
(* Between two rounds of the loop nothing has leaked, however many         *)
(* allocations have failed: the buffers on the active list and the bytes   *)
(* still to be allocated add up to what hdkif_hw_init provided, and each   *)
(* pbuf is in the pool, kept, or on the active list.                       *)
(***************************************************************************)
SpaceConserved ==
  AtLoopHead =>
    /\ Caps(ActiveBds) + freed = NumChains * Mtu
    /\ pool + Cardinality(ActiveBds)
            + MapThenSumSet(LAMBDA i : kept[i], 1 .. Len(kept)) = PoolSize

(***************************************************************************)
(* "Care should be taken even if the allocation fails" (hdkif.c:791): the  *)
(* handler always has a descriptor to look at.                             *)
(***************************************************************************)
NeverHung == pc # "hung"

(***************************************************************************)
(* The handler always has a descriptor to look at as long as the stack has *)
(* freed every packet before ethernet_input returned: replacing the freed  *)
(* bytes then succeeds in time.                                            *)
(***************************************************************************)
HangsOnlyAfterKept == pc = "hung" => everKept

(***************************************************************************)
(* A channel that has run out of descriptors is started again by the EOQ   *)
(* test of the handler, however its reads of the flags and the DMA's       *)
(* writes interleave, unless the handler hangs.                            *)
(***************************************************************************)
ReceptionResumes == []<>(rxhdp # None \/ pc = "hung")
=============================================================================
