------------------------------- MODULE EmacTx -------------------------------
(***************************************************************************)
(* The transmit half of the EMAC driver (lwip/ports/hdk/netif/hdkif.c): a  *)
(* ring of buffer descriptors shared by three parties.                     *)
(*                                                                         *)
(*   - hdkif_output/hdkif_transmit, called by the main loop and by the     *)
(*     receive interrupt handler (a reply sent from within                 *)
(*     ethernet_input).  It runs with interrupts disabled, so only the     *)
(*     DMA engine moves while it waits;                                    *)
(*   - hdkif_tx_inthandler, which drops the driver's reference to the      *)
(*     pbufs of the packets that have been sent.  It cannot preempt the    *)
(*     receive handler, and preempts the main loop as soon as it is        *)
(*     pending and interrupts are enabled;                                 *)
(*   - the DMA engine of the EMAC, which is hardware.  It sends the packet *)
(*     at the head descriptor pointer (TXHDP), writes the flags of the     *)
(*     packet's descriptors, moves the completion pointer (TXCP), asserts  *)
(*     the interrupt until the handler writes that pointer back, and       *)
(*     clears TXHDP some time later.                                       *)
(*                                                                         *)
(* Packets are numbered in the order in which they are handed to           *)
(* hdkif_output.  A descriptor's bufptr is <<p, k>>: fragment k of the     *)
(* pbuf chain of packet p.                                                 *)
(***************************************************************************)
EXTENDS Integers, Sequences, FiniteSetsExt

CONSTANTS NumBd,       \* descriptors in the ring (204 in the program)
          MaxFrags,    \* longest pbuf chain of one packet
          MaxPackets,  \* bound: packets handed to hdkif_output
          MaxBurst,    \* bound: packets one run of the receive handler sends
          None         \* the NULL descriptor pointer

Bd == 0 .. NumBd - 1

VARIABLES bd,           \* the descriptors in the EMAC's RAM
          free_head,    \* txch->free_head
          active_tail,  \* txch->active_tail
          next_bd,      \* txch->next_bd_to_process
          pc,           \* "idle", "chain" (hdkif_transmit waits), "isr"
          local,        \* active_head and bd_end of the call that waits
          burst,        \* packets the running receive handler has sent, or -1
          txhdp,        \* the head descriptor pointer register
          stopping,     \* the DMA has taken a NULL next pointer
          txcp,         \* the completion pointer: last descriptor sent
          pending,      \* the transmit interrupt is asserted
          passed,       \* fragments of each packet handed to hdkif_output
          wire,         \* the packets sent, as the buffers the DMA read
          frees         \* how often the driver has freed each packet's pbuf

txch == <<free_head, active_tail, next_bd>>
dma == <<txhdp, stopping, txcp, pending>>
ghost == <<passed, wire, frees>>
vars == <<bd, txch, pc, local, burst, dma, ghost>>

-----------------------------------------------------------------------------

(***************************************************************************)
(* hdkif_hw_init links the descriptors in a ring and clears their flags.   *)
(***************************************************************************)
InitBd(b) == [next |-> (b + 1) % NumBd, bufptr |-> None, pbuf |-> 0,
              sop |-> FALSE, owner |-> FALSE, eop |-> FALSE, eoq |-> FALSE]

Init == /\ bd = [b \in Bd |-> InitBd(b)]
        /\ free_head = 0
        /\ next_bd = 0
        /\ active_tail = None
        /\ pc = "idle"
        /\ local = [active_head |-> None, bd_end |-> None]
        /\ burst = -1
        /\ txhdp = None
        /\ stopping = FALSE
        /\ txcp = None
        /\ pending = FALSE
        /\ passed = <<>>
        /\ wire = <<>>
        /\ frees = [p \in 1 .. MaxPackets |-> 0]

-----------------------------------------------------------------------------

\* The descriptors met by following the next pointers from b.
Follow(b) ==
  LET at[i \in 1 .. NumBd] ==
        IF i = 1 THEN b
        ELSE LET prev == at[i - 1]
             IN  IF prev = None THEN None ELSE bd[prev].next
  IN  at

\* The descriptors from b to the first one with EOP set.
PacketAt(b) ==
  LET at == Follow(b)
      n == Min({i \in 1 .. NumBd : at[i] # None /\ bd[at[i]].eop})
  IN  [i \in 1 .. n |-> at[i]]

(***************************************************************************)
(* The descriptors at[1 .. n] as hdkif_transmit leaves them.  The flags of *)
(* the first are overwritten; the others keep what their last use left in  *)
(* them, EOQ included.  EOP is set and next is cleared in the last.        *)
(***************************************************************************)
Filled(at, n, p) ==
  [b \in Bd |->
     IF \E i \in 1 .. n : at[i] = b
     THEN LET i == CHOOSE i \in 1 .. n : at[i] = b
              first == i = 1
          IN  [next |-> IF i = n THEN None ELSE bd[b].next,
               bufptr |-> <<p, i>>,
               pbuf |-> p,
               sop |-> first \/ bd[b].sop,
               owner |-> first \/ bd[b].owner,
               eop |-> i = n \/ (~first /\ bd[b].eop),
               eoq |-> ~first /\ bd[b].eoq]
     ELSE bd[b]]

\* An interrupt that is pending and enabled is taken before the code at the
\* main level, or a handler of lower priority (the receive one), goes on.
Runs == pc = "idle" /\ (burst >= 0 \/ ~pending)

\* free_head once n descriptors have been taken.
FreeAfter(at, n) == bd[at[n]].next

(***************************************************************************)
(* hdkif_output up to the point where it may have to wait for the DMA: it  *)
(* takes a reference, fills descriptors from free_head on, and starts the  *)
(* channel itself for the very first packet.                               *)
(***************************************************************************)
Fill(n) ==
  LET at == Follow(free_head)
      p == Len(passed) + 1
  IN  /\ Runs
      /\ burst < MaxBurst
      /\ Len(passed) < MaxPackets
      /\ \A i \in 1 .. n : at[i] # None
      /\ burst' = IF burst >= 0 THEN burst + 1 ELSE burst
      /\ passed' = Append(passed, n)
      /\ bd' = Filled(at, n, p)
      /\ free_head' = FreeAfter(at, n)
      /\ IF active_tail = None
         THEN /\ txhdp' = at[1]
              /\ active_tail' = at[n]
              /\ UNCHANGED <<pc, local>>
         ELSE /\ pc' = "chain"
              /\ local' = [active_head |-> at[1], bd_end |-> at[n]]
              /\ UNCHANGED <<txhdp, active_tail>>
      /\ UNCHANGED <<next_bd, stopping, txcp, pending, wire, frees>>

ChannelStoppedNoHdp == bd[active_tail].eoq

\* The two busy waits: EOQ in the last descriptor chained, and TXHDP zero.
ChannelStopped == bd[active_tail].eoq /\ txhdp = None

(***************************************************************************)
(* The rest of hdkif_transmit: the new packet is chained behind the last   *)
(* one, and the channel is started again.                                  *)
(***************************************************************************)
Chain ==
  /\ pc = "chain"
  /\ ChannelStopped
  /\ bd' = [bd EXCEPT ![active_tail].next = local.active_head]
  /\ txhdp' = IF bd[active_tail].eoq THEN local.active_head ELSE txhdp
  /\ active_tail' = local.bd_end
  /\ pc' = "idle"
  /\ UNCHANGED <<free_head, next_bd, local, burst, stopping, txcp, pending, ghost>>

-----------------------------------------------------------------------------

\* The receive handler begins and ends; in between it calls hdkif_output.
RxEnter ==
  /\ Runs
  /\ burst = -1
  /\ burst' = 0
  /\ UNCHANGED <<bd, txch, pc, local, dma, ghost>>

RxLeave ==
  /\ pc = "idle"
  /\ burst >= 0
  /\ burst' = -1
  /\ UNCHANGED <<bd, txch, pc, local, dma, ghost>>

TxIsr ==
  /\ pc = "idle"
  /\ burst = -1
  /\ pending
  /\ pc' = "isr"
  /\ UNCHANGED <<bd, txch, local, burst, dma, ghost>>

TransmissionOverNoWait == TRUE

\* The test of the inner loop: the packet has left the descriptors.
TransmissionOver == ~bd[next_bd].owner

ClearedNoEop(first, last) == [bd EXCEPT ![first].sop = FALSE]

\* The flags the handler resets in the packet's descriptors.
Cleared(first, last) ==
  [bd EXCEPT ![first].sop = FALSE, ![last].eop = FALSE]

NextToProcessStay(last) ==
  IF bd[last].next = None THEN last ELSE bd[last].next

\* Where the next packet to release begins, or will begin.
NextToProcess(last) ==
  IF bd[last].next = None THEN free_head ELSE bd[last].next

(***************************************************************************)
(* One round of the loop in hdkif_tx_inthandler: release the packet at     *)
(* next_bd_to_process.                                                     *)
(***************************************************************************)
Release ==
  LET pkt == PacketAt(next_bd)
      last == pkt[Len(pkt)]
  IN  /\ pc = "isr"
      /\ bd[next_bd].sop
      /\ TransmissionOver
      /\ bd' = Cleared(next_bd, last)
      /\ next_bd' = NextToProcess(last)
      /\ pending' = (pending /\ txcp # last)
      /\ frees' = [frees EXCEPT ![bd[last].pbuf] = @ + 1]
      /\ UNCHANGED <<free_head, active_tail, pc, local, burst, txhdp, stopping,
                     txcp, passed, wire>>

TxIsrReturn ==
  /\ pc = "isr"
  /\ ~bd[next_bd].sop
  /\ pc' = "idle"
  /\ UNCHANGED <<bd, txch, local, burst, dma, ghost>>

-----------------------------------------------------------------------------

(***************************************************************************)
(* The DMA engine.  It reads the packet at TXHDP, and reports it in one    *)
(* write per descriptor: EOQ in the last one when its next pointer is      *)
(* NULL, OWNER cleared in the first one.                                   *)
(***************************************************************************)
DmaSend ==
  LET pkt == PacketAt(txhdp)
      first == pkt[1]
      last == pkt[Len(pkt)]
      ends == bd[last].next = None
  IN  /\ txhdp # None
      /\ ~stopping
      /\ wire' = Append(wire, [i \in 1 .. Len(pkt) |-> bd[pkt[i]].bufptr])
      /\ bd' = [bd EXCEPT ![first].owner = FALSE, ![last].eoq = ends]
      /\ txhdp' = IF ends THEN txhdp ELSE bd[last].next
      /\ stopping' = ends
      /\ txcp' = last
      /\ pending' = TRUE
      /\ UNCHANGED <<txch, pc, local, burst, passed, frees>>

\* The channel comes to rest: TXHDP reads zero.
DmaStop ==
  /\ stopping
  /\ stopping' = FALSE
  /\ txhdp' = None
  /\ UNCHANGED <<bd, txch, pc, local, burst, txcp, pending, ghost>>

Next == \/ \E n \in 1 .. MaxFrags : Fill(n)
        \/ Chain
        \/ RxEnter
        \/ RxLeave
        \/ TxIsr
        \/ Release
        \/ TxIsrReturn
        \/ DmaSend
        \/ DmaStop

\* The processor executes, the hardware works, and the receive handler, whose
\* loop ends when no packet is waiting, returns.
Fairness == /\ WF_vars(Chain)
            /\ WF_vars(RxLeave)
            /\ WF_vars(TxIsr \/ Release \/ TxIsrReturn)
            /\ WF_vars(DmaSend)
            /\ WF_vars(DmaStop)

Spec == Init /\ [][Next]_vars /\ Fairness

-----------------------------------------------------------------------------

Packets == 1 .. Len(passed)

(***************************************************************************)
(* The wire carries the packets in the order in which hdkif_output was     *)
(* called, each one complete: all the fragments of its chain and no        *)
(* fragment of another packet, although descriptors are reused with the    *)
(* flags of their former packet still in them.                             *)
(***************************************************************************)
SentInOrder ==
  /\ Len(wire) <= Len(passed)
  /\ \A p \in 1 .. Len(wire) : wire[p] = [k \in 1 .. passed[p] |-> <<p, k>>]

(***************************************************************************)
(* hdkif_tx_inthandler frees a packet's pbuf once at most, and never while *)
(* the DMA still has to read it.                                           *)
(***************************************************************************)
FreedOnceSent ==
  \A p \in Packets : frees[p] <= (IF p <= Len(wire) THEN 1 ELSE 0)

(***************************************************************************)
(* hdkif_transmit takes what it may take.  "Don't write to TXHDP0 until it *)
(* turns to zero" (hdkif.c:451): no step replaces one head descriptor by   *)
(* another.  "Get the buffer descriptor which is free to transmit"         *)
(* (hdkif.c:409): a descriptor that is filled does not belong to a packet  *)
(* whose pbuf the transmit handler has still to free.  The code does not   *)
(* check the latter; it rests on the ring being longer than what one run   *)
(* of the receive handler can send.                                        *)
(***************************************************************************)
RingRespected ==
  [][/\ txhdp # None => txhdp' \in {txhdp, None}
     /\ \A b \in Bd : bd'[b].pbuf # bd[b].pbuf =>
          (bd[b].pbuf = 0 \/ frees[bd[b].pbuf] = 1)]_vars

(***************************************************************************)
(* Every packet handed to hdkif_output is sent and its pbuf is freed: the  *)
(* packets are finitely many, and from some time on none is outstanding.   *)
(***************************************************************************)
EventuallyFreed == <>[](\A p \in Packets : p <= Len(wire) /\ frees[p] = 1)
=============================================================================
