----------------------------- MODULE Cannelloni -----------------------------
(***************************************************************************)
(* One cannelloni handle of src/src/cannelloni.c with the callbacks that   *)
(* src/src/main.c installs and the CAN driver src/src/drivers/can.c.       *)
(*                                                                         *)
(* Three agents run concurrently:                                          *)
(*   - the main loop, which repeats run_cannelloni: CAN transmission, scan *)
(*     of the receive mailboxes, UDP transmission.  pc is its position;    *)
(*   - the Ethernet receive interrupt, in which lwIP calls                 *)
(*     handle_cannelloni_frame.  It preempts the main loop between any two *)
(*     steps and is not itself preempted: while isr # <<>> only the        *)
(*     interrupt and the hardware move;                                    *)
(*   - the DCAN controller, which sends mailbox 1 and stores received      *)
(*     frames in mailboxes FirstMbox..LastMbox.                            *)
(*                                                                         *)
(* A frame is its number in the order of arrival (on UDP for the CAN-bound *)
(* direction, on the CAN bus for the UDP-bound one); 0 is "no frame" and   *)
(* the zeroed memory of the buffers.  A buffer slot keeps apart what is    *)
(* written and read at different moments: hdr (can_id, len) and data.      *)
(***************************************************************************)
EXTENDS FrameQueue, Sequences

CONSTANTS
    FirstMbox, LastMbox,    \* CAN_RX_QUEUE_FIRST_MBOX, CAN_MBOX_LAST (2, 64)
    PbufLen,                \* length of an outgoing datagram's pbuf (1200)
    Dlen,                   \* canfd_len of each frame received from the bus
    RtrFrames,              \* the UDP frames whose can_id has CAN_RTR_FLAG
    MaxUdp, MaxCan,         \* bounds: frames arriving on UDP and on CAN
    MaxPerPacket,           \* bound: frames in one UDP datagram
    MaxAllocFail            \* bound: failures of pbuf_alloc

PacketBase == 5             \* CANNELLONI_DATA_PACKET_BASE_SIZE
FrameBase == 5              \* CANNELLONI_FRAME_BASE_SIZE
MaxDlen == 8                \* struct canfd_frame.data

ASSUME CannelloniAssumption ==
    /\ FirstMbox \in Nat /\ LastMbox \in Nat /\ FirstMbox <= LastMbox
    /\ PbufLen \in Nat /\ PbufLen > PacketBase + FrameBase + MaxDlen
    /\ Dlen \in [0 .. MaxCan -> 0 .. MaxDlen]
    /\ RtrFrames \subseteq Nat
    /\ MaxUdp \in Nat /\ MaxCan \in Nat /\ MaxPerPacket \in Nat
    /\ MaxAllocFail \in Nat

VARIABLES
    pc,                     \* where run_cannelloni is
    \* UDP to CAN
    txq, txBuf,             \* handle->tx_queue and its frames
    isr,                    \* frames handle_cannelloni_frame has still to queue
    udp_rx_count,           \* handle->udp_rx_count
    hdr,                    \* can_id and len passed to can_send
    txrq,                   \* TXRQ bit of mailbox 1
    \* CAN to UDP
    mob,                    \* receive mailboxes: the frame held with NEWDAT, or 0
    mbox,                   \* mbox of on_can_receive
    rxq, rxBuf,             \* handle->rx_queue and its frames
    dgram, pos,             \* the datagram transmit_udp_frame is filling
    seq_no,                 \* low byte of handle->sequence_number, the part that is sent
    \* environment and history
    udpIn,                  \* frames that arrived on UDP
    canIn,                  \* frames that arrived on the bus
    stored,                 \* a frame was stored since the last mailbox poll
    crowded,                \* two frames were stored between two polls of a scan
    allocFails,             \* failures of pbuf_alloc so far
    accepted,               \* frames handle_cannelloni_frame has queued
    canLog,                 \* frames given to mailbox 1
    scanBase,               \* canIn when the current (or last) scan began
    rxLog,                  \* frames on_can_receive has queued
    rxDropped,              \* some frame was dropped because rx_queue was full
    udpLog                  \* frames passed to udp_sendto, in order

txVars == <<txq, txBuf, isr, udp_rx_count, hdr, txrq, udpIn, accepted, canLog>>
mobVars == <<mob, mbox, canIn, stored, crowded, scanBase>>
udpVars == <<rxq, rxBuf, dgram, pos, seq_no, allocFails, rxLog,
             rxDropped, udpLog>>
vars == <<pc, txVars, mobVars, udpVars>>

Mboxes == FirstMbox .. LastMbox
MainRuns == isr = <<>>      \* no interrupt handler is active

(***************************************************************************)
(* After init_cannelloni and can_init.                                     *)
(***************************************************************************)
Init ==
    /\ pc = "tx"
    /\ txq = QueueInit /\ txBuf = [s \in Slots |-> [hdr |-> 0, data |-> 0]]
    /\ isr = <<>> /\ udp_rx_count = 0 /\ hdr = 0 /\ txrq = FALSE
    /\ udpIn = 0 /\ accepted = <<>> /\ canLog = <<>>
    /\ mob = [m \in Mboxes |-> 0] /\ mbox = FirstMbox
    /\ canIn = 0 /\ stored = FALSE /\ crowded = FALSE /\ scanBase = 0
    /\ rxq = QueueInit /\ rxBuf = [s \in Slots |-> 0]
    /\ dgram = <<>> /\ pos = 0 /\ seq_no = 0 /\ allocFails = 0
    /\ rxLog = <<>> /\ rxDropped = FALSE /\ udpLog = <<>>

-----------------------------------------------------------------------------
(* The Ethernet receive interrupt: handle_cannelloni_frame.                *)

(***************************************************************************)
(* A datagram arrives.  n is the number of frames it holds completely, up  *)
(* to its count field: the loop breaks at the first incomplete frame.      *)
(* A datagram of another version or operation is ignored.                  *)
(***************************************************************************)
UdpArrive(n, valid) ==
    /\ MainRuns
    /\ udpIn + n <= MaxUdp /\ udp_rx_count < MaxUdp
    /\ udpIn' = udpIn + n
    /\ isr' = IF valid THEN [k \in 1 .. n |-> udpIn + k] ELSE <<>>
    /\ udp_rx_count' = IF valid THEN udp_rx_count + 1 ELSE udp_rx_count
    /\ UNCHANGED <<pc, txq, txBuf, hdr, txrq, accepted, canLog, mobVars, udpVars>>

\* One iteration that gets a slot.  A remote frame leaves the slot's data alone.
IsrQueueFrame ==
    /\ isr # <<>>
    /\ ~ IsFull(txq)
    /\ LET f == Head(isr) IN
       /\ txBuf' = [txBuf EXCEPT ![txq.tail] =
                      [hdr |-> f, data |-> IF f \in RtrFrames THEN @.data ELSE f]]
       /\ accepted' = Append(accepted, f)
    /\ txq' = QueuePut(txq)
    /\ isr' = Tail(isr)
    /\ UNCHANGED <<pc, udp_rx_count, hdr, txrq, udpIn, canLog, mobVars, udpVars>>

\* queue_put returned NULL: this frame and the rest of the datagram are dropped.
IsrQueueFull ==
    /\ isr # <<>>
    /\ IsFull(txq)
    /\ isr' = <<>>
    /\ UNCHANGED <<pc, txq, txBuf, udp_rx_count, hdr, txrq, udpIn, accepted, canLog,
                   mobVars, udpVars>>

-----------------------------------------------------------------------------
(* The main loop, first part: transmit_can_frames.                         *)

\* frame = queue_peek(tx_queue); an empty queue ends the loop.
PeekTx ==
    /\ MainRuns /\ pc = "tx"
    /\ pc' = IF IsEmpty(txq) THEN "rx" ELSE "send"
    /\ UNCHANGED <<txVars, mobVars, udpVars>>

\* on_can_transmit loads can_id and len; can_send returns false on a busy mailbox.
CanSend ==
    /\ MainRuns /\ pc = "send"
    /\ hdr' = txBuf[txq.head].hdr
    /\ pc' = IF txrq THEN "rx" ELSE "copy"
    /\ UNCHANGED <<txq, txBuf, isr, udp_rx_count, txrq, udpIn, accepted, canLog,
                   mobVars, udpVars>>

\* The rest of can_send: data bytes, then the transfer that sets TXRQ.
CanSendData ==
    /\ MainRuns /\ pc = "copy"
    /\ txrq' = TRUE
    /\ canLog' = Append(canLog, [hdr |-> hdr, data |-> txBuf[txq.head].data])
    /\ pc' = "take"
    /\ UNCHANGED <<txq, txBuf, isr, udp_rx_count, hdr, udpIn, accepted, mobVars,
                   udpVars>>

TakeTx ==
    /\ MainRuns /\ pc = "take"
    /\ txq' = QueueTake(txq)
    /\ pc' = "tx"
    /\ UNCHANGED <<txBuf, isr, udp_rx_count, hdr, txrq, udpIn, accepted, canLog,
                   mobVars, udpVars>>

-----------------------------------------------------------------------------
(* The main loop, second part: receive_can_frames, on_can_receive.         *)

\* Faulty variants: the scan begins one mailbox late, or where the last one ended.
FirstPolledLate == FirstMbox + 1
FirstPolledResume == IF mbox > LastMbox THEN FirstMbox ELSE mbox

FirstPolled == FirstMbox

StartScan ==
    /\ MainRuns /\ pc = "rx"
    /\ mbox' = FirstPolled
    /\ scanBase' = canIn
    /\ stored' = FALSE
    /\ pc' = "scan"
    /\ UNCHANGED <<mob, canIn, crowded, txVars, udpVars>>

\* A faulty variant: the last mailbox is not polled.
HasDataNotLast == mbox < LastMbox /\ mob[mbox] # 0

HasData == mbox <= LastMbox /\ mob[mbox] # 0

\* can_mbox_has_data returned false: past the last mailbox, or NEWDAT clear.
EndScan ==
    /\ MainRuns /\ pc = "scan"
    /\ ~ HasData
    /\ pc' = "udp"
    /\ UNCHANGED <<txVars, mobVars, udpVars>>

\* The poll moved the frame to IF1 and cleared NEWDAT; it is queued.
ReadMbox ==
    /\ MainRuns /\ pc = "scan"
    /\ HasData /\ ~ IsFull(rxq)
    /\ mob' = [mob EXCEPT ![mbox] = 0]
    /\ rxBuf' = [rxBuf EXCEPT ![rxq.tail] = mob[mbox]]
    /\ rxq' = QueuePut(rxq)
    /\ rxLog' = Append(rxLog, mob[mbox])
    /\ mbox' = mbox + 1
    /\ stored' = FALSE
    /\ UNCHANGED <<pc, canIn, crowded, scanBase, dgram, pos, seq_no, allocFails,
                   rxDropped, udpLog, txVars>>

\* The poll cleared NEWDAT, but get_can_rx_frame returned NULL: the frame is lost.
ReadMboxFull ==
    /\ MainRuns /\ pc = "scan"
    /\ HasData /\ IsFull(rxq)
    /\ mob' = [mob EXCEPT ![mbox] = 0]
    /\ rxDropped' = TRUE
    /\ pc' = "udp"
    /\ UNCHANGED <<mbox, canIn, stored, crowded, scanBase, rxq, rxBuf, dgram, pos,
                   seq_no, allocFails, rxLog, udpLog, txVars>>

-----------------------------------------------------------------------------
(* The main loop, third part: while (transmit_udp_frame(handle)).          *)

\* Nothing to send: run_cannelloni returns and the main loop calls it again.
UdpIdle ==
    /\ MainRuns /\ pc = "udp"
    /\ IsEmpty(rxq)
    /\ pc' = "tx"
    /\ UNCHANGED <<txVars, mobVars, udpVars>>

AllocFails ==
    /\ MainRuns /\ pc = "udp"
    /\ ~ IsEmpty(rxq)
    /\ allocFails < MaxAllocFail
    /\ allocFails' = allocFails + 1
    /\ pc' = "tx"
    /\ UNCHANGED <<rxq, rxBuf, dgram, pos, seq_no, rxLog, rxDropped,
                   udpLog, txVars, mobVars>>

StartDatagram ==
    /\ MainRuns /\ pc = "udp"
    /\ ~ IsEmpty(rxq)
    /\ dgram' = <<>>
    /\ pos' = PacketBase
    /\ pc' = "fill"
    /\ UNCHANGED <<rxq, rxBuf, seq_no, allocFails, rxLog, rxDropped,
                   udpLog, txVars, mobVars>>

\* A faulty variant: the frame's header is not counted.
FitsData == pos + Dlen[rxBuf[rxq.head]] < PbufLen

Fits == pos + FrameBase + Dlen[rxBuf[rxq.head]] < PbufLen

AddFrame ==
    /\ MainRuns /\ pc = "fill"
    /\ ~ IsEmpty(rxq) /\ Fits
    /\ dgram' = Append(dgram, rxBuf[rxq.head])
    /\ pos' = pos + FrameBase + Dlen[rxBuf[rxq.head]]
    /\ rxq' = QueueTake(rxq)
    /\ UNCHANGED <<pc, rxBuf, seq_no, allocFails, rxLog, rxDropped, udpLog,
                   txVars, mobVars>>

\* Header, udp_sendto, pbuf_free; true (and another datagram) if a frame is left.
SendDatagram ==
    /\ MainRuns /\ pc = "fill"
    /\ IsEmpty(rxq) \/ ~ Fits
    /\ udpLog' = udpLog \o dgram
    /\ dgram' = <<>>
    /\ seq_no' = (seq_no + 1) % 256
    /\ pc' = IF IsEmpty(rxq) THEN "tx" ELSE "udp"
    /\ UNCHANGED <<rxq, rxBuf, pos, allocFails, rxLog, rxDropped, txVars, mobVars>>

-----------------------------------------------------------------------------
(* The DCAN controller.                                                    *)

\* Mailbox 1 won arbitration and was sent.
CanTxDone ==
    /\ txrq
    /\ txrq' = FALSE
    /\ UNCHANGED <<pc, txq, txBuf, isr, udp_rx_count, hdr, udpIn, accepted, canLog,
                   mobVars, udpVars>>

Free == {m \in Mboxes : mob[m] = 0}

(***************************************************************************)
(* A frame from the bus goes to the first mailbox of the FIFO whose NEWDAT *)
(* is clear; when there is none, it overwrites the one with the EOB bit.   *)
(***************************************************************************)
CanArrive ==
    /\ canIn < MaxCan
    /\ \E m \in Mboxes :
         /\ \/ m \in Free /\ \A k \in Free : m <= k
            \/ Free = {} /\ m = LastMbox
         /\ mob' = [mob EXCEPT ![m] = canIn + 1]
    /\ canIn' = canIn + 1
    /\ stored' = (pc = "scan")
    /\ crowded' = (crowded \/ (pc = "scan" /\ stored))
    /\ UNCHANGED <<pc, mbox, scanBase, txVars, udpVars>>

-----------------------------------------------------------------------------
Interrupt == IsrQueueFrame \/ IsrQueueFull

TransmitCanFrames == PeekTx \/ CanSend \/ CanSendData \/ TakeTx
ReceiveCanFrames == StartScan \/ EndScan \/ ReadMbox \/ ReadMboxFull
TransmitUdpFrame == UdpIdle \/ AllocFails \/ StartDatagram \/ AddFrame \/ SendDatagram
MainStep == TransmitCanFrames \/ ReceiveCanFrames \/ TransmitUdpFrame

Next ==
    \/ \E n \in 0 .. MaxPerPacket, valid \in BOOLEAN : UdpArrive(n, valid)
    \/ Interrupt
    \/ MainStep
    \/ CanTxDone
    \/ CanArrive

(***************************************************************************)
(* The processor always executes: an interrupt handler runs to its end and *)
(* the main loop goes on afterwards.  A requested frame eventually leaves  *)
(* mailbox 1.  Nothing makes frames arrive.                                *)
(***************************************************************************)
Fairness == WF_vars(Interrupt) /\ WF_vars(MainStep) /\ WF_vars(CanTxDone)

Spec == Init /\ [][Next]_vars
FairSpec == Spec /\ Fairness

-----------------------------------------------------------------------------
(* Properties.                                                             *)

Stage == {"tx", "send", "copy", "take", "rx", "scan", "udp", "fill"}
Frame == [hdr : Nat, data : Nat]

\* Every variable keeps the type its C object has.
TypeOK ==
    /\ pc \in Stage
    /\ txq \in Queue /\ txBuf \in [Slots -> Frame]
    /\ isr \in Seq(Nat) /\ udp_rx_count \in Nat /\ hdr \in Nat /\ txrq \in BOOLEAN
    /\ udpIn \in Nat /\ accepted \in Seq(Nat) /\ canLog \in Seq(Frame)
    /\ mob \in [Mboxes -> 0 .. MaxCan] /\ mbox \in FirstMbox .. LastMbox + 1
    /\ canIn \in 0 .. MaxCan /\ stored \in BOOLEAN /\ crowded \in BOOLEAN
    /\ scanBase \in Nat
    /\ rxq \in Queue /\ rxBuf \in [Slots -> 0 .. MaxCan]
    /\ dgram \in Seq(Nat) /\ pos \in Nat /\ seq_no \in 0 .. 255
    /\ allocFails \in Nat
    /\ rxLog \in Seq(Nat) /\ rxDropped \in BOOLEAN /\ udpLog \in Seq(Nat)

(***************************************************************************)
(* transmit_can_frames hands the controller exactly the frames that        *)
(* handle_cannelloni_frame queued, in that order, each once, and each with *)
(* its own id, length and data, although the interrupt fills the ring      *)
(* between any two steps of can_send.  (A remote frame has no data of its  *)
(* own.)                                                                   *)
(***************************************************************************)
TxFifo ==
    /\ Len(canLog) <= Len(accepted)
    /\ \A k \in 1 .. Len(canLog) :
         /\ canLog[k].hdr = accepted[k]
         /\ accepted[k] \notin RtrFrames => canLog[k].data = accepted[k]

(***************************************************************************)
(* A remote frame has no data: what can_send puts on the bus for it does   *)
(* not carry the data bytes of some other frame.                           *)
(***************************************************************************)
RemoteHasNoData ==
    \A k \in 1 .. Len(canLog) : canLog[k].hdr \in RtrFrames => canLog[k].data = 0

(***************************************************************************)
(* handle_cannelloni_frame drops frames only when the ring is really used  *)
(* up: all but one of its slots hold accepted frames, of which at most the *)
(* one being taken has already gone to the controller.                     *)
(***************************************************************************)
TxDropsOnlyWhenFull ==
    [][IsrQueueFull => Len(accepted) - Len(canLog) >=
                         QCount - 1 - (IF pc = "take" THEN 1 ELSE 0)]_vars

(***************************************************************************)
(* What transmit_udp_frame sent, is sending and has still queued is what   *)
(* on_can_receive read from the mailboxes, in that order: nothing is lost, *)
(* repeated or reordered by the receive ring, by the split into datagrams  *)
(* or by a failed pbuf_alloc.                                              *)
(***************************************************************************)
RxFifo ==
    udpLog \o dgram \o [k \in 1 .. QueueLen(rxq) |-> rxBuf[SlotAt(rxq, k - 1)]] = rxLog

Held == {m \in Mboxes : mob[m] # 0}

(***************************************************************************)
(* on_can_receive stops at the first mailbox without data, so a frame      *)
(* above an empty mailbox would not be seen.  Between two scans there is   *)
(* no such gap, whatever the controller stored while the scan ran, unless  *)
(* a scan was cut short by a full receive queue.                           *)
(***************************************************************************)
NoStranding ==
    pc # "scan" /\ ~ rxDropped =>
        \A m \in Held : \A k \in FirstMbox .. m : k \in Held

(***************************************************************************)
(* When on_can_receive queues a frame while an older one is still in a     *)
(* mailbox, the older one was stored after the scan began: a frame that    *)
(* waited when a scan began is never overtaken (again short of a dropped   *)
(* frame).                                                                 *)
(***************************************************************************)
NoOvertakingWaiting ==
    [][ReadMbox /\ ~ rxDropped =>
         \A m \in Held : mob[m] < mob[mbox] => mob[m] > scanBase]_vars

(***************************************************************************)
(* As long as the bus stores at most one frame between two polls of a scan *)
(* (a poll takes far less time than a frame) on_can_receive keeps the      *)
(* order of the bus, short of a dropped frame.                             *)
(***************************************************************************)
RxInOrder ==
    ~ rxDropped /\ ~ crowded =>
        \A j, k \in 1 .. Len(rxLog) : j < k => rxLog[j] < rxLog[k]

(***************************************************************************)
(* A datagram never outgrows its pbuf and is never sent empty; and as long *)
(* as no allocation failed it holds at most one scan's frames, so that its *)
(* length is bounded by the number of mailboxes and not by the ring.       *)
(***************************************************************************)
DatagramBounded ==
    pc = "fill" =>
        /\ pos < PbufLen
        /\ IsEmpty(rxq) \/ ~ Fits => dgram # <<>>
        /\ allocFails = 0 =>
             pos <= PacketBase + (LastMbox - FirstMbox + 1) * (FrameBase + MaxDlen)

(***************************************************************************)
(* Every frame leaves its mailbox, the last one included, although the     *)
(* scan ends at the first empty one, unless a frame was dropped on a full  *)
(* queue.                                                                  *)
(***************************************************************************)
RxDelivered == \A m \in Mboxes : mob[m] # 0 ~> (rxDropped \/ mob[m] = 0)

(***************************************************************************)
(* Each direction, seen from its two ends, is a bounded channel: from      *)
(* handle_cannelloni_frame to mailbox 1, and from the mailboxes to         *)
(* udp_sendto.  What is dropped is dropped before it is accepted.  What    *)
(* went to mailbox 1 counts as a frame (numbered from 1) only if its data  *)
(* are that frame's, or it is a remote frame, which has none of its own.   *)
(***************************************************************************)
SentAs(f) == IF f.hdr \in RtrFrames \/ f.data = f.hdr THEN f.hdr ELSE 0

SentIds == [k \in 1 .. Len(canLog) |-> SentAs(canLog[k])]

ToCan == INSTANCE Channel WITH in <- accepted, out <- SentIds, Capacity <- QCount - 1
ToUdp == INSTANCE Channel WITH in <- rxLog, out <- udpLog, Capacity <- QCount - 1

(***************************************************************************)
(* UDP to CAN implements the channel: every frame that                     *)
(* handle_cannelloni_frame queued goes to the controller once, in order    *)
(* and with its own id and data, although the interrupt fills the ring     *)
(* between any two steps of can_send, and does so eventually; at most      *)
(* QCount - 1 wait.                                                        *)
(***************************************************************************)
ToCanIsChannel == ToCan!Safe /\ ToCan!Live

(***************************************************************************)
(* CAN to UDP implements the channel: every frame on_can_receive queued is *)
(* sent once, in order, in datagrams that each carry at least one frame,   *)
(* and is sent eventually, even when pbuf_alloc has failed before.         *)
(***************************************************************************)
ToUdpIsChannel == ToUdp!Safe /\ ToUdp!Live

-----------------------------------------------------------------------------
(* The inductive invariants behind the safety properties.                  *)

\* The frame at the head of tx_queue has gone to mailbox 1 but is not taken yet.
Taking == IF pc = "take" THEN 1 ELSE 0

\* tx_queue holds what was accepted and not given to the controller, in order.
TxInv ==
    /\ Len(canLog) + QueueLen(txq) = Len(accepted) + Taking
    /\ Taking <= Len(canLog)
    /\ \A k \in 0 .. QueueLen(txq) - 1 :
         LET f == accepted[Len(canLog) - Taking + 1 + k]
             s == txBuf[SlotAt(txq, k)]
         IN  s.hdr = f /\ (f \notin RtrFrames => s.data = f)
    /\ \A k \in 1 .. Len(canLog) :
         /\ canLog[k].hdr = accepted[k]
         /\ accepted[k] \notin RtrFrames => canLog[k].data = accepted[k]
    /\ pc \in {"send", "copy", "take"} => ~ IsEmpty(txq)
    /\ pc = "copy" => hdr = txBuf[txq.head].hdr

(***************************************************************************)
(* The mailboxes the scan has passed (below mbox) and those before it each *)
(* hold frames without a gap and in the order of arrival; those passed     *)
(* were stored since the scan began.                                       *)
(***************************************************************************)
MobInv ==
    /\ \A m \in Mboxes : mob[m] <= canIn
    /\ scanBase <= canIn
    /\ ~ rxDropped =>
         /\ \A m \in Held :
              \A k \in (IF pc = "scan" /\ m >= mbox THEN mbox ELSE FirstMbox) .. m - 1 :
                 mob[k] # 0 /\ mob[k] < mob[m]
         /\ pc = "scan" => \A m \in Held : m < mbox => mob[m] > scanBase

\* udpLog, dgram and rx_queue divide rxLog between them.
RxInv ==
    /\ Len(udpLog) + Len(dgram) + QueueLen(rxq) = Len(rxLog)
    /\ \A k \in 1 .. Len(udpLog) : udpLog[k] = rxLog[k]
    /\ \A k \in 1 .. Len(dgram) : dgram[k] = rxLog[Len(udpLog) + k]
    /\ \A k \in 0 .. QueueLen(rxq) - 1 :
         rxBuf[SlotAt(rxq, k)] = rxLog[Len(udpLog) + Len(dgram) + 1 + k]
    /\ pc # "fill" => dgram = <<>>

\* A datagram's length by its frames; rx_queue by the mailboxes, while pbufs last.
SizeInv ==
    /\ pc = "fill" =>
         /\ pos < PbufLen
         /\ pos <= PacketBase + (FrameBase + MaxDlen) * Len(dgram)
         /\ dgram = <<>> => pos = PacketBase /\ ~ IsEmpty(rxq)
    /\ pc # "fill" => dgram = <<>>
    /\ allocFails = 0 =>
         /\ pc \in {"tx", "send", "copy", "take", "rx"} => IsEmpty(rxq)
         /\ pc = "scan" => QueueLen(rxq) = mbox - FirstMbox
         /\ QueueLen(rxq) + Len(dgram) <= LastMbox - FirstMbox + 1
=============================================================================
