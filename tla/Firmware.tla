------------------------------ MODULE Firmware ------------------------------
(***************************************************************************)
(* src/src/main.c: the boot of one TMS570 node and its main loop over the  *)
(* CAN_IFACES cannelloni handles, with the frame buffers the way main      *)
(* wires them and the lwIP pool of UDP control blocks the handles share    *)
(* with the mDNS responder.                                                *)
(*                                                                         *)
(* Module Cannelloni has the steps of one handle; here they are repeated   *)
(* per interface, as coarse as the sharing allows: what the main loop does *)
(* with rx_queue is invisible to interrupts, so one mailbox read and one   *)
(* datagram are one step each; can_send keeps its separate reads of a slot.*)
(* A frame is <<i, n>>: the n-th frame that arrived for interface i.       *)
(***************************************************************************)
EXTENDS FrameQueue, Sequences, FiniteSetsExt

CONSTANTS
    NumIfaces,              \* CAN_IFACES (4)
    NumUdpPcb,              \* MEMP_NUM_UDP_PCB (4)
    NumMbox,                \* receive mailboxes of one CAN controller (63)
    DgramFrames,            \* frames that fit in one outgoing datagram
    MaxUdp, MaxCan,         \* bounds: frames arriving on UDP, on all CAN buses
    MaxAllocFail            \* bound: failures of pbuf_alloc

ASSUME FirmwareAssumption ==
    /\ NumIfaces \in Nat \ {0} /\ NumMbox \in Nat \ {0} /\ DgramFrames \in Nat \ {0}
    /\ NumUdpPcb \in Nat /\ MaxUdp \in Nat /\ MaxCan \in Nat /\ MaxAllocFail \in Nat

Ifaces == 0 .. NumIfaces - 1
Mboxes == 1 .. NumMbox
Nothing == <<0, 0>>         \* zeroed memory, an empty mailbox

(***************************************************************************)
(* can_interfaces[].tx_buf and .rx_buf: which of them handle i is given.   *)
(* main assigns can_interfaces->tx_buf, the array of the first element.    *)
(***************************************************************************)
CanTxBuf(i) == 0
CanRxBuf(i) == 0

VARIABLES
    pc, i,                  \* position of main, its loop variable
    pcbFree,                \* control blocks left in the MEMP_UDP_PCB pool
    bound,                  \* handles whose udp_recv callback is registered
    txMem, rxMem,           \* the tx_buf and rx_buf arrays
    txq, rxq,               \* tx_queue and rx_queue of each handle
    isr,                    \* interface and frames the interrupt has to queue
    hdr, txrq,              \* can_id/len in can_send; TXRQ of mailbox 1
    mob, mbox,              \* receive mailboxes; position of the scan
    udpIn, canIn, allocFails, \* arrivals so far, failures so far
    accepted, canLog,       \* per interface: frames queued from UDP, sent to CAN
    rxLog, udpLog,          \* per interface: frames read from CAN, sent to UDP
    overlap                 \* a frame was queued for CAN while another
                            \* interface had frames queued

bootVars == <<pcbFree, bound>>
txVars == <<txMem, txq, isr, hdr, txrq, udpIn, accepted, canLog, overlap>>
rxVars == <<rxMem, rxq, mob, mbox, canIn, allocFails, rxLog, udpLog>>
vars == <<pc, i, bootVars, txVars, rxVars>>

PerIface(v) == [k \in Ifaces |-> v]

\* The frames counted by arrivals, over all interfaces.
Total(arrivals) == MapThenSumSet(LAMBDA k : arrivals[k], Ifaces)

Init ==
    /\ pc = "mdns" /\ i = 0
    /\ pcbFree = NumUdpPcb /\ bound = {}
    /\ txMem = PerIface([s \in Slots |-> [hdr |-> Nothing, data |-> Nothing]])
    /\ rxMem = PerIface([s \in Slots |-> Nothing])
    /\ txq = PerIface(QueueInit) /\ rxq = PerIface(QueueInit)
    /\ isr = [port |-> 0, frames |-> <<>>]
    /\ hdr = Nothing /\ txrq = PerIface(FALSE)
    /\ mob = PerIface([m \in Mboxes |-> Nothing]) /\ mbox = 1
    /\ udpIn = PerIface(0) /\ canIn = PerIface(0) /\ allocFails = 0
    /\ accepted = PerIface(<<>>) /\ canLog = PerIface(<<>>)
    /\ rxLog = PerIface(<<>>) /\ udpLog = PerIface(<<>>)
    /\ overlap = FALSE

-----------------------------------------------------------------------------
(* Boot, with interrupts still disabled.                                   *)

\* mdns_resp_init allocates the responder's control block.
MdnsRespInit ==
    /\ pc = "mdns"
    /\ pcbFree' = IF pcbFree > 0 THEN pcbFree - 1 ELSE 0
    /\ pc' = "init"
    /\ UNCHANGED <<i, bound, txVars, rxVars>>

\* The boot loop's call of init_cannelloni: no control block, no callback.
InitCannelloni ==
    /\ pc = "init"
    /\ IF pcbFree > 0 THEN pcbFree' = pcbFree - 1 /\ bound' = bound \union {i}
                      ELSE UNCHANGED bootVars
    /\ i' = (i + 1) % NumIfaces
    /\ pc' = IF i + 1 = NumIfaces THEN "tx" ELSE "init"
    /\ UNCHANGED <<txVars, rxVars>>

Booted == pc \notin {"mdns", "init"}
MainRuns == Booted /\ isr.frames = <<>>

-----------------------------------------------------------------------------
(* The Ethernet receive interrupt: handle_cannelloni_frame of handle k.    *)

UdpArrive(k, n) ==
    /\ MainRuns /\ k \in bound
    /\ Total(udpIn) + n <= MaxUdp
    /\ udpIn' = [udpIn EXCEPT ![k] = @ + n]
    /\ isr' = [port |-> k, frames |-> [j \in 1 .. n |-> <<k, udpIn[k] + j>>]]
    /\ UNCHANGED <<pc, i, bootVars, txMem, txq, hdr, txrq, accepted, canLog, overlap,
                   rxVars>>

IsrQueueFrame ==
    LET k == isr.port
        f == Head(isr.frames)
    IN  /\ isr.frames # <<>>
        /\ ~ IsFull(txq[k])
        /\ txMem' = [txMem EXCEPT ![CanTxBuf(k)][txq[k].tail] = [hdr |-> f, data |-> f]]
        /\ txq' = [txq EXCEPT ![k] = QueuePut(@)]
        /\ isr' = [isr EXCEPT !.frames = Tail(@)]
        /\ accepted' = [accepted EXCEPT ![k] = Append(@, f)]
        /\ overlap' = (overlap \/ \E j \in Ifaces \ {k} : ~ IsEmpty(txq[j]))
        /\ UNCHANGED <<pc, i, bootVars, hdr, txrq, udpIn, canLog, rxVars>>

IsrQueueFull ==
    /\ isr.frames # <<>>
    /\ IsFull(txq[isr.port])
    /\ isr' = [isr EXCEPT !.frames = <<>>]
    /\ UNCHANGED <<pc, i, bootVars, txMem, txq, hdr, txrq, udpIn, accepted, canLog,
                   overlap, rxVars>>

-----------------------------------------------------------------------------
(* run_cannelloni(&can_interfaces[i].cannelloni).                          *)

PeekTx ==
    /\ MainRuns /\ pc = "tx"
    /\ IF IsEmpty(txq[i]) THEN pc' = "scan" /\ mbox' = 1
                          ELSE pc' = "send" /\ UNCHANGED mbox
    /\ UNCHANGED <<i, bootVars, txVars, rxMem, rxq, mob, canIn, allocFails, rxLog, udpLog>>

\* A faulty variant: the frame is taken although the mailbox was busy.
RefusedTaken == pc' = "take" /\ UNCHANGED mbox

\* can_send returned false: the frame stays queued, and the scan begins.
Refused == pc' = "scan" /\ mbox' = 1

CanSend ==
    /\ MainRuns /\ pc = "send"
    /\ hdr' = txMem[CanTxBuf(i)][txq[i].head].hdr
    /\ IF txrq[i] THEN Refused
                  ELSE pc' = "copy" /\ UNCHANGED mbox
    /\ UNCHANGED <<i, bootVars, txMem, txq, isr, txrq, udpIn, accepted, canLog, overlap,
                   rxMem, rxq, mob, canIn, allocFails, rxLog, udpLog>>

CanSendData ==
    /\ MainRuns /\ pc = "copy"
    /\ txrq' = [txrq EXCEPT ![i] = TRUE]
    /\ canLog' = [canLog EXCEPT ![i] =
                    Append(@, [hdr |-> hdr, data |-> txMem[CanTxBuf(i)][txq[i].head].data])]
    /\ pc' = "take"
    /\ UNCHANGED <<i, bootVars, txMem, txq, isr, hdr, udpIn, accepted, overlap, rxVars>>

TakeTx ==
    /\ MainRuns /\ pc = "take"
    /\ txq' = [txq EXCEPT ![i] = QueueTake(@)]
    /\ pc' = "tx"
    /\ UNCHANGED <<i, bootVars, txMem, isr, hdr, txrq, udpIn, accepted, canLog, overlap,
                   rxVars>>

HasData == mbox <= NumMbox /\ mob[i][mbox] # Nothing

EndScan ==
    /\ MainRuns /\ pc = "scan"
    /\ ~ HasData
    /\ pc' = "udp"
    /\ UNCHANGED <<i, bootVars, txVars, rxVars>>

ReadMbox ==
    /\ MainRuns /\ pc = "scan"
    /\ HasData
    /\ mob' = [mob EXCEPT ![i][mbox] = Nothing]
    /\ IF IsFull(rxq[i])
       THEN pc' = "udp" /\ UNCHANGED <<rxMem, rxq, rxLog, mbox>>
       ELSE /\ rxMem' = [rxMem EXCEPT ![CanRxBuf(i)][rxq[i].tail] = mob[i][mbox]]
            /\ rxq' = [rxq EXCEPT ![i] = QueuePut(@)]
            /\ rxLog' = [rxLog EXCEPT ![i] = Append(@, mob[i][mbox])]
            /\ mbox' = mbox + 1
            /\ UNCHANGED pc
    /\ UNCHANGED <<i, bootVars, txVars, canIn, allocFails, udpLog>>

\* A faulty variant: the last interface is skipped.
ReturnSkipLast == pc' = "tx" /\ i' = IF i + 1 >= NumIfaces - 1 THEN 0 ELSE i + 1

\* run_cannelloni returns; the main loop goes on with the next interface.
Return == pc' = "tx" /\ i' = (i + 1) % NumIfaces

\* A faulty variant: a busy transmit mailbox ends run_cannelloni early.
NothingToSendBusy == IsEmpty(rxq[i]) \/ txrq[i]

\* queue_peek(rx_queue) returns NULL.
NothingToSend == IsEmpty(rxq[i])

\* Nothing is queued, or pbuf_alloc fails.
UdpDone ==
    /\ MainRuns /\ pc = "udp"
    /\ \/ NothingToSend /\ UNCHANGED allocFails
       \/ ~ NothingToSend /\ allocFails < MaxAllocFail /\ allocFails' = allocFails + 1
    /\ Return
    /\ UNCHANGED <<bootVars, txVars, rxMem, rxq, mob, mbox, canIn, rxLog, udpLog>>

\* while (transmit_udp_frame(handle)).
SentDatagram(last) == IF last THEN Return ELSE UNCHANGED <<pc, i>>

\* One datagram.  udp_sendto refuses a NULL control block; the result is ignored.
SendDatagram ==
    LET len == QueueLen(rxq[i])
        n == IF len <= DgramFrames THEN len ELSE DgramFrames
        sent == [k \in 1 .. n |-> rxMem[CanRxBuf(i)][SlotAt(rxq[i], k - 1)]]
    IN  /\ MainRuns /\ pc = "udp"
        /\ ~ NothingToSend
        /\ rxq' = [rxq EXCEPT ![i].head = SlotAt(rxq[i], n)]
        /\ udpLog' = IF i \in bound THEN [udpLog EXCEPT ![i] = @ \o sent] ELSE udpLog
        /\ SentDatagram(n = len)
        /\ UNCHANGED <<bootVars, txVars, rxMem, mob, mbox, canIn, allocFails, rxLog>>

-----------------------------------------------------------------------------
(* The CAN controllers.                                                    *)

CanTxDone(k) ==
    /\ txrq[k]
    /\ txrq' = [txrq EXCEPT ![k] = FALSE]
    /\ UNCHANGED <<pc, i, bootVars, txMem, txq, isr, hdr, udpIn, accepted, canLog, overlap,
                   rxVars>>

Free(k) == {m \in Mboxes : mob[k][m] = Nothing}

\* Once can_init has run for its controller, in the boot loop's iteration k.
CanArrive(k) ==
    /\ Booted \/ (pc = "init" /\ k < i)
    /\ Total(canIn) < MaxCan
    /\ \E m \in Mboxes :
         /\ \/ m \in Free(k) /\ \A l \in Free(k) : m <= l
            \/ Free(k) = {} /\ m = NumMbox
         /\ mob' = [mob EXCEPT ![k][m] = <<k, canIn[k] + 1>>]
    /\ canIn' = [canIn EXCEPT ![k] = @ + 1]
    /\ UNCHANGED <<pc, i, bootVars, txVars, rxMem, rxq, mbox, allocFails, rxLog, udpLog>>

-----------------------------------------------------------------------------
Interrupt == IsrQueueFrame \/ IsrQueueFull
Main ==
    \/ MdnsRespInit \/ InitCannelloni
    \/ PeekTx \/ CanSend \/ CanSendData \/ TakeTx
    \/ EndScan \/ ReadMbox
    \/ UdpDone \/ SendDatagram

Next ==
    \/ Main
    \/ Interrupt
    \/ \E k \in Ifaces, n \in 1 .. MaxUdp : UdpArrive(k, n)
    \/ \E k \in Ifaces : CanTxDone(k) \/ CanArrive(k)

(***************************************************************************)
(* The processor executes; every requested CAN frame is sent some time.    *)
(***************************************************************************)
Fairness ==
    /\ WF_vars(Main) /\ WF_vars(Interrupt)
    /\ \A k \in Ifaces : WF_vars(CanTxDone(k))

Spec == Init /\ [][Next]_vars
FairSpec == Spec /\ Fairness

-----------------------------------------------------------------------------
(* Properties.                                                             *)

(***************************************************************************)
(* What leaves on the UDP port of an interface is what its own controller  *)
(* received, in the order it was read, although all handles fill the same  *)
(* rx_buf, as long as pbuf_alloc has not failed: each run_cannelloni then  *)
(* empties rx_queue before the next interface uses the buffer.             *)
(***************************************************************************)
RxIsolated ==
    allocFails = 0 => \A k \in bound :
        /\ Len(udpLog[k]) <= Len(rxLog[k])
        /\ \A n \in 1 .. Len(udpLog[k]) : udpLog[k][n] = rxLog[k][n]

\* The frames handle k gave to its controller are those queued for it, intact.
TxFifo(k) ==
    /\ Len(canLog[k]) <= Len(accepted[k])
    /\ \A n \in 1 .. Len(canLog[k]) :
         canLog[k][n] = [hdr |-> accepted[k][n], data |-> accepted[k][n]]

(***************************************************************************)
(* Every frame sent on a CAN interface is a frame received on that         *)
(* interface's UDP port, with its own id and data.                         *)
(***************************************************************************)
TxIsolated == \A k \in Ifaces : TxFifo(k)

(***************************************************************************)
(* The shared tx_buf does no harm as long as handle_cannelloni_frame never *)
(* queues a frame for one interface while another still has frames queued: *)
(* this is all that tests which use one interface at a time exercise.      *)
(***************************************************************************)
TxIsolatedWithoutOverlap == ~ overlap => TxIsolated

\* After boot every CAN interface is bridged: its handle listens on UDP.
AllBridged == Booted => bound = Ifaces

\* Nothing waits on interface k, in either direction.
Served(k) ==
    /\ Len(canLog[k]) = Len(accepted[k])
    /\ Free(k) = Mboxes
    /\ k \in bound => Len(udpLog[k]) = Len(rxLog[k])

(***************************************************************************)
(* The main loop serves every interface: whenever traffic pauses, what     *)
(* handle_cannelloni_frame queued goes to the controller, every frame      *)
(* leaves its mailbox, and what a bound handle read goes to UDP, also      *)
(* after failures of pbuf_alloc.                                           *)
(***************************************************************************)
EveryInterfaceServed == \A k \in Ifaces : []<>Served(k)
=============================================================================
