--------------------------- MODULE ChannelProofs ----------------------------
(***************************************************************************)
(* Each direction of a cannelloni handle implements a bounded first-in     *)
(* first-out channel, for every ring size, every number of mailboxes and   *)
(* every datagram length.  The invariants are those of CannelloniProofs.   *)
(***************************************************************************)
EXTENDS CannelloniProofs

\* SentIds has one id for each frame given to mailbox 1.
LEMMA SentIdsFacts ==
  ASSUME TypeOK
  PROVE  /\ Len(SentIds) = Len(canLog) /\ Len(canLog) \in Nat
         /\ \A k \in 1 .. Len(canLog) : SentIds[k] = SentAs(canLog[k])
<1>1. canLog \in Seq(Frame) /\ Len(canLog) \in Nat
  BY DEF TypeOK
<1>2. ASSUME NEW k \in 1 .. Len(canLog) PROVE SentAs(canLog[k]) \in Nat
  <2>1. canLog[k] \in Frame
    BY <1>1
  <2> QED
    BY <2>1 DEF Frame, SentAs
<1>3. SentIds \in [1 .. Len(canLog) -> Nat]
  BY <1>1, <1>2 DEF SentIds
<1>4. Len(SentIds) = Len(canLog)
  BY <1>1, <1>3, FunctionSeq, Zenon
<1> QED
  BY <1>1, <1>4 DEF SentIds

(***************************************************************************)
(* A step of the handle is, for the CAN-bound direction, the acceptance of *)
(* a frame (IsrQueueFrame), its delivery (CanSendData) or a stutter.       *)
(***************************************************************************)
LEMMA ToCanStep ==
  ASSUME TypeOK, TypeOK', TxInv, TxInv', [Next]_vars
  PROVE  [ToCan!ChNext]_(ToCan!chVars)
<1>0. /\ accepted \in Seq(Nat) /\ Len(accepted) \in Nat /\ Len(canLog) \in Nat
      /\ txq \in Queue /\ QueueLen(txq) \in 0 .. QCount - 1 /\ QCount \in Nat
      /\ Len(SentIds) = Len(canLog) /\ Taking \in {0, 1}
      /\ Len(canLog) + QueueLen(txq) = Len(accepted) + Taking
  <2>1. Len(canLog) + QueueLen(txq) = Len(accepted) + Taking
    BY DEF TxInv
  <2>2. Taking \in {0, 1}
    BY DEF Taking
  <2>3. accepted \in Seq(Nat) /\ Len(accepted) \in Nat /\ txq \in Queue
    BY DEF TypeOK
  <2> QED
    BY <2>1, <2>2, <2>3, SentIdsFacts, QueueLenFacts, QCountAssumption
<1>1. CASE IsrQueueFrame
  <2>1. /\ ~ IsFull(txq) /\ UNCHANGED canLog /\ accepted' = Append(accepted, Head(isr))
    BY <1>1 DEF IsrQueueFrame
  <2>2. Head(isr) \in Nat
    <3>1. isr \in Seq(Nat) /\ isr # <<>>
      BY <1>1 DEF IsrQueueFrame, TypeOK
    <3> QED
      BY <3>1
  <2>3. /\ Len(accepted') = Len(accepted) + 1
        /\ \A k \in 1 .. Len(accepted) : accepted'[k] = accepted[k]
    BY <1>0, <2>1, <2>2, AppendFacts
  <2>4. QueueLen(txq) < QCount - 1
    BY <1>0, <2>1, QueueLenFacts
  <2>5. Len(accepted) - Len(SentIds) < QCount - 1
    BY <1>0, <2>4
  <2>6. SentIds' = SentIds
    BY <2>1 DEF SentIds
  <2> QED
    BY <2>3, <2>5, <2>6 DEF ToCan!ChNext, ToCan!Accept
<1>2. CASE CanSendData
  <2>1. /\ accepted' = accepted /\ pc = "copy"
        /\ canLog' = Append(canLog, [hdr |-> hdr, data |-> txBuf[txq.head].data])
    BY <1>2 DEF CanSendData
  <2>2. Taking = 0 /\ QueueLen(txq) >= 1
    <3>1. ~ IsEmpty(txq)
      BY <2>1 DEF TxInv
    <3>2. Taking = 0
      BY <2>1, SMTT(20) DEF Taking
    <3> QED
      BY <1>0, <3>1, <3>2, QueueLenFacts
  <2>3. Len(canLog') = Len(canLog) + 1
    <3>1. canLog \in Seq(Frame) /\ [hdr |-> hdr, data |-> txBuf[txq.head].data] \in Frame
      BY TypeFacts, Zenon DEF Frame, TypeOK
    <3> QED
      BY <2>1, <3>1, AppendFacts, Zenon
  <2>4. /\ Len(SentIds') = Len(canLog')
        /\ \A k \in 1 .. Len(canLog') : SentIds'[k] = SentAs(canLog'[k])
    <3>1. canLog' \in Seq(Frame) /\ Len(canLog') \in Nat
      BY DEF TypeOK
    <3>2. SentIds' \in [1 .. Len(canLog') -> Nat]
      <4>1. ASSUME NEW k \in 1 .. Len(canLog') PROVE SentAs(canLog'[k]) \in Nat
        <5>1. canLog'[k] \in Frame
          BY <3>1
        <5> QED
          BY <5>1 DEF Frame, SentAs
      <4> QED
        BY <3>1, <4>1 DEF SentIds
    <3>3. Len(SentIds') = Len(canLog')
      BY <3>1, <3>2, FunctionSeq, Zenon
    <3> QED
      BY <3>1, <3>3 DEF SentIds
  <2>5. \A k \in 1 .. Len(SentIds') : SentIds'[k] = accepted[k]
    <3>1. \A k \in 1 .. Len(canLog') :
            /\ canLog'[k].hdr = accepted'[k]
            /\ accepted'[k] \notin RtrFrames => canLog'[k].data = accepted'[k]
      BY Zenon DEF TxInv
    <3>2. \A k \in 1 .. Len(canLog') : SentAs(canLog'[k]) = accepted'[k]
      BY <3>1, Zenon DEF SentAs
    <3> QED
      BY <2>1, <2>4, <3>2
  <2>6. Len(SentIds') \in Len(SentIds) + 1 .. Len(accepted)
    BY <1>0, <2>2, <2>3, <2>4
  <2> QED
    BY <2>1, <2>5, <2>6 DEF ToCan!ChNext, ToCan!Deliver
<1>3. CASE \/ \E n \in 0 .. MaxPerPacket, valid \in BOOLEAN : UdpArrive(n, valid)
           \/ IsrQueueFull \/ PeekTx \/ CanSend \/ TakeTx \/ ReceiveCanFrames
           \/ TransmitUdpFrame \/ CanTxDone \/ CanArrive \/ UNCHANGED vars
  <2>1. UNCHANGED <<accepted, canLog>>
    BY <1>3, Zenon DEF UdpArrive, IsrQueueFull, PeekTx, CanSend, TakeTx, ReceiveCanFrames,
         StartScan, EndScan, ReadMbox, ReadMboxFull, TransmitUdpFrame, UdpIdle, AllocFails,
         StartDatagram, AddFrame, SendDatagram, CanTxDone, CanArrive, vars, txVars
  <2> QED
    BY <2>1 DEF ToCan!chVars, SentIds
<1> QED
  BY <1>1, <1>2, <1>3 DEF Next, Interrupt, MainStep, TransmitCanFrames

(***************************************************************************)
(* UDP to CAN implements the safety part of the channel: what              *)
(* handle_cannelloni_frame queued reaches mailbox 1 once and in order, and *)
(* at most QCount - 1 frames are under way.                                *)
(***************************************************************************)
THEOREM ToCanImplementsChannel == Spec => ToCan!Safe
<1>1. Init => TypeOK /\ TxInv
  BY TypeInit, TxInit
<1>2. TypeOK /\ TxInv /\ [Next]_vars => TypeOK' /\ TxInv'
  BY TypeStep, TxStep
<1>3. Init => ToCan!ChInit
  BY DEF Init, ToCan!ChInit, SentIds
<1>4. TypeOK /\ TypeOK' /\ TxInv /\ TxInv' /\ [Next]_vars => [ToCan!ChNext]_(ToCan!chVars)
  BY ToCanStep
<1> QED
  BY <1>1, <1>2, <1>3, <1>4, PTL DEF Spec, ToCan!Safe

(***************************************************************************)
(* For the UDP-bound direction a step is the acceptance of a frame         *)
(* (ReadMbox), the delivery of a datagram (SendDatagram) or a stutter.     *)
(***************************************************************************)
LEMMA ToUdpStep ==
  ASSUME TypeOK, TypeOK', RxInv, RxInv', [Next]_vars
  PROVE  [ToUdp!ChNext]_(ToUdp!chVars)
<1>0. /\ rxLog \in Seq(Nat) /\ udpLog \in Seq(Nat) /\ dgram \in Seq(Nat)
      /\ Len(rxLog) \in Nat /\ Len(udpLog) \in Nat /\ Len(dgram) \in Nat
      /\ rxq \in Queue /\ QueueLen(rxq) \in 0 .. QCount - 1 /\ QCount \in Nat
      /\ Len(udpLog) + Len(dgram) + QueueLen(rxq) = Len(rxLog)
  <2>1. /\ rxLog \in Seq(Nat) /\ udpLog \in Seq(Nat) /\ dgram \in Seq(Nat) /\ rxq \in Queue
    BY DEF TypeOK
  <2>2. Len(udpLog) + Len(dgram) + QueueLen(rxq) = Len(rxLog)
    BY DEF RxInv
  <2> QED
    BY <2>1, <2>2, QueueLenFacts, QCountAssumption
<1>1. CASE ReadMbox
  <2>1. /\ ~ IsFull(rxq) /\ pc = "scan" /\ UNCHANGED udpLog
        /\ rxLog' = Append(rxLog, mob[mbox])
    BY <1>1 DEF ReadMbox
  <2>2. mob[mbox] \in Nat
    <3>1. mbox \in Mboxes
      BY <1>1, CannelloniAssumption DEF ReadMbox, HasData, TypeOK, Mboxes
    <3>2. mob \in [Mboxes -> 0 .. MaxCan] /\ MaxCan \in Nat
      BY CannelloniAssumption DEF TypeOK
    <3> QED
      BY <3>1, <3>2
  <2>3. /\ Len(rxLog') = Len(rxLog) + 1
        /\ \A k \in 1 .. Len(rxLog) : rxLog'[k] = rxLog[k]
    BY <1>0, <2>1, <2>2, AppendFacts
  <2>4. Len(dgram) = 0
    <3>1. dgram = <<>>
      BY <2>1, Zenon DEF RxInv
    <3> QED
      BY <3>1
  <2>5. Len(rxLog) - Len(udpLog) < QCount - 1
    BY <1>0, <2>1, <2>4, QueueLenFacts
  <2> QED
    BY <2>1, <2>3, <2>5 DEF ToUdp!ChNext, ToUdp!Accept
<1>2. CASE SendDatagram
  <2>1. udpLog' = udpLog \o dgram /\ rxLog' = rxLog
    BY <1>2 DEF SendDatagram
  <2>2. Len(udpLog') = Len(udpLog) + Len(dgram)
    BY <1>0, <2>1
  <2>3. \A k \in 1 .. Len(udpLog') : udpLog'[k] = rxLog[k]
    BY <2>1 DEF RxInv
  <2>4. CASE Len(dgram) = 0
    <3>1. udpLog' = udpLog
      BY <1>0, <2>1, <2>4
    <3> QED
      BY <2>1, <3>1 DEF ToUdp!chVars
  <2>5. CASE Len(dgram) # 0
    <3>1. Len(udpLog') \in Len(udpLog) + 1 .. Len(rxLog)
      BY <1>0, <2>2, <2>5
    <3> QED
      BY <2>1, <2>3, <3>1 DEF ToUdp!ChNext, ToUdp!Deliver
  <2> QED
    BY <2>4, <2>5
<1>3. CASE \/ \E n \in 0 .. MaxPerPacket, valid \in BOOLEAN : UdpArrive(n, valid)
           \/ Interrupt \/ TransmitCanFrames \/ StartScan \/ EndScan \/ ReadMboxFull
           \/ UdpIdle \/ AllocFails \/ StartDatagram \/ AddFrame \/ CanTxDone \/ CanArrive
           \/ UNCHANGED vars
  <2>1. UNCHANGED <<rxLog, udpLog>>
    BY <1>3, Zenon DEF UdpArrive, Interrupt, IsrQueueFrame, IsrQueueFull, TransmitCanFrames,
         PeekTx, CanSend, CanSendData, TakeTx, StartScan, EndScan, ReadMboxFull, UdpIdle,
         AllocFails, StartDatagram, AddFrame, CanTxDone, CanArrive, vars, udpVars
  <2> QED
    BY <2>1 DEF ToUdp!chVars
<1> QED
  BY <1>1, <1>2, <1>3 DEF Next, MainStep, ReceiveCanFrames, TransmitUdpFrame

(***************************************************************************)
(* CAN to UDP implements the safety part of the channel: what              *)
(* on_can_receive queued is sent once and in order, and at most QCount - 1 *)
(* frames are between the mailboxes and udp_sendto.                        *)
(***************************************************************************)
THEOREM ToUdpImplementsChannel == Spec => ToUdp!Safe
<1>1. Init => TypeOK /\ RxInv
  BY TypeInit, RxInit
<1>2. TypeOK /\ RxInv /\ [Next]_vars => TypeOK' /\ RxInv'
  BY TypeStep, RxStep
<1>3. Init => ToUdp!ChInit
  BY DEF Init, ToUdp!ChInit
<1>4. TypeOK /\ TypeOK' /\ RxInv /\ RxInv' /\ [Next]_vars => [ToUdp!ChNext]_(ToUdp!chVars)
  BY ToUdpStep
<1> QED
  BY <1>1, <1>2, <1>3, <1>4, PTL DEF Spec, ToUdp!Safe
=============================================================================
