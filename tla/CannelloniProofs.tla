-------------------------- MODULE CannelloniProofs --------------------------
(***************************************************************************)
(* Proofs about one cannelloni handle, for every ring size, every number   *)
(* of mailboxes, every datagram length and every bound on the arrivals.    *)
(***************************************************************************)
EXTENDS Cannelloni, FrameQueueProofs, SequenceTheorems

\* A sequence of frame numbers numbered from 1 on is a sequence.
LEMMA NumberedSeq ==
  ASSUME NEW n \in Nat, NEW b \in Nat
  PROVE  [k \in 1 .. n |-> b + k] \in Seq(Nat)
OBVIOUS

LEMMA FunctionSeq ==
  ASSUME NEW n \in Nat, NEW f \in [1 .. n -> Nat]
  PROVE  f \in Seq(Nat) /\ Len(f) = n
<1>1. f \in Seq(Nat)
  OBVIOUS
<1>2. Len(f) \in Nat /\ DOMAIN f = 1 .. Len(f)
  BY <1>1, LenProperties
<1> QED
  BY <1>1, <1>2

-----------------------------------------------------------------------------
(* Types.                                                                  *)

LEMMA TypeInit == Init => TypeOK
<1> SUFFICES ASSUME Init PROVE TypeOK
  OBVIOUS
<1>1. 0 \in Slots /\ 0 \in 0 .. MaxCan /\ FirstMbox \in FirstMbox .. LastMbox + 1
  BY CannelloniAssumption, QCountAssumption DEF Slots
<1>2. txq \in Queue /\ rxq \in Queue
  BY <1>1 DEF Init, QueueInit, Queue
<1>3. /\ txBuf \in [Slots -> Frame] /\ rxBuf \in [Slots -> 0 .. MaxCan]
      /\ mob \in [Mboxes -> 0 .. MaxCan]
  BY <1>1 DEF Init, Frame
<1> QED
  BY <1>1, <1>2, <1>3 DEF Init, TypeOK, Stage

\* The log of frames sent grows at its end and is otherwise left alone.
LEMMA AppendFacts ==
  ASSUME NEW S, NEW s \in Seq(S), NEW e \in S
  PROVE  /\ Len(Append(s, e)) = Len(s) + 1
         /\ Append(s, e)[Len(s) + 1] = e
         /\ \A k \in 1 .. Len(s) : Append(s, e)[k] = s[k]
OBVIOUS

\* What the proofs below need of the types of ring slots and mailboxes.
LEMMA TypeFacts ==
  ASSUME TypeOK
  PROVE  /\ txq.head \in Slots /\ txq.tail \in Slots
         /\ rxq.head \in Slots /\ rxq.tail \in Slots
         /\ txBuf[txq.head] \in Frame
         /\ rxBuf[rxq.head] \in 0 .. MaxCan
         /\ Dlen[rxBuf[rxq.head]] \in 0 .. 8
         /\ 0 \in 0 .. MaxCan
<1>1. /\ txq.head \in Slots /\ txq.tail \in Slots
      /\ rxq.head \in Slots /\ rxq.tail \in Slots
  BY DEF TypeOK, Queue
<1>2. txBuf[txq.head] \in Frame /\ rxBuf[rxq.head] \in 0 .. MaxCan
  BY <1>1 DEF TypeOK
<1> QED
  BY <1>1, <1>2, CannelloniAssumption DEF MaxDlen

LEMMA TypeStep ==
  ASSUME TypeOK, [Next]_vars
  PROVE  TypeOK'
<1>1. ASSUME NEW n \in 0 .. MaxPerPacket, NEW valid \in BOOLEAN, UdpArrive(n, valid)
      PROVE  TypeOK'
  <2>1. n \in Nat /\ udpIn \in Nat
    BY CannelloniAssumption DEF TypeOK
  <2>2. [k \in 1 .. n |-> udpIn + k] \in Seq(Nat)
    BY <2>1, NumberedSeq
  <2>3. isr' \in Seq(Nat) /\ udp_rx_count' \in Nat /\ udpIn' \in Nat
    BY <1>1, <2>1, <2>2 DEF UdpArrive, TypeOK
  <2> QED
    BY <1>1, <2>3 DEF UdpArrive, mobVars, udpVars, TypeOK
<1>2. CASE IsrQueueFrame
  <2>1. txq' \in Queue
    BY <1>2, QueuePutFacts DEF IsrQueueFrame, TypeOK
  <2>2. Head(isr) \in Nat /\ Tail(isr) \in Seq(Nat)
    <3>1. isr \in Seq(Nat) /\ isr # <<>>
      BY <1>2 DEF IsrQueueFrame, TypeOK
    <3> QED
      BY <3>1
  <2>3. txBuf' \in [Slots -> Frame]
    BY <1>2, <2>2, TypeFacts, Zenon DEF IsrQueueFrame, Frame, TypeOK
  <2>4. accepted' \in Seq(Nat)
    BY <1>2, <2>2 DEF IsrQueueFrame, TypeOK
  <2> QED
    BY <1>2, <2>1, <2>2, <2>3, <2>4, Zenon DEF IsrQueueFrame, mobVars, udpVars, TypeOK
<1>3. CASE IsrQueueFull
  BY <1>3 DEF IsrQueueFull, mobVars, udpVars, TypeOK
<1>4. CASE PeekTx
  BY <1>4 DEF PeekTx, txVars, mobVars, udpVars, TypeOK, Stage
<1>5. CASE CanSend
  <2>1. hdr' \in Nat
    BY <1>5, TypeFacts DEF CanSend, Frame
  <2> QED
    BY <1>5, <2>1 DEF CanSend, mobVars, udpVars, TypeOK, Stage
<1>6. CASE CanSendData
  <2>1. [hdr |-> hdr, data |-> txBuf[txq.head].data] \in Frame
    BY TypeFacts, Zenon DEF Frame, TypeOK
  <2>2. canLog' \in Seq(Frame)
    BY <1>6, <2>1 DEF CanSendData, TypeOK
  <2> QED
    BY <1>6, <2>2 DEF CanSendData, mobVars, udpVars, TypeOK, Stage
<1>7. CASE TakeTx
  <2>1. txq' \in Queue
    BY <1>7, TypeFacts, SuccWraps, Zenon DEF TakeTx, QueueTake, Queue, TypeOK
  <2> QED
    BY <1>7, <2>1 DEF TakeTx, mobVars, udpVars, TypeOK, Stage
<1>8. CASE StartScan
  <2>1. FirstPolled \in FirstMbox .. LastMbox + 1
    BY CannelloniAssumption DEF FirstPolled
  <2>2. scanBase' \in Nat
    BY <1>8, CannelloniAssumption DEF StartScan, TypeOK
  <2>3. pc' \in Stage /\ stored' \in BOOLEAN
    BY <1>8, Zenon DEF StartScan, Stage
  <2> QED
    BY <1>8, <2>1, <2>2, <2>3, Zenon DEF StartScan, txVars, udpVars, TypeOK
<1>9. CASE EndScan
  BY <1>9 DEF EndScan, txVars, mobVars, udpVars, TypeOK, Stage
<1>10. CASE ReadMbox
  <2>1. mbox \in Mboxes /\ mbox' \in FirstMbox .. LastMbox + 1
    BY <1>10, CannelloniAssumption DEF ReadMbox, HasData, Mboxes, TypeOK
  <2>2. rxq' \in Queue
    BY <1>10, QueuePutFacts DEF ReadMbox, TypeOK
  <2>3. mob' \in [Mboxes -> 0 .. MaxCan] /\ mob[mbox] \in 0 .. MaxCan
    BY <1>10, <2>1, TypeFacts DEF ReadMbox, TypeOK
  <2>4. rxBuf' \in [Slots -> 0 .. MaxCan]
    BY <1>10, <2>3, TypeFacts DEF ReadMbox, TypeOK
  <2>5. rxLog' \in Seq(Nat)
    BY <1>10, <2>3, CannelloniAssumption DEF ReadMbox, TypeOK
  <2> QED
    BY <1>10, <2>1, <2>2, <2>3, <2>4, <2>5 DEF ReadMbox, txVars, TypeOK
<1>11. CASE ReadMboxFull
  <2>1. mob' \in [Mboxes -> 0 .. MaxCan]
    BY <1>11, TypeFacts, Zenon DEF ReadMboxFull, TypeOK
  <2> QED
    BY <1>11, <2>1 DEF ReadMboxFull, txVars, TypeOK, Stage
<1>12. CASE UdpIdle
  BY <1>12 DEF UdpIdle, txVars, mobVars, udpVars, TypeOK, Stage
<1>13. CASE AllocFails
  BY <1>13 DEF AllocFails, txVars, mobVars, TypeOK, Stage
<1>14. CASE StartDatagram
  BY <1>14 DEF StartDatagram, PacketBase, txVars, mobVars, TypeOK, Stage
<1>15. CASE AddFrame
  <2>1. rxq' \in Queue
    BY <1>15, QueueTakeFacts DEF AddFrame, TypeOK
  <2>2. pos' \in Nat
    <3>1. pos \in Nat /\ pos' = pos + 5 + Dlen[rxBuf[rxq.head]]
      BY <1>15 DEF AddFrame, FrameBase, TypeOK
    <3> QED
      BY <3>1, TypeFacts
  <2>3. dgram' \in Seq(Nat)
    BY <1>15, TypeFacts, CannelloniAssumption DEF AddFrame, TypeOK
  <2> QED
    BY <1>15, <2>1, <2>2, <2>3, SMTT(20) DEF AddFrame, txVars, mobVars, TypeOK
<1>16. CASE SendDatagram
  <2>1. seq_no' \in 0 .. 255
    BY <1>16 DEF SendDatagram, TypeOK
  <2>2. udpLog' \in Seq(Nat) /\ dgram' \in Seq(Nat)
    BY <1>16 DEF SendDatagram, TypeOK
  <2> QED
    BY <1>16, <2>1, <2>2 DEF SendDatagram, txVars, mobVars, TypeOK, Stage
<1>17. CASE CanTxDone
  BY <1>17, Zenon DEF CanTxDone, mobVars, udpVars, TypeOK
<1>18. CASE CanArrive
  <2>1. canIn' \in 0 .. MaxCan
    BY <1>18, CannelloniAssumption DEF CanArrive, TypeOK
  <2>2. mob' \in [Mboxes -> 0 .. MaxCan]
    BY <1>18, <2>1 DEF CanArrive, TypeOK
  <2> QED
    BY <1>18, <2>1, <2>2, SMTT(20) DEF CanArrive, txVars, udpVars, TypeOK
<1>19. CASE UNCHANGED vars
  BY <1>19, SMTT(20) DEF vars, txVars, mobVars, udpVars, TypeOK
<1> QED
  BY <1>1, <1>2, <1>3, <1>4, <1>5, <1>6, <1>7, <1>8, <1>9, <1>10, <1>11, <1>12, <1>13,
     <1>14, <1>15, <1>16, <1>17, <1>18, <1>19
     DEF Next, Interrupt, MainStep, TransmitCanFrames, ReceiveCanFrames, TransmitUdpFrame

\* In every reachable state the variables have their types.
THEOREM TypeCorrect == Spec => []TypeOK
<1>1. Init => TypeOK
  BY TypeInit
<1>2. TypeOK /\ [Next]_vars => TypeOK'
  BY TypeStep
<1> QED
  BY <1>1, <1>2, PTL DEF Spec

-----------------------------------------------------------------------------
(* The receive mailboxes.                                                  *)

LEMMA MobInit == Init => MobInv
<1> SUFFICES ASSUME Init PROVE MobInv
  OBVIOUS
<1>1. \A m \in Mboxes : mob[m] = 0
  BY DEF Init
<1> QED
  BY <1>1 DEF Init, MobInv, Held

\* Steps that leave the mailboxes and the scan alone.
LEMMA MobQuiet ==
  ASSUME TypeOK, MobInv,
         UNCHANGED <<mob, mbox, canIn, scanBase, rxDropped>>,
         pc = "scan" <=> pc' = "scan"
  PROVE  MobInv'
BY DEF MobInv, Held

LEMMA MobStep ==
  ASSUME TypeOK, MobInv, [Next]_vars
  PROVE  MobInv'
<1> USE CannelloniAssumption
<1>0. /\ canIn \in Nat /\ mbox \in Nat /\ scanBase \in Nat /\ mob \in [Mboxes -> Nat]
      /\ FirstMbox <= mbox /\ mbox <= LastMbox + 1
  BY DEF TypeOK
<1>1. CASE StartScan
  <2>1. /\ UNCHANGED <<mob, canIn, rxDropped>> /\ scanBase' = canIn
        /\ pc' = "scan" /\ pc # "scan" /\ mbox' = FirstMbox
    BY <1>1 DEF StartScan, FirstPolled, udpVars
  <2> QED
    BY <1>0, <2>1 DEF MobInv, Held, Mboxes
<1>2. CASE EndScan
  <2>1. /\ UNCHANGED <<mob, mbox, canIn, scanBase, rxDropped>>
        /\ pc = "scan" /\ pc' = "udp" /\ ~ HasData
    BY <1>2 DEF EndScan, mobVars, udpVars
  <2>2. ~ rxDropped => \A m \in Held : m < mbox
    BY <1>0, <2>1, SMTT(20) DEF MobInv, Held, Mboxes, HasData
  <2> QED
    BY <1>0, <2>1, <2>2 DEF MobInv, Held, Mboxes
<1>3. CASE ReadMbox
  <2>1. /\ mob' = [mob EXCEPT ![mbox] = 0] /\ mbox' = mbox + 1
        /\ UNCHANGED <<canIn, scanBase, rxDropped, pc>> /\ pc = "scan"
        /\ mbox \in Mboxes
    BY <1>0, <1>3 DEF ReadMbox, HasData, Mboxes
  <2> QED
    BY <1>0, <2>1 DEF MobInv, Held, Mboxes
<1>4. CASE ReadMboxFull
  <2>1. /\ mob' = [mob EXCEPT ![mbox] = 0] /\ UNCHANGED <<canIn, scanBase>>
        /\ rxDropped' = TRUE
    BY <1>4 DEF ReadMboxFull
  <2> QED
    BY <1>0, <2>1 DEF MobInv, Held, Mboxes
<1>5. CASE CanArrive
  <2>1. /\ canIn' = canIn + 1 /\ UNCHANGED <<pc, mbox, scanBase, rxDropped>>
    BY <1>5 DEF CanArrive, udpVars
  <2>2. PICK m \in Mboxes :
          /\ \/ m \in Free /\ \A k \in Free : m <= k
             \/ Free = {} /\ m = LastMbox
          /\ mob' = [mob EXCEPT ![m] = canIn + 1]
    BY <1>5, Zenon DEF CanArrive
  <2>3. \A k \in Mboxes : k < m => mob[k] # 0
    <3> SUFFICES ASSUME NEW k \in Mboxes, k < m, mob[k] = 0 PROVE FALSE
      OBVIOUS
    <3>1. k \in Free
      BY DEF Free
    <3>2. m <= k
      BY <2>2, <3>1
    <3>3. k \in Int /\ m \in Int
      BY <1>0, <2>2 DEF Mboxes
    <3> QED
      BY <3>2, <3>3
  <2>4. ~ rxDropped => \A k \in Mboxes : k > m /\ mob[k] # 0 =>
                          pc = "scan" /\ k >= mbox /\ m < mbox
    BY <1>0, <2>2, <2>3 DEF Free, Mboxes, MobInv, Held
  <2>5. m \in Nat /\ \A k \in Mboxes : k \in Nat /\ mob'[k] = IF k = m THEN canIn + 1 ELSE mob[k]
    BY <1>0, <2>2 DEF Mboxes
  <2>6. \A k \in Mboxes : mob[k] < canIn + 1
    BY <1>0 DEF MobInv
  <2>7. (\A k \in Mboxes : mob[k] <= canIn)' /\ (scanBase <= canIn)'
    BY <1>0, <2>1, <2>5, <2>6 DEF MobInv
  <2>8. ASSUME ~ rxDropped, NEW a \in Mboxes, mob'[a] # 0,
               NEW b \in (IF pc = "scan" /\ a >= mbox THEN mbox ELSE FirstMbox) .. a - 1
        PROVE  mob'[b] # 0 /\ mob'[b] < mob'[a]
    <3>1. b \in Mboxes /\ b < a /\ b \in Nat /\ a \in Nat
      BY <1>0, <2>8 DEF Mboxes
    <3>2. CASE a = m
      BY <1>0, <2>3, <2>5, <2>6, <3>1, <3>2
    <3>3. CASE a # m /\ b # m
      BY <1>0, <2>5, <2>8, <3>1, <3>3 DEF MobInv, Held
    <3>4. CASE a # m /\ b = m
      BY <1>0, <2>4, <2>5, <2>8, <3>1, <3>4
    <3> QED
      BY <3>2, <3>3, <3>4
  <2>9. ASSUME ~ rxDropped, pc = "scan", NEW a \in Mboxes, mob'[a] # 0, a < mbox
        PROVE  mob'[a] > scanBase
    BY <1>0, <2>5, <2>9, SMTT(20) DEF MobInv, Held
  <2> QED
    BY <2>1, <2>7, <2>8, <2>9 DEF MobInv, Held, Mboxes
<1>6. CASE \/ \E n \in 0 .. MaxPerPacket, valid \in BOOLEAN : UdpArrive(n, valid)
           \/ Interrupt \/ TransmitCanFrames \/ TransmitUdpFrame \/ CanTxDone
           \/ UNCHANGED vars
  BY <1>6, MobQuiet
     DEF UdpArrive, Interrupt, IsrQueueFrame, IsrQueueFull, TransmitCanFrames, PeekTx,
         CanSend, CanSendData, TakeTx, TransmitUdpFrame, UdpIdle, AllocFails,
         StartDatagram, AddFrame, SendDatagram, CanTxDone, vars, mobVars, udpVars
<1> QED
  BY <1>1, <1>2, <1>3, <1>4, <1>5, <1>6 DEF Next, MainStep, ReceiveCanFrames

\* The mailbox scan leaves no frame behind a gap: see NoStranding.
THEOREM NoStrandingCorrect == Spec => []NoStranding
<1>1. Init => TypeOK /\ MobInv
  BY TypeInit, MobInit
<1>2. TypeOK /\ MobInv /\ [Next]_vars => TypeOK' /\ MobInv'
  BY TypeStep, MobStep
<1>3. TypeOK /\ MobInv => NoStranding
  <2> SUFFICES ASSUME TypeOK, MobInv, pc # "scan", ~ rxDropped,
                      NEW m \in Held, NEW k \in FirstMbox .. m
               PROVE  k \in Held
    BY DEF NoStranding
  <2>1. m \in Mboxes /\ mob[m] # 0 /\ k \in Mboxes
    BY CannelloniAssumption DEF Held, Mboxes
  <2>2. k = m \/ k \in FirstMbox .. m - 1
    BY <2>1, CannelloniAssumption DEF Mboxes
  <2> QED
    BY <2>1, <2>2 DEF MobInv, Held
<1> QED
  BY <1>1, <1>2, <1>3, PTL DEF Spec

\* A frame that waits when a scan begins is not overtaken: see NoOvertakingWaiting.
THEOREM NoOvertakingCorrect == Spec => NoOvertakingWaiting
<1>1. Init => TypeOK /\ MobInv
  BY TypeInit, MobInit
<1>2. TypeOK /\ MobInv /\ [Next]_vars => TypeOK' /\ MobInv'
  BY TypeStep, MobStep
<1>3. TypeOK /\ MobInv =>
        [ReadMbox /\ ~ rxDropped =>
           \A m \in Held : mob[m] < mob[mbox] => mob[m] > scanBase]_vars
  <2> SUFFICES ASSUME TypeOK, MobInv, ReadMbox, ~ rxDropped,
                      NEW m \in Held, mob[m] < mob[mbox]
               PROVE  mob[m] > scanBase
    OBVIOUS
  <2>1. /\ pc = "scan" /\ mbox \in Mboxes /\ mob[mbox] # 0
        /\ m \in Mboxes /\ mob[m] \in Nat /\ mob[mbox] \in Nat
    BY CannelloniAssumption DEF ReadMbox, HasData, Held, Mboxes, TypeOK
  <2>2. m < mbox
    <3> SUFFICES ASSUME m >= mbox PROVE FALSE
      BY <2>1, CannelloniAssumption DEF Mboxes
    <3>1. m = mbox \/ mbox \in mbox .. m - 1
      BY <2>1, CannelloniAssumption DEF Mboxes
    <3> QED
      BY <2>1, <3>1 DEF MobInv
  <2> QED
    BY <2>1, <2>2 DEF MobInv
<1> QED
  BY <1>1, <1>2, <1>3, PTL DEF Spec, NoOvertakingWaiting

-----------------------------------------------------------------------------
(* From UDP to CAN.                                                        *)

LEMMA TxInit == Init => TxInv
<1> SUFFICES ASSUME Init PROVE TxInv
  OBVIOUS
<1>1. txq.head = 0 /\ txq.tail = 0 /\ QueueLen(txq) = 0
  BY QCountAssumption DEF Init, QueueInit, QueueLen
<1> QED
  BY <1>1 DEF Init, TxInv, Taking

\* Steps that leave the CAN-bound direction alone.
LEMMA TxQuiet ==
  ASSUME TxInv, UNCHANGED <<txq, txBuf, accepted, canLog>>,
         \/ UNCHANGED <<pc, hdr>>
         \/ pc \notin {"send", "copy", "take"} /\ pc' \notin {"send", "copy", "take"}
  PROVE  TxInv'
<1>1. Taking' = Taking
  BY DEF Taking
<1> QED
  BY <1>1 DEF TxInv

LEMMA TxStep ==
  ASSUME TypeOK, TxInv, [Next]_vars
  PROVE  TxInv'
<1>0. /\ txq \in Queue /\ txBuf \in [Slots -> Frame]
      /\ accepted \in Seq(Nat) /\ canLog \in Seq(Frame)
      /\ Len(accepted) \in Nat /\ Len(canLog) \in Nat
      /\ QueueLen(txq) \in 0 .. QCount - 1
      /\ Taking \in {0, 1} /\ (pc = "take" <=> Taking = 1)
  BY QueueLenFacts DEF TypeOK, Taking
<1>1. CASE IsrQueueFrame
  <2> DEFINE f == Head(isr)
  <2>1. /\ ~ IsFull(txq) /\ txq' = QueuePut(txq) /\ accepted' = Append(accepted, f)
        /\ UNCHANGED <<pc, hdr, canLog>>
        /\ txBuf' = [txBuf EXCEPT ![txq.tail] =
                       [hdr |-> f, data |-> IF f \in RtrFrames THEN @.data ELSE f]]
    BY <1>1 DEF IsrQueueFrame
  <2>2. f \in Nat
    <3>1. isr \in Seq(Nat) /\ isr # <<>>
      BY <1>1 DEF IsrQueueFrame, TypeOK
    <3> QED
      BY <3>1
  <2>3. Taking' = Taking
    BY <2>1 DEF Taking
  <2>4. /\ QueueLen(txq') = QueueLen(txq) + 1
        /\ SlotAt(txq', QueueLen(txq)) = txq.tail
        /\ txq.tail \in Slots
        /\ txq'.head = txq.head
        /\ \A k \in 0 .. QueueLen(txq) - 1 :
              /\ SlotAt(txq, k) \in Slots /\ SlotAt(txq, k) # txq.tail
              /\ SlotAt(txq', k) = SlotAt(txq, k)
    BY <1>0, <2>1, QueuePutFacts, Zenon DEF QueuePut, Queue
  <2>5. /\ Len(accepted') = Len(accepted) + 1
        /\ accepted'[Len(accepted) + 1] = f
        /\ \A k \in 1 .. Len(accepted) : accepted'[k] = accepted[k]
    BY <1>0, <2>1, <2>2
  <2>6. /\ \A s \in Slots : s # txq.tail => txBuf'[s] = txBuf[s]
        /\ txBuf'[txq.tail].hdr = f
        /\ f \notin RtrFrames => txBuf'[txq.tail].data = f
    BY <1>0, <2>1, <2>4
  <2>7. ASSUME NEW k \in 0 .. QueueLen(txq') - 1
        PROVE  LET g == accepted'[Len(canLog) - Taking + 1 + k]
                   s == txBuf'[SlotAt(txq', k)]
               IN  s.hdr = g /\ (g \notin RtrFrames => s.data = g)
    <3>1. Len(canLog) - Taking + QueueLen(txq) = Len(accepted) /\ Taking <= Len(canLog)
      BY <1>0 DEF TxInv
    <3>2. CASE k = QueueLen(txq)
      <4>1. Len(canLog) - Taking + 1 + k = Len(accepted) + 1
        BY <1>0, <3>1, <3>2
      <4> QED
        BY <2>4, <2>5, <2>6, <3>2, <4>1
    <3>3. CASE k \in 0 .. QueueLen(txq) - 1
      <4>1. Len(canLog) - Taking + 1 + k \in 1 .. Len(accepted)
        BY <1>0, <3>1, <3>3
      <4> QED
        BY <2>4, <2>5, <2>6, <3>3, <4>1 DEF TxInv
    <3> QED
      BY <1>0, <2>4, <3>2, <3>3
  <2>8. \A k \in 1 .. Len(canLog) : k \in 1 .. Len(accepted)
    BY <1>0, QueueLenFacts DEF TxInv
  <2>9. ~ IsEmpty(txq) => ~ IsEmpty(txq') /\ txBuf'[txq'.head] = txBuf[txq.head]
    <3>1. txq' \in Queue
      BY <1>0, <2>1, QueuePutFacts
    <3>2. ~ IsEmpty(txq')
      BY <1>0, <2>4, <3>1, QueueLenFacts
    <3>3. txq.head \in Slots /\ (~ IsEmpty(txq) => txq.head # txq.tail)
      BY <1>0 DEF Queue, IsEmpty
    <3> QED
      BY <2>4, <2>6, <3>2, <3>3
  <2>10. Len(canLog') + QueueLen(txq') = Len(accepted') + Taking' /\ Taking' <= Len(canLog')
    BY <1>0, <2>1, <2>3, <2>4, <2>5 DEF TxInv
  <2> QED
    BY <2>1, <2>3, <2>5, <2>7, <2>8, <2>9, <2>10, ZenonT(30) DEF TxInv
<1>2. CASE PeekTx
  <2>1. /\ UNCHANGED <<txq, txBuf, accepted, canLog>> /\ pc = "tx"
        /\ pc' = IF IsEmpty(txq) THEN "rx" ELSE "send"
    BY <1>2 DEF PeekTx, txVars
  <2>2. Taking' = Taking
    BY <2>1, SMTT(20) DEF Taking
  <2> QED
    BY <2>1, <2>2 DEF TxInv
<1>3. CASE CanSend
  <2>1. /\ UNCHANGED <<txq, txBuf, accepted, canLog>> /\ pc = "send"
        /\ hdr' = txBuf[txq.head].hdr /\ pc' \in {"rx", "copy"}
    BY <1>3 DEF CanSend
  <2>2. Taking' = Taking
    BY <2>1 DEF Taking
  <2> QED
    BY <2>1, <2>2 DEF TxInv
<1>4. CASE CanSendData
  <2>1. /\ UNCHANGED <<txq, txBuf, accepted>> /\ pc = "copy" /\ pc' = "take"
        /\ canLog' = Append(canLog, [hdr |-> hdr, data |-> txBuf[txq.head].data])
    BY <1>4 DEF CanSendData
  <2>2. Taking = 0 /\ Taking' = 1
    BY <2>1, SMTT(20) DEF Taking
  <2>3. ~ IsEmpty(txq) /\ QueueLen(txq) >= 1 /\ SlotAt(txq, 0) = txq.head
    <3>1. ~ IsEmpty(txq)
      BY <2>1 DEF TxInv
    <3>2. txq \in Queue /\ QueueLen(txq) \in Nat
      BY <1>0, QueueLenFacts
    <3>3. QueueLen(txq) # 0
      BY <3>1, <3>2, QueueLenFacts
    <3>4. SlotAt(txq, 0) = txq.head
      BY <3>1, <3>2, QueueTakeFacts
    <3> QED
      BY <3>1, <3>2, <3>3, <3>4
  <2>4. /\ Len(canLog') = Len(canLog) + 1
        /\ canLog'[Len(canLog) + 1] = [hdr |-> hdr, data |-> txBuf[txq.head].data]
        /\ \A k \in 1 .. Len(canLog) : canLog'[k] = canLog[k]
    <3>1. /\ canLog \in Seq(Frame)
          /\ [hdr |-> hdr, data |-> txBuf[txq.head].data] \in Frame
      BY TypeFacts, Zenon DEF Frame, TypeOK
    <3> QED
      BY <2>1, <3>1, AppendFacts, ZenonT(40)
  <2>5. LET f == accepted[Len(canLog) + 1]
        IN  hdr = f /\ (f \notin RtrFrames => txBuf[txq.head].data = f)
    BY <1>0, <2>1, <2>2, <2>3, SMTT(20) DEF TxInv
  <2>6. ASSUME NEW k \in 1 .. Len(canLog')
        PROVE  /\ canLog'[k].hdr = accepted[k]
               /\ accepted[k] \notin RtrFrames => canLog'[k].data = accepted[k]
    <3>1. CASE k = Len(canLog) + 1
      BY <2>4, <2>5, <3>1
    <3>2. CASE k \in 1 .. Len(canLog)
      BY <2>4, <3>2 DEF TxInv
    <3> QED
      BY <1>0, <2>4, <3>1, <3>2
  <2>7. /\ Len(canLog') + QueueLen(txq) = Len(accepted) + Taking' /\ Taking' <= Len(canLog')
        /\ Len(canLog') - Taking' = Len(canLog) - Taking
    <3>1. Len(canLog) + QueueLen(txq) = Len(accepted) + Taking
      BY DEF TxInv
    <3>2. Len(canLog') = Len(canLog) + 1
      BY <2>4
    <3> HIDE DEF Taking
    <3> QED
      BY <1>0, <2>2, <3>1, <3>2
  <2> QED
    BY <2>1, <2>3, <2>6, <2>7 DEF TxInv
<1>5. CASE TakeTx
  <2>1. /\ UNCHANGED <<txBuf, accepted, canLog>> /\ pc = "take" /\ pc' = "tx"
        /\ txq' = QueueTake(txq) /\ ~ IsEmpty(txq)
    BY <1>5 DEF TakeTx, TxInv
  <2>2. Taking = 1 /\ Taking' = 0
    BY <2>1 DEF Taking
  <2>3. /\ QueueLen(txq') = QueueLen(txq) - 1
        /\ \A k \in 0 .. QueueLen(txq) - 2 : SlotAt(txq', k) = SlotAt(txq, k + 1)
    BY <1>0, <2>1, QueueTakeFacts
  <2>4. ASSUME NEW k \in 0 .. QueueLen(txq') - 1
        PROVE  LET g == accepted[Len(canLog) + 1 + k]
                   s == txBuf[SlotAt(txq', k)]
               IN  s.hdr = g /\ (g \notin RtrFrames => s.data = g)
    <3>1. /\ k + 1 \in 0 .. QueueLen(txq) - 1 /\ k \in 0 .. QueueLen(txq) - 2
          /\ Len(canLog) - Taking + 1 + (k + 1) = Len(canLog) + 1 + k
      BY <1>0, <2>2, <2>3
    <3> QED
      BY <2>3, <3>1 DEF TxInv
  <2>5. Len(canLog') + QueueLen(txq') = Len(accepted') + Taking' /\ Taking' <= Len(canLog')
    BY <1>0, <2>1, <2>2, <2>3 DEF TxInv
  <2>6. \A k \in 0 .. QueueLen(txq') - 1 :
          LET g == accepted'[Len(canLog') - Taking' + 1 + k]
              s == txBuf'[SlotAt(txq', k)]
          IN  s.hdr = g /\ (g \notin RtrFrames => s.data = g)
    <3>1. Len(canLog') - Taking' = Len(canLog)
      BY <1>0, <2>1, <2>2, SMTT(20)
    <3> QED
      BY <2>1, <2>4, <3>1
  <2> QED
    BY <2>1, <2>5, <2>6 DEF TxInv
<1>6. CASE \/ \E n \in 0 .. MaxPerPacket, valid \in BOOLEAN : UdpArrive(n, valid)
           \/ IsrQueueFull \/ ReceiveCanFrames \/ TransmitUdpFrame
           \/ CanTxDone \/ CanArrive \/ UNCHANGED vars
  BY <1>6, TxQuiet, Zenon
     DEF UdpArrive, IsrQueueFull, ReceiveCanFrames, StartScan, EndScan, ReadMbox,
         ReadMboxFull, TransmitUdpFrame, UdpIdle, AllocFails, StartDatagram, AddFrame,
         SendDatagram, CanTxDone, CanArrive, vars, txVars
<1> QED
  BY <1>1, <1>2, <1>3, <1>4, <1>5, <1>6
     DEF Next, Interrupt, MainStep, TransmitCanFrames

\* The controller gets the accepted frames, intact and in order: see TxFifo.
THEOREM TxFifoCorrect == Spec => []TxFifo
<1>1. Init => TypeOK /\ TxInv
  BY TypeInit, TxInit
<1>2. TypeOK /\ TxInv /\ [Next]_vars => TypeOK' /\ TxInv'
  BY TypeStep, TxStep
<1>3. TypeOK /\ TxInv => TxFifo
  <2> SUFFICES ASSUME TypeOK, TxInv PROVE Len(canLog) <= Len(accepted)
    BY Zenon DEF TxFifo, TxInv
  <2>1. QueueLen(txq) \in Nat /\ (~ IsEmpty(txq) => QueueLen(txq) >= 1)
    BY QueueLenFacts, QCountAssumption DEF TypeOK
  <2>2. Len(canLog) \in Nat /\ Len(accepted) \in Nat
    BY DEF TypeOK
  <2>3. Len(canLog) + QueueLen(txq) = Len(accepted) + Taking
    BY DEF TxInv
  <2>4. CASE pc = "take"
    <3>1. Taking = 1 /\ QueueLen(txq) >= 1
      BY <2>1, <2>4 DEF TxInv, Taking
    <3> QED
      BY <2>1, <2>2, <2>3, <3>1
  <2>5. CASE pc # "take"
    <3>1. Taking = 0
      BY <2>5 DEF Taking
    <3> QED
      BY <2>1, <2>2, <2>3, <3>1
  <2> QED
    BY <2>4, <2>5, SMTT(20)
<1> QED
  BY <1>1, <1>2, <1>3, PTL DEF Spec

\* The interrupt drops frames only on a full ring: see TxDropsOnlyWhenFull.
THEOREM TxDropsCorrect == Spec => TxDropsOnlyWhenFull
<1>1. Init => TypeOK /\ TxInv
  BY TypeInit, TxInit
<1>2. TypeOK /\ TxInv /\ [Next]_vars => TypeOK' /\ TxInv'
  BY TypeStep, TxStep
<1>3. TypeOK /\ TxInv =>
        [IsrQueueFull => Len(accepted) - Len(canLog) >=
                           QCount - 1 - (IF pc = "take" THEN 1 ELSE 0)]_vars
  <2> SUFFICES ASSUME TypeOK, TxInv, IsFull(txq)
               PROVE  Len(accepted) - Len(canLog) >=
                        QCount - 1 - (IF pc = "take" THEN 1 ELSE 0)
    BY DEF IsrQueueFull
  <2>1. QueueLen(txq) = QCount - 1
    BY QueueLenFacts DEF TypeOK
  <2>2. Len(canLog) \in Nat /\ Len(accepted) \in Nat
    BY SMTT(20) DEF TypeOK
  <2>3. Len(canLog) + QueueLen(txq) = Len(accepted) + (IF pc = "take" THEN 1 ELSE 0)
    BY DEF TxInv, Taking
  <2> QED
    BY <2>1, <2>2, <2>3, QCountAssumption
<1> QED
  BY <1>1, <1>2, <1>3, PTL DEF Spec, TxDropsOnlyWhenFull

-----------------------------------------------------------------------------
(* From CAN to UDP.                                                        *)

LEMMA RxInit == Init => RxInv
<1> SUFFICES ASSUME Init PROVE RxInv
  OBVIOUS
<1>1. rxq.head = 0 /\ rxq.tail = 0 /\ QueueLen(rxq) = 0
  BY QCountAssumption DEF Init, QueueInit, QueueLen
<1> QED
  BY <1>1 DEF Init, RxInv

LEMMA RxStep ==
  ASSUME TypeOK, RxInv, [Next]_vars
  PROVE  RxInv'
<1>0. /\ rxq \in Queue /\ rxBuf \in [Slots -> 0 .. MaxCan]
      /\ rxLog \in Seq(Nat) /\ udpLog \in Seq(Nat) /\ dgram \in Seq(Nat)
      /\ Len(rxLog) \in Nat /\ Len(udpLog) \in Nat /\ Len(dgram) \in Nat
      /\ QueueLen(rxq) \in 0 .. QCount - 1
      /\ Len(udpLog) + Len(dgram) + QueueLen(rxq) = Len(rxLog)
  <2>1. /\ rxq \in Queue /\ rxBuf \in [Slots -> 0 .. MaxCan]
        /\ rxLog \in Seq(Nat) /\ udpLog \in Seq(Nat) /\ dgram \in Seq(Nat)
    BY DEF TypeOK
  <2>2. Len(udpLog) + Len(dgram) + QueueLen(rxq) = Len(rxLog)
    BY DEF RxInv
  <2> QED
    BY <2>1, <2>2, QueueLenFacts
<1>1. CASE ReadMbox
  <2> DEFINE f == mob[mbox]
  <2>1. /\ ~ IsFull(rxq) /\ rxq' = QueuePut(rxq) /\ rxLog' = Append(rxLog, f)
        /\ rxBuf' = [rxBuf EXCEPT ![rxq.tail] = f]
        /\ UNCHANGED <<pc, dgram, udpLog>>
    BY <1>1 DEF ReadMbox
  <2>2. f \in Nat
    <3>1. mbox \in Mboxes
      BY <1>1, CannelloniAssumption DEF ReadMbox, HasData, TypeOK, Mboxes
    <3>2. mob \in [Mboxes -> 0 .. MaxCan] /\ MaxCan \in Nat
      BY CannelloniAssumption DEF TypeOK
    <3> QED
      BY <3>1, <3>2
  <2>3. /\ QueueLen(rxq') = QueueLen(rxq) + 1
        /\ SlotAt(rxq', QueueLen(rxq)) = rxq.tail
        /\ rxq.tail \in Slots
        /\ \A k \in 0 .. QueueLen(rxq) - 1 :
              /\ SlotAt(rxq, k) \in Slots /\ SlotAt(rxq, k) # rxq.tail
              /\ SlotAt(rxq', k) = SlotAt(rxq, k)
    BY <1>0, <2>1, QueuePutFacts DEF Queue
  <2>4. /\ Len(rxLog') = Len(rxLog) + 1
        /\ rxLog'[Len(rxLog) + 1] = f
        /\ \A k \in 1 .. Len(rxLog) : rxLog'[k] = rxLog[k]
    BY <1>0, <2>1, <2>2
  <2>5. /\ \A s \in Slots : s # rxq.tail => rxBuf'[s] = rxBuf[s]
        /\ rxBuf'[rxq.tail] = f
    BY <1>0, <2>1, <2>3
  <2>6. ASSUME NEW k \in 0 .. QueueLen(rxq') - 1
        PROVE  rxBuf'[SlotAt(rxq', k)] = rxLog'[Len(udpLog) + Len(dgram) + 1 + k]
    <3>1. CASE k = QueueLen(rxq)
      <4>1. Len(udpLog) + Len(dgram) + 1 + k = Len(rxLog) + 1
        BY <1>0, <3>1
      <4> QED
        BY <2>3, <2>4, <2>5, <3>1, <4>1
    <3>2. CASE k \in 0 .. QueueLen(rxq) - 1
      <4>1. Len(udpLog) + Len(dgram) + 1 + k \in 1 .. Len(rxLog)
        BY <1>0, <3>2
      <4>2. rxBuf[SlotAt(rxq, k)] = rxLog[Len(udpLog) + Len(dgram) + 1 + k]
        BY <3>2 DEF RxInv
      <4>3. rxBuf'[SlotAt(rxq', k)] = rxBuf[SlotAt(rxq, k)]
        BY <2>3, <2>5, <3>2
      <4> QED
        BY <2>4, <4>1, <4>2, <4>3
    <3>3. k = QueueLen(rxq) \/ k \in 0 .. QueueLen(rxq) - 1
      <4>1. QueueLen(rxq) \in Nat
        BY <1>0
      <4>2. k \in 0 .. (QueueLen(rxq) + 1) - 1
        BY <2>3
      <4> QED
        BY <4>1, <4>2
    <3> QED
      BY <3>1, <3>2, <3>3
  <2>7. /\ \A k \in 1 .. Len(udpLog) : k \in 1 .. Len(rxLog)
        /\ \A k \in 1 .. Len(dgram) : Len(udpLog) + k \in 1 .. Len(rxLog)
    BY <1>0, SMTT(20)
  <2>8. Len(udpLog') + Len(dgram') + QueueLen(rxq') = Len(rxLog')
    BY <1>0, <2>1, <2>3, <2>4
  <2>9. /\ \A k \in 1 .. Len(udpLog) : udpLog[k] = rxLog'[k]
        /\ \A k \in 1 .. Len(dgram) : dgram[k] = rxLog'[Len(udpLog) + k]
    BY <2>4, <2>7, Zenon DEF RxInv
  <2> QED
    BY <2>1, <2>6, <2>8, <2>9, ZenonT(30) DEF RxInv
<1>2. CASE AddFrame
  <2> DEFINE f == rxBuf[rxq.head]
  <2>1. /\ ~ IsEmpty(rxq) /\ rxq' = QueueTake(rxq) /\ dgram' = Append(dgram, f)
        /\ pc = "fill" /\ UNCHANGED <<pc, rxBuf, rxLog, udpLog>>
    BY <1>2 DEF AddFrame
  <2>2. /\ QueueLen(rxq') = QueueLen(rxq) - 1 /\ QueueLen(rxq) >= 1
        /\ SlotAt(rxq, 0) = rxq.head
        /\ \A k \in 0 .. QueueLen(rxq) - 2 : SlotAt(rxq', k) = SlotAt(rxq, k + 1)
    BY <1>0, <2>1, QueueLenFacts, QueueTakeFacts, SMTT(20)
  <2>3. f = rxLog[Len(udpLog) + Len(dgram) + 1]
    <3>1. 0 \in 0 .. QueueLen(rxq) - 1
          /\ Len(udpLog) + Len(dgram) + 1 + 0 = Len(udpLog) + Len(dgram) + 1
      BY <1>0, <2>2
    <3>2. rxBuf[SlotAt(rxq, 0)] = rxLog[Len(udpLog) + Len(dgram) + 1 + 0]
      BY <3>1 DEF RxInv
    <3> QED
      BY <2>2, <3>1, <3>2
  <2>4. /\ Len(dgram') = Len(dgram) + 1
        /\ dgram'[Len(dgram) + 1] = f
        /\ \A k \in 1 .. Len(dgram) : dgram'[k] = dgram[k]
    <3>1. f \in Nat
      BY <1>0, TypeFacts DEF Queue
    <3> QED
      BY <1>0, <2>1, <3>1
  <2>5. ASSUME NEW k \in 0 .. QueueLen(rxq') - 1
        PROVE  rxBuf[SlotAt(rxq', k)] = rxLog[Len(udpLog) + Len(dgram') + 1 + k]
    <3>1. /\ k + 1 \in 0 .. QueueLen(rxq) - 1 /\ k \in 0 .. QueueLen(rxq) - 2
          /\ Len(udpLog) + Len(dgram) + 1 + (k + 1) = Len(udpLog) + Len(dgram') + 1 + k
      BY <1>0, <2>2, <2>4
    <3>2. SlotAt(rxq', k) = SlotAt(rxq, k + 1)
      BY <2>2, <3>1
    <3>3. rxBuf[SlotAt(rxq, k + 1)] = rxLog[Len(udpLog) + Len(dgram) + 1 + (k + 1)]
      BY <3>1 DEF RxInv
    <3> QED
      BY <3>1, <3>2, <3>3
  <2>6. ASSUME NEW k \in 1 .. Len(dgram')
        PROVE  dgram'[k] = rxLog[Len(udpLog) + k]
    <3>1. CASE k = Len(dgram) + 1
      <4>1. Len(udpLog) + k = Len(udpLog) + Len(dgram) + 1
        BY <1>0, <3>1
      <4> QED
        BY <2>3, <2>4, <3>1, <4>1
    <3>2. CASE k \in 1 .. Len(dgram)
      BY <2>4, <3>2 DEF RxInv
    <3> QED
      BY <1>0, <2>4, <3>1, <3>2
  <2>7. Len(udpLog') + Len(dgram') + QueueLen(rxq') = Len(rxLog')
    BY <1>0, <2>1, <2>2, <2>4
  <2> QED
    BY <2>1, <2>5, <2>6, <2>7, SMTT(60) DEF RxInv
<1>3. CASE SendDatagram
  <2>1. /\ udpLog' = udpLog \o dgram /\ dgram' = <<>>
        /\ UNCHANGED <<rxq, rxBuf, rxLog>>
    BY <1>3 DEF SendDatagram
  <2>2. /\ Len(udpLog') = Len(udpLog) + Len(dgram) /\ Len(dgram') = 0
        /\ \A k \in 1 .. Len(udpLog) : udpLog'[k] = udpLog[k]
        /\ \A k \in Len(udpLog) + 1 .. Len(udpLog) + Len(dgram) :
              udpLog'[k] = dgram[k - Len(udpLog)]
    BY <1>0, <2>1
  <2>3. ASSUME NEW k \in 1 .. Len(udpLog')
        PROVE  udpLog'[k] = rxLog[k]
    <3>1. CASE k \in 1 .. Len(udpLog)
      BY <2>2, <3>1 DEF RxInv
    <3>2. CASE k \in Len(udpLog) + 1 .. Len(udpLog) + Len(dgram)
      <4>1. k - Len(udpLog) \in 1 .. Len(dgram) /\ Len(udpLog) + (k - Len(udpLog)) = k
        BY <1>0, <3>2
      <4> QED
        BY <2>2, <3>2, <4>1 DEF RxInv
    <3> QED
      BY <1>0, <2>2, <3>1, <3>2
  <2>4. Len(udpLog') + Len(dgram') = Len(udpLog) + Len(dgram)
    BY <1>0, <2>2
  <2>5. \A k \in 0 .. QueueLen(rxq) - 1 :
          rxBuf[SlotAt(rxq, k)] = rxLog[Len(udpLog') + Len(dgram') + 1 + k]
    BY <2>4, ZenonT(30) DEF RxInv
  <2>6. \A k \in 1 .. Len(dgram') : FALSE
    BY <2>2
  <2> QED
    BY <1>0, <2>1, <2>3, <2>4, <2>5, <2>6 DEF RxInv
<1>4. CASE StartDatagram
  <2>1. UNCHANGED <<rxq, rxBuf, rxLog, udpLog, dgram>> /\ pc = "udp" /\ pc' = "fill"
    BY <1>4 DEF StartDatagram, RxInv
  <2> QED
    BY <2>1 DEF RxInv
<1>5. CASE \/ \E n \in 0 .. MaxPerPacket, valid \in BOOLEAN : UdpArrive(n, valid)
           \/ Interrupt \/ TransmitCanFrames \/ StartScan \/ EndScan \/ ReadMboxFull
           \/ UdpIdle \/ AllocFails \/ CanTxDone \/ CanArrive \/ UNCHANGED vars
  <2>1. /\ UNCHANGED <<rxq, rxBuf, rxLog, udpLog, dgram>>
        /\ pc' = pc \/ (pc # "fill" /\ pc' # "fill")
    BY <1>5, Zenon DEF UdpArrive, Interrupt, IsrQueueFrame, IsrQueueFull, TransmitCanFrames,
         PeekTx, CanSend, CanSendData, TakeTx, StartScan, EndScan, ReadMboxFull,
         UdpIdle, AllocFails, CanTxDone, CanArrive, vars, udpVars
  <2> QED
    BY <2>1 DEF RxInv
<1> QED
  BY <1>1, <1>2, <1>3, <1>4, <1>5
     DEF Next, MainStep, ReceiveCanFrames, TransmitUdpFrame

\* Nothing read from a mailbox is lost, repeated or reordered: see RxFifo.
THEOREM RxFifoCorrect == Spec => []RxFifo
<1>1. Init => TypeOK /\ RxInv
  BY TypeInit, RxInit
<1>2. TypeOK /\ RxInv /\ [Next]_vars => TypeOK' /\ RxInv'
  BY TypeStep, RxStep
<1>3. TypeOK /\ RxInv => RxFifo
  <2> SUFFICES ASSUME TypeOK, RxInv PROVE RxFifo
    OBVIOUS
  <2> DEFINE q == [k \in 1 .. QueueLen(rxq) |-> rxBuf[SlotAt(rxq, k - 1)]]
             h == udpLog \o dgram
             a == h \o q
  <2>1. /\ rxLog \in Seq(Nat) /\ udpLog \in Seq(Nat) /\ dgram \in Seq(Nat)
        /\ rxq \in Queue /\ rxBuf \in [Slots -> 0 .. MaxCan]
        /\ QueueLen(rxq) \in Nat
    BY QueueLenFacts, QCountAssumption DEF TypeOK
  <2>2. \A k \in 1 .. QueueLen(rxq) : q[k] = rxLog[Len(udpLog) + Len(dgram) + k]
    <3> SUFFICES ASSUME NEW k \in 1 .. QueueLen(rxq)
                 PROVE  rxBuf[SlotAt(rxq, k - 1)] = rxLog[Len(udpLog) + Len(dgram) + k]
      OBVIOUS
    <3>1. /\ k - 1 \in 0 .. QueueLen(rxq) - 1
          /\ Len(udpLog) + Len(dgram) + 1 + (k - 1) = Len(udpLog) + Len(dgram) + k
      BY <2>1
    <3> QED
      BY <3>1 DEF RxInv
  <2>3. Len(udpLog) + Len(dgram) + QueueLen(rxq) = Len(rxLog)
    BY DEF RxInv
  <2>4. q \in Seq(Nat) /\ Len(q) = QueueLen(rxq)
    <3>1. ASSUME NEW k \in 1 .. QueueLen(rxq) PROVE q[k] \in Nat
      <4>1. Len(udpLog) + Len(dgram) + k \in 1 .. Len(rxLog)
        BY <2>1, <2>3
      <4> QED
        BY <2>1, <2>2, <4>1
    <3>2. q \in [1 .. QueueLen(rxq) -> Nat]
      BY <3>1
    <3> HIDE DEF q
    <3> QED
      BY <2>1, <3>2, FunctionSeq, Zenon
  <2>5. /\ h \in Seq(Nat) /\ Len(h) = Len(udpLog) + Len(dgram)
        /\ \A k \in 1 .. Len(h) : h[k] = rxLog[k]
    <3>1. h \in Seq(Nat) /\ Len(h) = Len(udpLog) + Len(dgram)
      BY <2>1
    <3>2. ASSUME NEW k \in 1 .. Len(h) PROVE h[k] = rxLog[k]
      <4>1. CASE k \in 1 .. Len(udpLog)
        <5>1. h[k] = udpLog[k]
          BY <2>1, <4>1
        <5> QED
          BY <4>1, <5>1 DEF RxInv
      <4>2. CASE k \in Len(udpLog) + 1 .. Len(udpLog) + Len(dgram)
        <5>1. h[k] = dgram[k - Len(udpLog)]
          BY <2>1, <4>2
        <5>2. k - Len(udpLog) \in 1 .. Len(dgram) /\ Len(udpLog) + (k - Len(udpLog)) = k
          BY <2>1, <4>2
        <5> QED
          BY <5>1, <5>2 DEF RxInv
      <4> QED
        BY <2>1, <3>1, <4>1, <4>2
    <3> QED
      BY <3>1, <3>2
  <2> HIDE DEF q, h
  <2>6. a \in Seq(Nat) /\ Len(a) = Len(rxLog)
    BY <2>1, <2>3, <2>4, <2>5
  <2>7. ASSUME NEW k \in 1 .. Len(a) PROVE a[k] = rxLog[k]
    <3>1. CASE k \in 1 .. Len(h)
      BY <2>4, <2>5, <3>1
    <3>2. CASE k \in Len(h) + 1 .. Len(h) + Len(q)
      <4>1. a[k] = q[k - Len(h)]
        BY <2>4, <2>5, <3>2
      <4>2. k - Len(h) \in 1 .. QueueLen(rxq)
            /\ Len(udpLog) + Len(dgram) + (k - Len(h)) = k
        BY <2>1, <2>4, <2>5, <3>2
      <4> QED
        BY <2>2, <4>1, <4>2
    <3> QED
      BY <2>3, <2>4, <2>5, <2>6, <3>1, <3>2
  <2>8. a = rxLog
    BY <2>1, <2>6, <2>7, SeqEqual, Zenon
  <2> QED
    BY <2>8, Zenon DEF RxFifo, q, h
<1> QED
  BY <1>1, <1>2, <1>3, PTL DEF Spec

-----------------------------------------------------------------------------
(* The size of a datagram.                                                 *)

LEMMA SizeInit == Init => SizeInv
<1> SUFFICES ASSUME Init PROVE SizeInv
  OBVIOUS
<1>1. QueueLen(rxq) = 0 /\ IsEmpty(rxq)
  BY QCountAssumption DEF Init, QueueInit, QueueLen, IsEmpty
<1> QED
  BY <1>1, CannelloniAssumption DEF Init, SizeInv

LEMMA SizeStep ==
  ASSUME TypeOK, SizeInv, [Next]_vars
  PROVE  SizeInv'
<1>0. /\ rxq \in Queue /\ dgram \in Seq(Nat) /\ pos \in Nat
      /\ Len(dgram) \in Nat /\ QueueLen(rxq) \in Nat
      /\ IsEmpty(rxq) <=> QueueLen(rxq) = 0
      /\ FirstMbox \in Nat /\ LastMbox \in Nat /\ FirstMbox <= LastMbox
      /\ mbox \in FirstMbox .. LastMbox + 1
      /\ allocFails \in Nat
  BY QueueLenFacts, QCountAssumption, CannelloniAssumption DEF TypeOK
<1>1. CASE ReadMbox
  <2>1. /\ ~ IsFull(rxq) /\ rxq' = QueuePut(rxq) /\ pc = "scan" /\ mbox' = mbox + 1
        /\ mbox <= LastMbox /\ UNCHANGED <<pc, dgram, pos, allocFails>>
    BY <1>1 DEF ReadMbox, HasData
  <2>2. QueueLen(rxq') = QueueLen(rxq) + 1
    BY <1>0, <2>1, QueuePutFacts
  <2>3. dgram = <<>> /\ Len(dgram) = 0
    BY <2>1 DEF SizeInv
  <2>4. allocFails = 0 => /\ QueueLen(rxq') = mbox' - FirstMbox
                          /\ QueueLen(rxq') + Len(dgram') <= LastMbox - FirstMbox + 1
    <3>1. allocFails = 0 => QueueLen(rxq) = mbox - FirstMbox
      BY <2>1 DEF SizeInv
    <3> QED
      BY <1>0, <2>1, <2>2, <2>3, <3>1
  <2> QED
    BY <2>1, <2>3, <2>4 DEF SizeInv
<1>2. CASE StartDatagram
  <2>1. /\ ~ IsEmpty(rxq) /\ dgram' = <<>> /\ dgram = <<>> /\ pos' = PacketBase
        /\ pc = "udp" /\ pc' = "fill" /\ UNCHANGED <<rxq, allocFails, mbox>>
    BY <1>2 DEF StartDatagram, SizeInv, mobVars
  <2>2. PacketBase < PbufLen /\ PacketBase <= PacketBase + (FrameBase + MaxDlen) * 0
    BY CannelloniAssumption DEF PacketBase, FrameBase, MaxDlen
  <2> QED
    BY <2>1, <2>2 DEF SizeInv
<1>3. CASE AddFrame
  <2>1. /\ ~ IsEmpty(rxq) /\ rxq' = QueueTake(rxq) /\ pc = "fill"
        /\ dgram' = Append(dgram, rxBuf[rxq.head])
        /\ pos' = pos + FrameBase + Dlen[rxBuf[rxq.head]] /\ pos' < PbufLen
        /\ UNCHANGED <<pc, allocFails>>
    BY <1>3, Zenon DEF AddFrame, Fits
  <2>2. rxBuf[rxq.head] \in Nat /\ Dlen[rxBuf[rxq.head]] \in 0 .. 8
    BY TypeFacts, SMTT(20)
  <2>3. Len(dgram') = Len(dgram) + 1 /\ dgram' # <<>>
    <3>1. Len(dgram') = Len(dgram) + 1
      BY <1>0, <2>1, <2>2, AppendFacts, Zenon
    <3>2. Len(dgram') # 0
      BY <1>0, <3>1
    <3>3. Len(<<>>) = 0
      OBVIOUS
    <3> QED
      BY <3>1, <3>2, <3>3
  <2>4. pos' <= PacketBase + (FrameBase + MaxDlen) * Len(dgram')
    <3>1. pos <= PacketBase + (FrameBase + MaxDlen) * Len(dgram)
      BY <2>1 DEF SizeInv
    <3>2. ASSUME NEW n \in Nat, NEW d \in 0 .. 8, NEW p \in Nat, p <= 5 + (5 + 8) * n
          PROVE  p + 5 + d <= 5 + (5 + 8) * (n + 1)
      BY <3>2
    <3>3. pos + 5 + Dlen[rxBuf[rxq.head]] <= 5 + (5 + 8) * (Len(dgram) + 1)
      <4>1. pos <= 5 + (5 + 8) * Len(dgram)
        BY <3>1 DEF PacketBase, FrameBase, MaxDlen
      <4> QED
        BY <1>0, <2>2, <3>2, <4>1, Zenon
    <3> QED
      BY <2>1, <2>3, <3>3 DEF PacketBase, FrameBase, MaxDlen
  <2>5. QueueLen(rxq') = QueueLen(rxq) - 1
    BY <1>0, <2>1, QueueTakeFacts
  <2>6. QueueLen(rxq') + Len(dgram') = QueueLen(rxq) + Len(dgram)
    BY <1>0, <2>3, <2>5
  <2> QED
    BY <2>1, <2>3, <2>4, <2>6, SMTT(20) DEF SizeInv
<1>4. CASE SendDatagram
  <2>1. /\ dgram' = <<>> /\ Len(dgram') = 0 /\ pc = "fill"
        /\ pc' \in {"tx", "udp"} /\ (pc' = "tx" => IsEmpty(rxq))
        /\ UNCHANGED <<rxq, allocFails>>
    BY <1>4 DEF SendDatagram
  <2>2. allocFails = 0 => QueueLen(rxq) + Len(dgram') <= LastMbox - FirstMbox + 1
    <3>1. allocFails = 0 => QueueLen(rxq) + Len(dgram) <= LastMbox - FirstMbox + 1
      BY DEF SizeInv
    <3> QED
      BY <1>0, <2>1, <3>1
  <2> QED
    BY <2>1, <2>2 DEF SizeInv
<1>5. CASE StartScan
  <2>1. /\ pc = "rx" /\ pc' = "scan" /\ mbox' = FirstMbox
        /\ UNCHANGED <<rxq, dgram, pos, allocFails>>
    BY <1>5 DEF StartScan, FirstPolled, udpVars
  <2>2. dgram' = <<>>
    BY <2>1 DEF SizeInv
  <2>3. allocFails = 0 => QueueLen(rxq) = mbox' - FirstMbox
    <3>1. allocFails = 0 => IsEmpty(rxq)
      BY <2>1 DEF SizeInv
    <3> QED
      BY <1>0, <2>1, <3>1
  <2> QED
    BY <2>1, <2>2, <2>3 DEF SizeInv
<1>6. CASE AllocFails
  <2>1. allocFails' # 0 /\ pc = "udp" /\ pc' = "tx" /\ dgram' = dgram
    BY <1>0, <1>6 DEF AllocFails
  <2> QED
    BY <2>1 DEF SizeInv
<1>7. CASE \/ \E n \in 0 .. MaxPerPacket, valid \in BOOLEAN : UdpArrive(n, valid)
           \/ Interrupt \/ CanTxDone \/ CanArrive \/ UNCHANGED vars
  <2>1. UNCHANGED <<pc, rxq, dgram, pos, allocFails, mbox>>
    BY <1>7 DEF UdpArrive, Interrupt, IsrQueueFrame, IsrQueueFull, CanTxDone, CanArrive,
                vars, udpVars, mobVars
  <2> QED
    BY <2>1, SMTT(20) DEF SizeInv
<1>8. CASE TransmitCanFrames
  <2>1. /\ UNCHANGED <<rxq, dgram, pos, allocFails, mbox>>
        /\ pc \in {"tx", "send", "copy", "take"} /\ pc' \in {"tx", "send", "copy", "take", "rx"}
    BY <1>8, Zenon DEF TransmitCanFrames, PeekTx, CanSend, CanSendData, TakeTx, udpVars, mobVars
  <2> QED
    BY <2>1, SMTT(20) DEF SizeInv
<1>9. CASE EndScan \/ ReadMboxFull \/ UdpIdle
  <2>1. /\ UNCHANGED <<rxq, dgram, pos, allocFails, mbox>> /\ pc \in {"scan", "udp"}
        /\ pc' = "udp" \/ (pc' = "tx" /\ IsEmpty(rxq))
    BY <1>9 DEF EndScan, ReadMboxFull, UdpIdle, udpVars, mobVars
  <2> QED
    BY <2>1 DEF SizeInv
<1> QED
  BY <1>1, <1>2, <1>3, <1>4, <1>5, <1>6, <1>7, <1>8, <1>9
     DEF Next, MainStep, ReceiveCanFrames, TransmitUdpFrame

\* A datagram fits its pbuf, is not empty, and holds one scan: see DatagramBounded.
THEOREM DatagramBoundedCorrect == Spec => []DatagramBounded
<1>1. Init => TypeOK /\ SizeInv
  BY TypeInit, SizeInit
<1>2. TypeOK /\ SizeInv /\ [Next]_vars => TypeOK' /\ SizeInv'
  BY TypeStep, SizeStep
<1>3. TypeOK /\ SizeInv => DatagramBounded
  <2> SUFFICES ASSUME TypeOK, SizeInv, pc = "fill"
               PROVE  /\ pos < PbufLen
                      /\ dgram = <<>> => ~ IsEmpty(rxq) /\ Fits
                      /\ allocFails = 0 =>
                           pos <= PacketBase + (LastMbox - FirstMbox + 1) * (FrameBase + MaxDlen)
    BY DEF DatagramBounded
  <2>1. dgram = <<>> => ~ IsEmpty(rxq) /\ Fits
    <3>1. dgram = <<>> => pos = PacketBase /\ ~ IsEmpty(rxq)
      BY DEF SizeInv
    <3>2. pos = PacketBase => Fits
      BY TypeFacts, CannelloniAssumption DEF Fits, PacketBase, FrameBase, MaxDlen
    <3> QED
      BY <3>1, <3>2
  <2>2. allocFails = 0 =>
          pos <= PacketBase + (LastMbox - FirstMbox + 1) * (FrameBase + MaxDlen)
    <3>1. allocFails = 0 => QueueLen(rxq) + Len(dgram) <= LastMbox - FirstMbox + 1
      BY DEF SizeInv
    <3>2. pos <= PacketBase + (FrameBase + MaxDlen) * Len(dgram)
      BY DEF SizeInv
    <3>3. /\ QueueLen(rxq) \in Nat /\ Len(dgram) \in Nat /\ pos \in Nat
          /\ FirstMbox \in Nat /\ LastMbox \in Nat
      BY QueueLenFacts, CannelloniAssumption, QCountAssumption DEF TypeOK
    <3> QED
      BY <3>1, <3>2, <3>3 DEF PacketBase, FrameBase, MaxDlen
  <2> QED
    BY <2>1, <2>2 DEF SizeInv
<1> QED
  BY <1>1, <1>2, <1>3, PTL DEF Spec
=============================================================================
