------------------------------- MODULE MCEmac -------------------------------
(***************************************************************************)
(* Both directions of the EMAC driver on small instances, receive (EmacRx) *)
(* and transmit (EmacTx).  They have no variable in common, so a behaviour *)
(* is one of the first or one of the second, chosen in Init, while the     *)
(* other channel rests.                                                    *)
(***************************************************************************)
EXTENDS EmacRx

CONSTANTS TxBds, MaxFrags, MaxPackets, MaxBurst

ASSUME RingAssumption == /\ TxBds \in Nat \ {0}
                         /\ MaxFrags \in 1 .. TxBds
                         /\ MaxPackets \in Nat
                         /\ MaxBurst \in Nat
                         /\ None \notin 0 .. TxBds - 1

VARIABLES
    channel,    \* "rx" or "tx"
    tx_bd, tx_free_head, tx_active_tail, next_bd, tx_pc, tx_local, burst,
    txhdp, stopping, txcp, tx_pending, passed, wire, frees

Tx == INSTANCE EmacTx WITH NumBd <- TxBds, bd <- tx_bd, free_head <- tx_free_head,
        active_tail <- tx_active_tail, pc <- tx_pc, local <- tx_local,
        pending <- tx_pending

txVars == <<tx_bd, tx_free_head, tx_active_tail, next_bd, tx_pc, tx_local, burst,
            txhdp, stopping, txcp, tx_pending, passed, wire, frees>>
bothVars == <<vars, channel, txVars>>

BothInit == channel \in {"rx", "tx"} /\ Init /\ Tx!Init

\* A step of one channel.
InRx(A) == channel = "rx" /\ A /\ UNCHANGED <<channel, txVars>>
InTx(A) == channel = "tx" /\ A /\ UNCHANGED <<channel, vars>>

BothNext == InRx(Next) \/ InTx(Tx!Next)

BothSpec ==
    /\ BothInit /\ [][BothNext]_bothVars
    /\ WF_bothVars(InRx(Handler))
    /\ WF_bothVars(InTx(Tx!Chain)) /\ WF_bothVars(InTx(Tx!RxLeave))
    /\ WF_bothVars(InTx(Tx!TxIsr \/ Tx!Release \/ Tx!TxIsrReturn))
    /\ WF_bothVars(InTx(Tx!DmaSend)) /\ WF_bothVars(InTx(Tx!DmaStop))

\* The wire carries the packets of hdkif_output whole and in order: see EmacTx.
SentInOrder == Tx!SentInOrder

\* hdkif_tx_inthandler frees a pbuf once, after it was sent: see EmacTx.
FreedOnceSent == Tx!FreedOnceSent

\* hdkif_transmit fills free descriptors and waits for TXHDP: see EmacTx.
RingRespected == Tx!RingRespected

\* Every packet handed to hdkif_output is sent and freed: see EmacTx.
EventuallyFreed == Tx!EventuallyFreed
=============================================================================
