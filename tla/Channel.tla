------------------------------ MODULE Channel -------------------------------
(***************************************************************************)
(* What one direction of the gateway promises, without rings, mailboxes or *)
(* interrupts: a bounded first-in first-out channel.  Whatever is accepted *)
(* comes out once, in order, in groups of one or more (the frames of a     *)
(* datagram), and no more than Capacity are ever under way.                *)
(***************************************************************************)
EXTENDS Integers, Sequences

CONSTANT Capacity       \* the most that may be under way

VARIABLES
    in,                 \* what was accepted, in order
    out                 \* what has come out

chVars == <<in, out>>

ChInit == in = <<>> /\ out = <<>>

\* One more is accepted, if there is room.
Accept ==
    /\ Len(in) - Len(out) < Capacity
    /\ Len(in') = Len(in) + 1
    /\ \A k \in 1 .. Len(in) : in'[k] = in[k]
    /\ UNCHANGED out

\* One or more of those under way come out.
Deliver ==
    /\ Len(out') \in Len(out) + 1 .. Len(in)
    /\ \A k \in 1 .. Len(out') : out'[k] = in[k]
    /\ UNCHANGED in

ChNext == Accept \/ Deliver

Safe == ChInit /\ [][ChNext]_chVars

(***************************************************************************)
(* What was accepted comes out: weak fairness of Deliver, which is enabled *)
(* exactly when something is under way.                                    *)
(***************************************************************************)
Live == []<>(Len(out) >= Len(in)) \/ []<><<Deliver>>_chVars
=============================================================================
