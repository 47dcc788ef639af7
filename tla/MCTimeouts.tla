----------------------------- MODULE MCTimeouts -----------------------------
EXTENDS Timeouts

\* The two cyclic timers of this configuration of the stack.
TwoCyclic == <<"nd6", "mld6">>
TwoIntervals == [nd6 |-> 2, mld6 |-> 1]

\* The timers that decide which questions the responder answers; the third of
\* them, for records without a full TTL, is started and stopped with them.
TwoQuiet == <<"reset", "probe">>

\* In the order of the program's delays.
Delays == [delayed |-> 1, probe |-> 2, tc |-> 3, reset |-> 3]
=============================================================================
