---------------------------- MODULE MCCannelloni ----------------------------
(***************************************************************************)
(* Values of the constants of Cannelloni for TLC.                          *)
(***************************************************************************)
EXTENDS Cannelloni

\* Frames of every third length: 0, 4 and 8 bytes.
MCDlen == [n \in 0 .. MaxCan |-> 4 * (n % 3)]

\* The two directions share no state but the position of the main loop.  Each is
\* explored with the other one idle, which keeps the instance small.
OneWay == udpIn' = 0 \/ canIn' = 0

OneWaySpec == Init /\ [][Next /\ OneWay]_vars /\ Fairness
=============================================================================
