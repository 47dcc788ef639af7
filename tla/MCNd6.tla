-------------------------------- MODULE MCNd6 -------------------------------
(***************************************************************************)
(* The neighbour caches (Nd6) and the heap in which the packets lie that   *)
(* wait there (Heap), on small instances.  The models share no state, so a *)
(* behaviour is one of the first or one of the second, chosen in Init,     *)
(* while the other half rests.                                             *)
(***************************************************************************)
EXTENDS Heap

CONSTANTS Neighbors, Routers, Remote, None, NumNeighbors, NumDests, NumRouters,
          QueueMax, MaxSolicit, ReachTicks, DelayTicks, Lifetimes, MaxAge,
          MaxPackets, MaxAdverts, MaxRedirects, MaxNested

VARIABLES
    half,       \* "caches" or "heap"
    nd, tmr, isr, adverts, redirects, rerouted, raced

Caches == INSTANCE Nd6

cacheVars == <<nd, tmr, isr, adverts, redirects, rerouted, raced>>
bothVars == <<vars, half, cacheVars>>

BothInit == half \in {"caches", "heap"} /\ Init /\ Caches!Init

BothNext ==
    \/ half = "caches" /\ Caches!Next /\ UNCHANGED <<half, vars>>
    \/ half = "heap" /\ Next /\ UNCHANGED <<half, cacheVars>>

BothSpec == BothInit /\ [][BothNext]_bothVars

\* No packet goes to the wrong link-layer address: see Nd6.
LinkAddressRight == Caches!LinkAddressRight

\* Every packet is in one queue or gone, and nd6_queue_size is right: see Nd6.
HeldOnce == Caches!HeldOnce

\* A default router is not recycled (default_router_list): see Nd6.
RoutersPinned == Caches!RoutersPinned

\* Every packet that waits for its neighbour has a way out (nd6_send_q): see Nd6.
WaitingGetOut == Caches!WaitingGetOut
=============================================================================
