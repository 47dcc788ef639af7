-------------------------------- MODULE Nd6 --------------------------------
(***************************************************************************)
(* Neighbour discovery (lwip/src/core/ipv6/nd6.c): the neighbour cache     *)
(* with the packets that wait for a link-layer address, the destination    *)
(* cache, the default routers and the on-link prefix.  Unicast traffic of  *)
(* the firmware (echo replies, unicast mDNS answers, its own neighbour     *)
(* advertisements and probes) goes through nd6_get_next_hop_addr_or_queue. *)
(*                                                                         *)
(* nd6_tmr is run by the main loop, nd6_input by the receive interrupt,    *)
(* which comes between any two of its steps.  A step of nd6_tmr is one     *)
(* neighbour, or one round of the loop of nd6_send_q, or what follows the  *)
(* neighbours.  An interrupt is not interrupted; its own nd6_send_q is a   *)
(* loop too, so that the model can say that it ends.                       *)
(*                                                                         *)
(* Of a link-layer address the model keeps whether it is that of the node  *)
(* the entry is for.  All the caches are one record, because most          *)
(* functions here read and change several of them.                         *)
(***************************************************************************)
EXTENDS Integers, Sequences, FiniteSetsExt, SequencesExt

CONSTANTS
    Neighbors,      \* nodes with a link-local address, of this link
    Routers,        \* those of them that send router advertisements
    Remote,         \* destinations under the prefix that routers may announce
    None,           \* the unspecified address; no link-layer address yet
    NumNeighbors,   \* LWIP_ND6_NUM_NEIGHBORS
    NumDests,       \* LWIP_ND6_NUM_DESTINATIONS
    NumRouters,     \* LWIP_ND6_NUM_ROUTERS
    QueueMax,       \* MEMP_NUM_ND6_QUEUE
    MaxSolicit,     \* LWIP_ND6_MAX_MULTICAST_SOLICIT
    ReachTicks,     \* reachable_time in timer ticks
    DelayTicks,     \* LWIP_ND6_DELAY_FIRST_PROBE_TIME in timer ticks
    Lifetimes,      \* lifetimes that advertisements carry, in ticks
    MaxAge,         \* bound: ages of destinations are counted up to this
    MaxPackets,     \* bound: packets the firmware sends
    MaxAdverts,     \* bound: router advertisements
    MaxRedirects,   \* bound: redirects
    MaxNested       \* bound: interrupts during one nd6_tmr

Dests == Neighbors \cup Remote
Entries == 1 .. NumNeighbors
Cached == 1 .. NumDests
Listed == 1 .. NumRouters
Packets == 1 .. MaxPackets
Control == 0        \* a neighbour advertisement or a unicast probe of our own

VARIABLES
    nd,         \* the caches: see Init
    tmr,        \* where nd6_tmr is: at neighbour i, whose state was st
    isr,        \* the neighbour whose queue the interrupt is sending, or 0
    adverts,    \* router advertisements received
    redirects,  \* redirects received
    rerouted,   \* history: a redirect or a prefix has changed a next hop
    raced       \* history: an interrupt replaced the entry nd6_tmr was at

vars == <<nd, tmr, isr, adverts, redirects, rerouted, raced>>

NoNeighbor == [addr |-> None, st |-> "none", router |-> FALSE, cnt |-> 0,
               ll |-> FALSE, q |-> <<>>]
NoDest == [addr |-> None, hop |-> None, idx |-> 1, age |-> 0]

Init ==
    /\ nd = [nc     |-> [i \in Entries |-> NoNeighbor],     \* neighbor_cache
             dc     |-> [k \in Cached |-> NoDest],          \* destination_cache
             last   |-> 1,                        \* nd6_cached_destination_index
             rl     |-> [r \in Listed |-> [n |-> 0, timer |-> 0]],
                                                  \* default_router_list
             prefix |-> 0,                        \* prefix_list: time left
             qsize  |-> 0,                        \* nd6_queue_size
             pkt    |-> [p \in Packets |-> "new"]]  \* history: packets' fates
    /\ tmr = [pc |-> "idle", i |-> 1, st |-> "none", intr |-> 0]
    /\ isr = 0
    /\ adverts = 0 /\ redirects = 0
    /\ rerouted = FALSE /\ raced = FALSE

-----------------------------------------------------------------------------
(* The neighbour cache.                                                    *)

\* nd6_find_neighbor_cache_entry: 0 when there is none.
Find(s, a) ==
    LET hits == {i \in Entries : s.nc[i].addr = a}
    IN  IF hits = {} THEN 0 ELSE Min(hits)

Ids(q) == {q[k].id : k \in DOMAIN q} \ {Control}

\* The packets ps have come to f: "held", or "done" (sent or dropped).
Fate(s, ps, f) ==
    [s EXCEPT !.pkt = [p \in Packets |-> IF p \in ps THEN f ELSE @[p]]]

\* A faulty variant: the entries of a freed queue are not counted off.
FreedUncounted(s, i) ==
    IF s.nc[i].router THEN s
    ELSE Fate([s EXCEPT !.nc[i] = NoNeighbor], Ids(s.nc[i].q), "done")

\* nd6_free_neighbor_cache_entry, nd6_free_q.
Freed(s, i) ==
    LET e == s.nc[i]
    IN  IF e.router THEN s
        ELSE Fate([s EXCEPT !.nc[i] = NoNeighbor, !.qsize = @ - Len(e.q)],
                  Ids(e.q), "done")

(***************************************************************************)
(* nd6_new_neighbor_cache_entry: an unused entry, or else the one to be    *)
(* recycled (to which the caller applies Freed), or else 0.                *)
(***************************************************************************)
NewEntry(s) ==
    LET In(st) == {i \in Entries : s.nc[i].st = st /\ ~ s.nc[i].router}
        idle == {i \in In("incomplete") : s.nc[i].q = <<>>}
        First(S) == {i \in S : \A j \in S : i <= j}
        Least(S) == First({i \in S : \A j \in S : s.nc[i].cnt <= s.nc[j].cnt})
        Greatest(S) == {i \in S : \A j \in S : \/ s.nc[i].cnt > s.nc[j].cnt
                                               \/ s.nc[i].cnt = s.nc[j].cnt /\ i >= j}
        order == <<First({i \in Entries : s.nc[i].st = "none"}),
                   First(In("stale")), First(In("probe")), First(In("delay")),
                   Least(In("reachable")), Greatest(idle), Greatest(In("incomplete"))>>
        found == SelectSeq(order, LAMBDA S : S # {})
    IN  IF found = <<>> THEN 0 ELSE Min(Head(found))

\* A new entry for address a; lladdr is still that of the entry's last owner.
Entered(s, i, a, st, cnt) ==
    [Freed(s, i) EXCEPT !.nc[i].addr = a, !.nc[i].st = st, !.nc[i].cnt = cnt]

\* A link-layer address is learnt for entry i, which has to be confirmed.
Learnt(s, i) ==
    [s EXCEPT !.nc[i].ll = TRUE, !.nc[i].st = "delay", !.nc[i].cnt = DelayTicks]

-----------------------------------------------------------------------------
(* Where a packet goes.                                                    *)

\* nd6_select_router: a reachable one, one with an address, any one, or 0.
SelectRouter(s) ==
    LET known == {r \in Listed : s.rl[r].n # 0}
        valid == {r \in known : s.nc[s.rl[r].n].st # "incomplete"}
        reach == {r \in valid : s.nc[s.rl[r].n].st = "reachable"}
        best == IF reach # {} THEN reach ELSE IF valid # {} THEN valid ELSE known
    IN  IF best = {} THEN 0 ELSE Min(best)

\* nd6_new_destination_cache_entry, when no entry is unused.
Recycled(s) ==
    LET aged == {k \in Cached : s.dc[k].age > 0}
    IN  IF aged = {} THEN NumDests ELSE Max(aged)

\* The first half of nd6_get_next_hop_entry: the entry of d becomes the last used.
ToDest(s, d) ==
    LET hits == {k \in Cached : s.dc[k].addr = d}
        unused == {k \in Cached : s.dc[k].addr = None}
        k == IF unused # {} THEN Min(unused) ELSE Recycled(s)
        r == SelectRouter(s)
        t == [s EXCEPT !.last = k]
    IN  IF s.dc[s.last].addr = d THEN s
        ELSE IF hits # {} THEN [s EXCEPT !.last = Min(hits)]
        ELSE IF d \in Neighbors \/ s.prefix > 0
             THEN [t EXCEPT !.dc[k].addr = d, !.dc[k].hop = d]
        ELSE IF r = 0 THEN [t EXCEPT !.dc[k].addr = None]
        ELSE [t EXCEPT !.dc[k].addr = d, !.dc[k].hop = s.nc[s.rl[r].n].addr]

(***************************************************************************)
(* Its second half: the neighbour entry of the next hop of the destination *)
(* last used, as [s, i]; i = 0 if there is none and none can be had.  A    *)
(* new entry is created with its first solicitation.                       *)
(***************************************************************************)
ToHop(s) ==
    LET k == s.last
        hop == s.dc[k].hop
        i == IF s.nc[s.dc[k].idx].addr = hop THEN s.dc[k].idx ELSE Find(s, hop)
        n == NewEntry(s)
        Use(t, j) == [s |-> [t EXCEPT !.dc[k].idx = j, !.dc[k].age = 0], i |-> j]
    IN  IF i # 0 THEN Use(s, i)
        ELSE IF n = 0 THEN [s |-> s, i |-> 0]
        ELSE Use([Entered(s, n, hop, "incomplete", 1) EXCEPT !.nc[n].router = FALSE], n)

(***************************************************************************)
(* nd6_queue_packet.  When all the queue entries are in use the oldest     *)
(* packet for the same neighbour makes room; without one p is dropped.     *)
(***************************************************************************)
Queued(s, i, p) ==
    LET q == s.nc[i].q
    IN  IF s.qsize < QueueMax
        THEN Fate([s EXCEPT !.nc[i].q = Append(@, p), !.qsize = @ + 1],
                  Ids(<<p>>), "held")
        ELSE IF q # <<>>
        THEN Fate(Fate([s EXCEPT !.nc[i].q = Append(Tail(@), p)],
                       Ids(<<Head(q)>>), "done"),
                  Ids(<<p>>), "held")
        ELSE Fate(s, Ids(<<p>>), "done")

\* The packets that wait for an address.
Held == {p \in Packets : nd.pkt[p] = "held"}

Usable == {"reachable", "delay", "probe"}

\* ethip6_output with nd6_get_next_hop_addr_or_queue, for packet p.
Output(s, p) ==
    LET t == ToDest(s, p.dst)
        h == ToHop(t)
        u == IF h.s.nc[h.i].st = "stale"
             THEN [h.s EXCEPT !.nc[h.i].st = "delay", !.nc[h.i].cnt = DelayTicks]
             ELSE h.s
    IN  IF t.dc[t.last].addr = None THEN Fate(t, Ids(<<p>>), "done")
        ELSE IF h.i = 0 THEN Fate(t, Ids(<<p>>), "done")
        ELSE IF u.nc[h.i].st \in Usable THEN Fate(u, Ids(<<p>>), "done")
        ELSE Queued(u, h.i, p)

\* One round of the loop of nd6_send_q.
SentFirst(s, i) ==
    LET p == Head(s.nc[i].q)
    IN  [Output([s EXCEPT !.nc[i].q = Tail(@)], p) EXCEPT !.qsize = @ - 1]

-----------------------------------------------------------------------------
(* The receive interrupt: nd6_input, and the packets sent from callbacks.   *)

\* The entry whose state nd6_tmr has already read becomes a new one.
Replaced ==
    /\ tmr.pc = "act"
    /\ \/ nd'.nc[tmr.i].addr # nd.nc[tmr.i].addr
       \/ nd'.nc[tmr.i].st = "incomplete" /\ nd.nc[tmr.i].st # "incomplete"

\* An interrupt that makes the caches t.
Interrupt(t) ==
    /\ nd' = t
    /\ raced' = (raced \/ Replaced)
    /\ tmr' = IF tmr.pc = "idle" THEN tmr ELSE [tmr EXCEPT !.intr = @ + 1]

Own(d) == [id |-> Control, dst |-> d]

\* A packet to d: an echo reply, or an answer of the mDNS responder.
Send(d) ==
    /\ \E p \in Packets :
        /\ nd.pkt[p] = "new"
        /\ \A o \in Packets : o < p => nd.pkt[o] # "new"
        /\ Interrupt(Output(nd, [id |-> p, dst |-> d]))
    /\ UNCHANGED <<isr, adverts, redirects, rerouted>>

\* An advertisement to all nodes changes the address of a known neighbour.
UnsolicitedNA(a) ==
    LET i == Find(nd, a)
    IN  /\ i # 0
        /\ Interrupt([nd EXCEPT !.nc[i].ll = TRUE])
        /\ UNCHANGED <<isr, adverts, redirects, rerouted>>

\* A faulty variant: the link-layer address is copied only if the override flag is set.
SolicitedNAOverride(a, override) ==
    LET i == Find(nd, a)
    IN  /\ i # 0
        /\ Interrupt([nd EXCEPT !.nc[i].ll = override \/ @,
                                !.nc[i].st = "reachable",
                                !.nc[i].cnt = ReachTicks])
        /\ isr' = IF nd.nc[i].q # <<>> THEN i ELSE 0
        /\ UNCHANGED <<adverts, redirects, rerouted>>

\* An advertisement to us; it is ignored if the address it must hold is missing.
SolicitedNA(a, override) ==
    LET i == Find(nd, a)
        takes == override \/ nd.nc[i].st = "incomplete"
    IN  /\ i # 0
        /\ Interrupt([nd EXCEPT !.nc[i].ll = takes \/ @,
                                !.nc[i].st = "reachable",
                                !.nc[i].cnt = ReachTicks])
        /\ isr' = IF nd.nc[i].q # <<>> THEN i ELSE 0
        /\ UNCHANGED <<adverts, redirects, rerouted>>

\* A round of nd6_send_q in the interrupt.
SendQ ==
    /\ isr # 0
    /\ nd' = SentFirst(nd, isr)
    /\ isr' = IF nd'.nc[isr].q # <<>> THEN isr ELSE 0
    /\ raced' = (raced \/ Replaced)
    /\ UNCHANGED <<tmr, adverts, redirects, rerouted>>

(***************************************************************************)
(* A solicitation of node a for our address.  answered: nd6_send_na has    *)
(* found a buffer for the reply.                                           *)
(***************************************************************************)
ReceiveNS(a, answered) ==
    LET i == Find(nd, a)
        n == NewEntry(nd)
        t == IF i # 0
             THEN IF nd.nc[i].st = "incomplete" THEN Learnt(nd, i) ELSE nd
             ELSE Learnt(Entered(nd, n, a, "delay", DelayTicks), n)
    IN  /\ i # 0 \/ n # 0
        /\ Interrupt(IF answered THEN Output(t, Own(a)) ELSE t)
        /\ UNCHANGED <<isr, adverts, redirects, rerouted>>

(***************************************************************************)
(* nd6_get_router, nd6_new_router: the place of router a in the list, as   *)
(* [s, r]; r = 0 if it can have none.                                      *)
(***************************************************************************)
RouterOf(s, a) ==
    LET known == {r \in Listed : s.rl[r].n # 0 /\ s.nc[s.rl[r].n].addr = a}
        free == {r \in Listed : s.rl[r].n = 0}
        i == Find(s, a)
        n == NewEntry(s)
        t == IF i # 0 THEN s
             ELSE [Entered(s, n, a, "incomplete", 1) EXCEPT !.nc[n].q = <<>>]
        j == IF i # 0 THEN i ELSE n
    IN  IF known # {} THEN [s |-> s, r |-> Min(known)]
        ELSE IF j = 0 THEN [s |-> s, r |-> 0]
        ELSE IF free = {} THEN [s |-> [t EXCEPT !.nc[j].router = FALSE], r |-> 0]
        ELSE [s |-> [t EXCEPT !.nc[j].router = TRUE, !.rl[Min(free)].n = j],
              r |-> Min(free)]

(***************************************************************************)
(* A router advertisement of a with a lifetime, with or without the        *)
(* link-layer address, and with the lifetime of the prefix of Remote, or   *)
(* no prefix.                                                              *)
(***************************************************************************)
ReceiveRA(a, life, slla, prefix) ==
    LET f == RouterOf(nd, a)
        n == f.s.rl[f.r].n
        t == [f.s EXCEPT !.rl[f.r].timer = life]
        u == IF slla /\ t.nc[n].st = "incomplete"
             THEN [t EXCEPT !.nc[n].ll = TRUE, !.nc[n].st = "reachable",
                            !.nc[n].cnt = ReachTicks]
             ELSE t
    IN  /\ adverts < MaxAdverts
        /\ Interrupt(IF f.r = 0 THEN f.s
                     ELSE IF prefix = None THEN u
                     ELSE [u EXCEPT !.prefix = prefix])
        /\ adverts' = adverts + 1
        /\ rerouted' = (rerouted \/ (nd.prefix = 0 /\ nd'.prefix # 0))
        /\ UNCHANGED <<isr, redirects>>

\* A redirect of destination d to node a, with or without its address.
ReceiveRedirect(d, a, tlla) ==
    LET hits == {k \in Cached : nd.dc[k].addr = d}
        t == [nd EXCEPT !.dc[Min(hits)].hop = a]
        i == Find(t, a)
        n == NewEntry(t)
    IN  /\ redirects < MaxRedirects
        /\ hits # {}
        /\ Interrupt(IF ~ tlla THEN t
                     ELSE IF i # 0
                     THEN IF t.nc[i].st = "incomplete" THEN Learnt(t, i) ELSE t
                     ELSE IF n = 0 THEN t
                     ELSE Learnt(Entered(t, n, a, "delay", DelayTicks), n))
        /\ redirects' = redirects + 1
        /\ rerouted' = TRUE
        /\ UNCHANGED <<isr, adverts>>

-----------------------------------------------------------------------------
(* The main loop: nd6_tmr.                                                 *)

Main == isr = 0 /\ UNCHANGED <<isr, adverts, redirects, rerouted, raced>>

TmrStart ==
    /\ Main
    /\ tmr.pc = "idle"
    /\ tmr' = [tmr EXCEPT !.pc = "act", !.st = nd.nc[1].st]
    /\ UNCHANGED nd

\* On to the next neighbour, whose state is read, or past the last.
NextSlot ==
    tmr' = IF tmr.i = NumNeighbors THEN [tmr EXCEPT !.pc = "end", !.st = "none"]
           ELSE [tmr EXCEPT !.i = @ + 1, !.st = nd'.nc[tmr.i + 1].st]

\* The cases of an entry that is being solicited; probe: by unicast.
TmrSolicit(answered) ==
    LET i == tmr.i
        e == nd.nc[i]
        t == [nd EXCEPT !.nc[i].cnt = IF @ >= MaxSolicit THEN @ ELSE @ + 1]
    IN  /\ Main
        /\ tmr.pc = "act" /\ tmr.st \in {"incomplete", "probe"}
        /\ nd' = IF e.cnt >= MaxSolicit /\ ~ e.router THEN Freed(nd, i)
                 ELSE IF tmr.st = "probe" /\ answered THEN Output(t, Own(e.addr))
                 ELSE t
        /\ NextSlot

\* A reachable neighbour: what is still queued is sent first.
TmrSendQ ==
    /\ Main
    /\ tmr.pc = "act" /\ tmr.st = "reachable"
    /\ nd.nc[tmr.i].q # <<>>
    /\ nd' = SentFirst(nd, tmr.i)
    /\ UNCHANGED tmr

\* A faulty variant: the queue is left for later.
TmrReachableUnsent ==
    LET i == tmr.i
    IN  /\ Main
        /\ tmr.pc = "act" /\ tmr.st = "reachable"
        /\ nd' = IF nd.nc[i].cnt <= 1
                 THEN [nd EXCEPT !.nc[i].st = "stale", !.nc[i].cnt = 0]
                 ELSE [nd EXCEPT !.nc[i].cnt = @ - 1]
        /\ NextSlot

TmrReachable ==
    LET i == tmr.i
    IN  /\ Main
        /\ tmr.pc = "act" /\ tmr.st = "reachable"
        /\ nd.nc[i].q = <<>>
        /\ nd' = IF nd.nc[i].cnt <= 1
                 THEN [nd EXCEPT !.nc[i].st = "stale", !.nc[i].cnt = 0]
                 ELSE [nd EXCEPT !.nc[i].cnt = @ - 1]
        /\ NextSlot

TmrDelay ==
    LET i == tmr.i
    IN  /\ Main
        /\ tmr.pc = "act" /\ tmr.st = "delay"
        /\ nd' = IF nd.nc[i].cnt <= 1
                 THEN [nd EXCEPT !.nc[i].st = "probe", !.nc[i].cnt = 0]
                 ELSE [nd EXCEPT !.nc[i].cnt = @ - 1]
        /\ NextSlot

\* How long an entry has been stale is counted and never used.
TmrOther ==
    /\ Main
    /\ tmr.pc = "act" /\ tmr.st \in {"none", "stale"}
    /\ UNCHANGED nd
    /\ NextSlot

\* A faulty variant: a router that expires keeps its isrouter flag.
ExpiredKeepsFlag(s, r) ==
    IF s.rl[r].n = 0 THEN s
    ELSE IF s.rl[r].timer > 1 THEN [s EXCEPT !.rl[r].timer = @ - 1]
    ELSE [s EXCEPT !.rl[r] = [n |-> 0, timer |-> 0]]

\* The lifetime of router r; if it expires its destinations are forgotten.
Expired(s, r) ==
    LET n == s.rl[r].n
    IN  IF n = 0 THEN s
        ELSE IF s.rl[r].timer > 1 THEN [s EXCEPT !.rl[r].timer = @ - 1]
        ELSE [s EXCEPT
                !.dc = [k \in Cached |-> IF @[k].hop = s.nc[n].addr
                                         THEN [@[k] EXCEPT !.addr = None] ELSE @[k]],
                !.nc[n].router = FALSE,
                !.rl[r] = [n |-> 0, timer |-> 0]]

\* After the neighbours: ages of destinations, lifetimes of routers and prefix.
TmrEnd ==
    LET aged == [nd EXCEPT !.dc = [k \in Cached |->
                    [@[k] EXCEPT !.age = IF @ < MaxAge THEN @ + 1 ELSE @]]]
        routed == FoldLeft(Expired, aged, [r \in Listed |-> r])
    IN  /\ Main
        /\ tmr.pc = "end"
        /\ nd' = [routed EXCEPT !.prefix = IF @ > 0 THEN @ - 1 ELSE 0]
        /\ tmr' = [pc |-> "idle", i |-> 1, st |-> "none", intr |-> 0]

-----------------------------------------------------------------------------
Tick ==
    \/ TmrStart \/ TmrSendQ \/ TmrReachable \/ TmrDelay \/ TmrOther \/ TmrEnd
    \/ \E answered \in BOOLEAN : TmrSolicit(answered)

(***************************************************************************)
(* A packet arrives.  Two bounds: up to MaxNested in one nd6_tmr, and none *)
(* once one of them has replaced the entry nd6_tmr is at, so that the      *)
(* model follows what nd6_tmr makes of that entry.                         *)
(***************************************************************************)
Receive ==
    /\ isr = 0 /\ tmr.intr < MaxNested /\ ~ raced
    /\ \/ \E d \in Dests : Send(d)
       \/ \E a \in Dests : UnsolicitedNA(a)
       \/ \E a \in Dests, override \in BOOLEAN : SolicitedNA(a, override)
       \/ \E a \in Dests, answered \in BOOLEAN : ReceiveNS(a, answered)
       \/ \E a \in Routers, life \in Lifetimes, slla \in BOOLEAN,
             prefix \in Lifetimes \cup {None} : ReceiveRA(a, life, slla, prefix)
       \/ \E d \in Remote, a \in Neighbors, tlla \in BOOLEAN : ReceiveRedirect(d, a, tlla)

Next == Receive \/ SendQ \/ Tick

Spec == Init /\ [][Next]_vars

-----------------------------------------------------------------------------
(***************************************************************************)
(* A packet never goes to the wrong node: a neighbour in a state in which  *)
(* nd6_get_next_hop_addr_or_queue hands out its link-layer address has the *)
(* address of that node, although recycled entries keep the address of     *)
(* their last owner.  The one exception is an interrupt that gives the     *)
(* entry to another node after nd6_tmr has read its state.                 *)
(***************************************************************************)
LinkAddressRight ==
    raced \/ \A i \in Entries :
        nd.nc[i].st \in Usable \cup {"stale"} => nd.nc[i].ll

(***************************************************************************)
(* A waiting packet is in one queue, once, and nd6_queue_size counts the   *)
(* entries of the queues: nothing is leaked or freed twice, and the count  *)
(* does not drift, when an entry is recycled, a queue overflows, or        *)
(* nd6_send_q puts a packet back.                                          *)
(***************************************************************************)
HeldOnce ==
    /\ nd.qsize = MapThenSumSet(LAMBDA i : Len(nd.nc[i].q), Entries)
    /\ \A p \in Packets :
        LET places == {<<i, k>> \in Entries \X (1 .. QueueMax) :
                          k <= Len(nd.nc[i].q) /\ nd.nc[i].q[k].id = p}
        IN  Cardinality(places) = IF p \in Held THEN 1 ELSE 0

(***************************************************************************)
(* The default routers and the isrouter flags agree, and a listed router   *)
(* keeps its neighbour entry: default_router_list never points to an entry *)
(* that has been freed or given to another node.                           *)
(***************************************************************************)
RoutersPinned ==
    \A i \in Entries :
        /\ nd.nc[i].router <=> \E r \in Listed : nd.rl[r].n = i
        /\ nd.nc[i].router => nd.nc[i].st # "none" /\ nd.nc[i].addr \in Routers

(***************************************************************************)
(* Every waiting packet has a way out.  An entry with packets is in a      *)
(* state that ends in nd6_send_q or nd6_free_q (incomplete, delay and      *)
(* probe run out of solicitations; nd6_tmr sends for a reachable one),     *)
(* never unused and never stale, where nothing but a new packet would      *)
(* change it.  And the interrupt's nd6_send_q sends what it takes off the  *)
(* queue, so it ends: its entry stays reachable.  Only if the next hop of  *)
(* a waiting packet changed can the entry be recycled under it, and get    *)
(* the packet back.                                                        *)
(***************************************************************************)
WaitingGetOut ==
    ~ rerouted =>
        /\ \A i \in Entries :
              nd.nc[i].q # <<>> => nd.nc[i].st \notin {"none", "stale"}
        /\ isr # 0 => nd.nc[isr].st = "reachable"
=============================================================================
