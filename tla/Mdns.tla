-------------------------------- MODULE Mdns --------------------------------
(***************************************************************************)
(* The mDNS responder (lwip/apps/mdns/mdns.c, mdns_out.c) on the one IPv6  *)
(* interface of the gateway: probing for its names, announcing them,       *)
(* conflicts, and answers that are sent at once or put off.                *)
(*                                                                         *)
(* mdns_recv is called by the receive interrupt, the timer handlers by the *)
(* main loop.  A handler that sends a packet is two steps, up to the       *)
(* return of mdns_send_outpacket and after it, and packets arrive between  *)
(* them.  Time is counted in ticks; the main loop fires what is due before *)
(* the next tick.  The record m holds what is kept in struct mdns_host and *)
(* in the list of timers, because most functions change several of them.   *)
(***************************************************************************)
EXTENDS Integers, Sequences, FiniteSets, SequencesExt

CONSTANTS
    Sources,            \* hosts that ask
    Unique, Shared,     \* records: of the host or a service; pointers
    Queries,            \* the queries that arrive: see QueryType
    ResponseDelay,      \* MDNS_RESPONSE_DELAY, in ticks, as all that follow
    ProbeTimeout,       \* MDNS_MULTICAST_PROBE_TIMEOUT
    MulticastTimeout,   \* MDNS_MULTICAST_TIMEOUT
    TtlTimeout,         \* MDNS_MULTICAST_TIMEOUT_25TTL
    ProbeDelay,         \* MDNS_PROBE_DELAY_MS and MDNS_INITIAL_PROBE_DELAY_MS
    AnnounceDelay,      \* MDNS_ANNOUNCE_DELAY_MS
    TiebreakDelay,      \* MDNS_PROBE_TIEBREAK_CONFLICT_DELAY_MS
    LimitDelay,         \* MDNS_PROBE_MAX_CONFLICTS_TIMEOUT
    TcDelay,            \* MDNS_RESPONSE_TC_DELAY_MS
    ProbeCount,         \* MDNS_PROBE_COUNT
    AnnounceCount,      \* MDNS_ANNOUNCE_COUNT
    StoredPkts,         \* MDNS_MAX_STORED_PKTS
    MaxQueries,         \* bound: packets with questions or known answers
    MaxConflicts,       \* bound: packets that contest a name
    MaxFails            \* bound: packets that cannot be sent

Records == Unique \cup Shared
QueryType == [src : Sources, asks : SUBSET Records \ {{}}, known : SUBSET Records,
              qu : BOOLEAN, probe : BOOLEAN, unicast : BOOLEAN, legacy : BOOLEAN]

VARIABLES
    m,          \* the responder: see Init
    call,       \* the timer handler that is sending, and with which result
    queries, conflicts, fails,      \* counted up to their bounds
    overlapped  \* history: an interrupt changed m while a handler was sending

vars == <<m, call, queries, conflicts, fails, overlapped>>

Off == -1       \* a timer that is not armed

\* Timers with a flag that tells whether they run, and the one without.
Flagged == {"multicast_timeout", "multicast_probe_timeout", "multicast_timeout_25TTL",
            "multicast_msg", "unicast_msg"}
Timers == Flagged \cup {"probe"}

Idle == [pc |-> "none", ok |-> TRUE, msg |-> {}]

-----------------------------------------------------------------------------
(* Timers.                                                                 *)

\* sys_timeout.  doubled: history, the timer was running already.
Arm(s, x, d) == [s EXCEPT !.t[x] = d, !.doubled = @ \/ s.t[x] # Off]

\* sys_untimeout
Disarm(s, x) == [s EXCEPT !.t[x] = Off]

\* mdns_set_timeout
SetTimeout(s, x, d) ==
    [Arm(IF s.flag[x] THEN Disarm(s, x) ELSE s, x, d) EXCEPT !.flag[x] = TRUE]

\* mdns_start_multicast_timeouts_ipv6
StartTimeouts(s) ==
    SetTimeout(SetTimeout(SetTimeout(s, "multicast_timeout", MulticastTimeout),
                          "multicast_probe_timeout", ProbeTimeout),
               "multicast_timeout_25TTL", TtlTimeout)

-----------------------------------------------------------------------------
(* Names.                                                                  *)

\* A faulty variant: the timer that may be running is not stopped.
RestartDelayArmed(s, d) ==
    [Arm(s, "probe", IF s.limit THEN LimitDelay ELSE d)
     EXCEPT !.sent = 0, !.state = "PROBE_WAIT", !.clean = 0, !.stopped = FALSE]

\* mdns_resp_restart_delay.  clean: history, probes since the last restart.
RestartDelay(s, d) ==
    [Arm(Disarm(s, "probe"), "probe", IF s.limit THEN LimitDelay ELSE d)
     EXCEPT !.sent = 0, !.state = "PROBE_WAIT", !.clean = 0, !.stopped = FALSE]

\* mdns_conflict_save_time: limit says whether the conflicts are too many now.
SaveConflict(s, limit) == [s EXCEPT !.limit = @ \/ limit]

\* A faulty variant: probing goes on.
ProbeConflictGoesOn(s, limit) ==
    [SaveConflict(s, limit) EXCEPT !.clean = 0, !.stopped = TRUE]

\* mdns_probe_conflict; no callback is registered by the firmware.
ProbeConflict(s, limit) ==
    [Disarm(SaveConflict(s, limit), "probe") EXCEPT !.clean = 0, !.stopped = TRUE]

(***************************************************************************)
(* mdns_resp_init, mdns_resp_add_netif: the responder starts to probe.     *)
(***************************************************************************)
Start ==
    [state   |-> "OFF",
     sent    |-> 0,             \* sent_num
     limit   |-> FALSE,         \* rate_limit_activated
     t       |-> [x \in Timers |-> Off],
     flag    |-> [x \in Flagged |-> FALSE],
     mmsg    |-> {},            \* delayed_msg_multicast
     umsg    |-> {},            \* delayed_msg_unicast
     udest   |-> CHOOSE a \in Sources : TRUE,
     tc      |-> <<>>,          \* pending_tc_questions, newest first
     doubled |-> FALSE, clean |-> 0, stopped |-> FALSE,
     owed    |-> {},            \* history: <<who, record>> put off, to be sent
     failed  |-> {}]            \* history: messages whose sending has failed

Init ==
    /\ m = RestartDelay(Start, ProbeDelay)
    /\ call = Idle
    /\ queries = 0 /\ conflicts = 0 /\ fails = 0
    /\ overlapped = FALSE

-----------------------------------------------------------------------------
(* Questions.                                                              *)

Everyone == "all"

\* mdns_add_msg_to_delayed, for the multicast and for the unicast message.
DelayMulticast(s, rrs) ==
    [s EXCEPT !.mmsg = @ \cup rrs, !.owed = @ \cup ({Everyone} \X rrs)]
DelayUnicast(s, src, rrs) ==
    [s EXCEPT !.umsg = @ \cup rrs, !.udest = src, !.owed = @ \cup ({src} \X rrs)]

\* A faulty variant: a second asker takes the message over.
UnicastFreeAlways(s) == TRUE

\* No message is in the slot for a delayed unicast answer yet.
UnicastFree(s) == ~ s.flag["unicast_msg"]

(***************************************************************************)
(* The second half of mdns_handle_question: rrs is sent, put off or        *)
(* dropped.  ok: a packet sent at once is sent with success.               *)
(***************************************************************************)
Answer(s, q, rrs, ok) ==
    LET delay == ~ \/ Cardinality(q.asks) = 1 /\ rrs \cap Shared = {} /\ ~ q.probe
                   \/ q.probe /\ q.qu
                   \/ q.probe /\ ~ s.flag["multicast_probe_timeout"]
        unicast == \/ q.qu /\ s.flag["multicast_timeout_25TTL"]
                   \/ q.unicast \/ q.legacy
                   \/ q.probe /\ q.qu
    IN  IF delay /\ unicast
        THEN IF UnicastFree(s)
             THEN SetTimeout(DelayUnicast(s, q.src, rrs), "unicast_msg", ResponseDelay)
             ELSE s
        ELSE IF delay /\ q.probe
        THEN [DelayMulticast(s, rrs) EXCEPT !.flag["multicast_msg"] = TRUE]
        ELSE IF delay /\ ~ s.flag["multicast_timeout"]
        THEN SetTimeout(DelayMulticast(s, rrs), "multicast_msg", ResponseDelay)
        ELSE IF delay \/ unicast \/ ~ ok THEN s
        ELSE IF s.flag["multicast_timeout"] /\ ~ q.probe THEN s
        ELSE StartTimeouts(s)

\* mdns_handle_question.  loses: we lose the tiebreak with this probe.
HandleQuestion(s, q, loses, limit, ok) ==
    LET rrs == q.asks \ q.known
    IN  IF s.state \in {"PROBING", "ANNOUNCE_WAIT"} /\ q.probe /\ loses
        THEN RestartDelay(SaveConflict(s, limit), TiebreakDelay)
        ELSE IF \/ s.state \notin {"COMPLETE", "ANNOUNCING"}
                \/ rrs = {}
                \/ q.legacy /\ Cardinality(q.asks) # 1
        THEN s
        ELSE Answer(s, q, rrs, ok)

-----------------------------------------------------------------------------
(* Packets, in the receive interrupt.                                      *)

Used(s) == FoldLeft(LAMBDA n, e : n + 1 + e.more, 0, s.tc)

(***************************************************************************)
(* What an interrupt does to m.  Once one has changed m under a handler    *)
(* that is sending, no more packets arrive (a bound), and the model        *)
(* follows what the main loop does, unless a timer is then armed twice,    *)
(* which m cannot hold.                                                    *)
(***************************************************************************)
Interrupt(s) ==
    /\ m' = s
    /\ overlapped' = (call.pc # "none" /\ s # m)
    /\ UNCHANGED call

\* A send that fails takes one of MaxFails.
Fail(ok) == fails' = (IF ok THEN fails ELSE fails + 1) /\ fails' <= MaxFails

\* mdns_recv: a query that is complete.
ReceiveQuery ==
    /\ ~ overlapped /\ queries < MaxQueries
    /\ \E q \in Queries, ok \in BOOLEAN :
          /\ Interrupt(HandleQuestion(m, q, FALSE, FALSE, ok))
          /\ Fail(ok)
    /\ queries' = queries + 1
    /\ UNCHANGED conflicts

\* mdns_recv: a probe for our names that wins the tiebreak.
ReceiveProbe ==
    /\ ~ overlapped /\ conflicts < MaxConflicts
    /\ m.state \in {"PROBING", "ANNOUNCE_WAIT"}
    /\ \E q \in Queries, limit \in BOOLEAN :
          q.probe /\ Interrupt(HandleQuestion(m, q, TRUE, limit, TRUE))
    /\ conflicts' = conflicts + 1
    /\ UNCHANGED <<queries, fails>>

\* mdns_recv: a question with the TC bit waits for its known answers.
ReceiveTruncated ==
    /\ ~ overlapped /\ queries < MaxQueries
    /\ \E q \in Queries :
          Interrupt(IF Used(m) = StoredPkts THEN m
                    ELSE [m EXCEPT !.tc = <<[q |-> q, left |-> TcDelay, more |-> 0]>> \o @])
    /\ queries' = queries + 1
    /\ UNCHANGED <<conflicts, fails>>

\* mdns_recv: known answers join the newest pending question of their sender.
ReceiveKnown ==
    /\ ~ overlapped /\ queries < MaxQueries /\ Used(m) < StoredPkts
    /\ \E i \in DOMAIN m.tc, rrs \in SUBSET Records \ {{}} :
          /\ \A j \in 1 .. i - 1 : m.tc[j].q.src # m.tc[i].q.src
          /\ Interrupt([m EXCEPT !.tc[i].q.known = @ \cup rrs, !.tc[i].more = @ + 1])
    /\ queries' = queries + 1
    /\ UNCHANGED <<conflicts, fails>>

\* mdns_handle_response: somebody else answers for one of our names.
ReceiveResponse ==
    /\ ~ overlapped /\ conflicts < MaxConflicts
    /\ \/ /\ m.state \in {"PROBING", "ANNOUNCE_WAIT"}
          /\ \E limit \in BOOLEAN : Interrupt(ProbeConflict(m, limit))
       \/ /\ m.state \in {"ANNOUNCING", "COMPLETE"}
          /\ Interrupt(RestartDelay(m, ProbeDelay))
    /\ conflicts' = conflicts + 1
    /\ UNCHANGED <<queries, fails>>

-----------------------------------------------------------------------------
(* Timers, in the main loop.                                               *)

Due(x) == ~ m.doubled /\ call.pc = "none" /\ m.t[x] = 0
Main == UNCHANGED <<queries, conflicts, overlapped>>

\* mdns_send_outpacket for what x names, with the answers it takes along.
Sending(x, ok) == [pc |-> x, ok |-> ok,
                   msg |-> CASE x = "multicast_msg" -> m.mmsg
                             [] x = "unicast_msg" -> m.umsg
                             [] OTHER -> {}]

\* mdns_multicast_timeout_reset_ipv6, mdns_multicast_timeout_25ttl_reset_ipv6
TimeoutReset ==
    /\ \E x \in {"multicast_timeout", "multicast_timeout_25TTL"} :
          /\ Due(x)
          /\ m' = [Disarm(m, x) EXCEPT !.flag[x] = FALSE]
    /\ Main /\ UNCHANGED <<call, fails>>

\* mdns_multicast_probe_timeout_reset_ipv6, up to the sending
ProbeTimeoutReset ==
    LET x == "multicast_probe_timeout"
    IN  /\ Due(x)
        /\ m' = [Disarm(m, x) EXCEPT !.flag[x] = FALSE]
        /\ IF m.flag["multicast_msg"]
           THEN \E ok \in BOOLEAN : call' = Sending("multicast_msg", ok) /\ Fail(ok)
           ELSE UNCHANGED <<call, fails>>
        /\ Main

\* mdns_send_multicast_msg_delayed_ipv6, mdns_send_unicast_msg_delayed_ipv6
SendDelayed ==
    /\ \E x \in {"multicast_msg", "unicast_msg"}, ok \in BOOLEAN :
          /\ Due(x)
          /\ m' = Disarm(m, x)
          /\ call' = Sending(x, ok)
          /\ Fail(ok)
    /\ Main

\* What these three do with the result, mdns_clear_outmsg included.
Cleared(s, x, msg) ==
    IF x = "unicast_msg"
    THEN [s EXCEPT !.umsg = {}, !.flag[x] = FALSE, !.owed = @ \ ({s.udest} \X msg)]
    ELSE StartTimeouts([s EXCEPT !.mmsg = {}, !.flag[x] = FALSE,
                                 !.owed = @ \ ({Everyone} \X msg)])

DelayedSent ==
    /\ ~ m.doubled /\ call.pc \in {"multicast_msg", "unicast_msg"}
    /\ m' = IF call.ok THEN Cleared(m, call.pc, call.msg)
            ELSE [m EXCEPT !.failed = @ \cup {call.pc}]
    /\ call' = Idle
    /\ Main /\ UNCHANGED fails

\* mdns_probe_and_announce, up to the sending
ProbeAndAnnounce ==
    /\ Due("probe")
    /\ \/ /\ m.state \in {"OFF", "PROBE_WAIT", "PROBING"}
          /\ m' = Disarm(m, "probe")
          /\ \E ok \in BOOLEAN : call' = Sending("probe", ok) /\ Fail(ok)
       \/ /\ m.state \in {"ANNOUNCE_WAIT", "ANNOUNCING"}
          /\ m' = IF m.sent = 0
                  THEN [Disarm(m, "probe") EXCEPT !.state = "ANNOUNCING", !.limit = FALSE]
                  ELSE Disarm(m, "probe")
          /\ call' = Sending("announce", TRUE)
          /\ UNCHANGED fails
    /\ Main

\* A faulty variant: a probe that could not be sent is not tried again.
ProbedOnce(s, ok) ==
    IF ~ ok THEN s
    ELSE IF s.sent + 1 >= ProbeCount
    THEN Arm([s EXCEPT !.state = "ANNOUNCE_WAIT", !.sent = 0, !.clean = @ + 1],
             "probe", ProbeDelay)
    ELSE Arm([s EXCEPT !.state = "PROBING", !.sent = @ + 1, !.clean = @ + 1],
             "probe", IF s.limit THEN LimitDelay ELSE ProbeDelay)

\* mdns_probe_and_announce, after mdns_send_probe
Probed(s, ok) ==
    LET p == IF ok THEN [s EXCEPT !.state = "PROBING", !.sent = @ + 1, !.clean = @ + 1]
             ELSE s
        d == IF p.sent >= ProbeCount THEN [p EXCEPT !.state = "ANNOUNCE_WAIT", !.sent = 0]
             ELSE p
    IN  Arm(d, "probe", IF d.sent > 0 /\ d.limit THEN LimitDelay ELSE ProbeDelay)

\* mdns_probe_and_announce, after mdns_announce in mdns_resp_announce
Announced(s) ==
    LET a == [StartTimeouts(s) EXCEPT !.sent = @ + 1]
    IN  IF a.sent >= AnnounceCount THEN [a EXCEPT !.state = "COMPLETE", !.sent = 0]
        ELSE Arm(a, "probe", AnnounceDelay * 2^(a.sent - 1))

ProbeSent ==
    /\ ~ m.doubled /\ call.pc \in {"probe", "announce"}
    /\ m' = IF call.pc = "probe" THEN Probed(m, call.ok) ELSE Announced(m)
    /\ call' = Idle
    /\ Main /\ UNCHANGED fails

\* mdns_handle_tc_question: pkt and its answers go back to the pool.
HandleTcQuestion ==
    /\ ~ m.doubled /\ call.pc = "none"
    /\ \E i \in DOMAIN m.tc, ok, loses, limit \in BOOLEAN :
          /\ m.tc[i].left = 0
          /\ m' = [HandleQuestion(m, m.tc[i].q, loses, limit, ok)
                   EXCEPT !.tc = RemoveAt(@, i)]
          /\ Fail(ok)
          /\ conflicts' = (IF loses THEN conflicts + 1 ELSE conflicts)
          /\ conflicts' <= MaxConflicts
    /\ UNCHANGED <<call, queries, overlapped>>

\* Time passes once the main loop has fired all that is due.
Tick ==
    /\ ~ m.doubled /\ call.pc = "none"
    /\ \A x \in Timers : m.t[x] # 0
    /\ \A i \in DOMAIN m.tc : m.tc[i].left # 0
    /\ m' = [m EXCEPT !.t = [x \in Timers |-> IF @[x] = Off THEN Off ELSE @[x] - 1],
                      !.tc = [i \in DOMAIN @ |-> [@[i] EXCEPT !.left = @ - 1]]]
    /\ m' # m
    /\ UNCHANGED <<call, queries, conflicts, fails, overlapped>>

MainLoop == \/ TimeoutReset \/ ProbeTimeoutReset \/ SendDelayed \/ DelayedSent
            \/ ProbeAndAnnounce \/ ProbeSent \/ HandleTcQuestion \/ Tick

Next == \/ ReceiveQuery \/ ReceiveProbe \/ ReceiveTruncated \/ ReceiveKnown
        \/ ReceiveResponse \/ MainLoop

(***************************************************************************)
(* The main loop runs for ever and SysTick advances sys_now, so the timers *)
(* that are due are fired and time passes.                                 *)
(***************************************************************************)
Spec == Init /\ [][Next]_vars /\ WF_vars(MainLoop)

-----------------------------------------------------------------------------
(* Properties.                                                             *)

(***************************************************************************)
(* The gateway speaks for its names only when ProbeCount probes have gone  *)
(* out since it was last contested or restarted (mdns_probe_and_announce,  *)
(* mdns_probe_conflict, mdns_resp_restart_delay), unless a packet arrived  *)
(* while the timer handler was sending.                                    *)
(***************************************************************************)
ProbedBeforeAnnounced ==
    m.state \in {"ANNOUNCING", "COMPLETE"} /\ ~ overlapped => m.clean >= ProbeCount

(***************************************************************************)
(* No timer is armed while it is running, so that each handler fires once  *)
(* for each arming, and the probe timer runs in every state that has more  *)
(* to do, unless a conflicting response has stopped it                     *)
(* (mdns_probe_conflict, mdns_set_timeout, mdns_resp_restart_delay).       *)
(***************************************************************************)
OneTimerEach ==
    ~ overlapped =>
        /\ ~ m.doubled
        /\ (m.t["probe"] # Off \/ call.pc \in {"probe", "announce"})
              <=> (m.state # "COMPLETE" /\ ~ m.stopped)

(***************************************************************************)
(* An answer that mdns_handle_question put off is in the message to the    *)
(* host that asked, and the timer that sends the message is running or its *)
(* handler is sending now; a message that was sent leaves its slot to the  *)
(* next one.  Only a failed send leaves a message without its timer: the   *)
(* unicast slot is then taken for good, because                            *)
(* mdns_send_unicast_msg_delayed_ipv6 leaves unicast_msg_in_use set.  An   *)
(* answer that is added while the message is being sent is lost, and       *)
(* exempt.                                                                 *)
(***************************************************************************)
PutOffIsSent ==
    ~ overlapped =>
        /\ \A o \in m.owed :
              \/ /\ o[1] = Everyone /\ o[2] \in m.mmsg
                 /\ \/ m.t["multicast_msg"] # Off \/ call.pc = "multicast_msg"
                    \/ m.t["multicast_probe_timeout"] # Off
                    \/ "multicast_msg" \in m.failed
              \/ /\ o[1] = m.udest /\ o[2] \in m.umsg
                 /\ \/ m.t["unicast_msg"] # Off \/ call.pc = "unicast_msg"
                    \/ "unicast_msg" \in m.failed
        /\ m.flag["unicast_msg"] <=> m.umsg # {}

(***************************************************************************)
(* The responder has announced its names, or a conflicting response        *)
(* stopped it for good, and the truncated questions it stored have all     *)
(* been handled and freed; or a timer was armed twice, where the model     *)
(* ends.                                                                   *)
(***************************************************************************)
Settled == m.doubled \/ (m.tc = <<>> /\ (m.state = "COMPLETE" \/ m.stopped))
=============================================================================
