------------------------------ MODULE Address -------------------------------
(***************************************************************************)
(* The link-local address of the gateway and its multicast groups:         *)
(* duplicate address detection (nd6.c, netif.c) and multicast listener     *)
(* discovery (mld6.c).                                                     *)
(*                                                                         *)
(* The main loop calls nd6_tmr and mld6_tmr; neighbour advertisements and  *)
(* solicitations, MLD queries and reports are handled in the receive       *)
(* interrupt.  Each timer function is split where it has read the state it *)
(* is about to overwrite, or has sent a packet, and interrupts come in     *)
(* between.                                                                *)
(***************************************************************************)
EXTENDS Integers, Sequences, FiniteSets

CONSTANTS
    Attempts,       \* LWIP_IPV6_DUP_DETECT_ATTEMPTS
    MaxDelay,       \* bound: the longest delay of a report, in ticks of mld6_tmr
    MaxQueries,     \* bound: MLD queries
    MaxHeard,       \* bound: reports of other members
    MaxLost         \* bound: reports for which there is no pbuf

(***************************************************************************)
(* The groups in the order of the list: the solicited-node group of the    *)
(* address joins and leaves, the responder's group stays.                  *)
(***************************************************************************)
Solicited == "solicited"
Mdns == "mdns"
Groups == {Solicited, Mdns}
After == [solicited |-> Mdns, mdns |-> "end"]

VARIABLES
    state,          \* ip6_addr_state: "TENTATIVE", ..., and the probes sent
    group,          \* the struct mld_group of each group that is joined
    dad,            \* nd6_tmr: the state it has decided on, or Undecided
    walk,           \* mld6_tmr: the group it is at, and whether it has sent
    queries, heard, lost,       \* counted up to their bounds
    claimed,        \* history: another node was heard to use the address
    owed,           \* history: groups a router waits to hear a report for
    raced           \* history: timers whose reading an interrupt made stale

vars == <<state, group, dad, walk, queries, heard, lost, claimed, owed, raced>>

Delays == 1 .. MaxDelay
Idle == [at |-> "end", sent |-> FALSE]
Joined == DOMAIN group

\* The address state says how many probes were sent: TENTATIVE_1, ...
Tentative(n) == [kind |-> "TENTATIVE", count |-> n]
Preferred == [kind |-> "PREFERRED", count |-> 0]
Duplicated == [kind |-> "DUPLICATED", count |-> 0]
Undecided == [kind |-> "none", count |-> 0]

-----------------------------------------------------------------------------
(* Groups.                                                                 *)

\* A faulty variant: the timer is set, but the group stays idle.
DelayedReportIdle(g, d) ==
    IF g.state = "IDLE" THEN [g EXCEPT !.timer = d] ELSE g

\* mld6_delayed_report, with a delay of d ticks
DelayedReport(g, d) ==
    IF g.state = "IDLE" \/ g.timer = 0 \/ d < g.timer
    THEN [g EXCEPT !.timer = d, !.state = "DELAYING"]
    ELSE g

\* mld6_new_group, and mld6_joingroup_netif's report: reporter if it was sent.
NewGroup(d, sent) ==
    [timer |-> d, state |-> "DELAYING", reporter |-> sent, use |-> 1]

\* mld6_joingroup_netif
JoinGroup(gs, x, d, sent) ==
    IF x \in DOMAIN gs THEN [gs EXCEPT ![x].use = @ + 1]
    ELSE [y \in DOMAIN gs \cup {x} |-> IF y = x THEN NewGroup(d, sent) ELSE gs[y]]

\* mld6_leavegroup_netif
LeaveGroup(gs, x) ==
    IF x \notin DOMAIN gs THEN gs
    ELSE IF gs[x].use > 1 THEN [gs EXCEPT ![x].use = @ - 1]
    ELSE [y \in DOMAIN gs \ {x} |-> gs[y]]

\* A faulty variant: TENTATIVE counts as a member.
MemberTentative(s) == s # Duplicated

\* Members of the solicited-node group: see nd6_adjust_mld_membership.
Member(s) == s # Duplicated /\ s # Tentative(0)

\* nd6_adjust_mld_membership
AdjustMembership(gs, old, new, d, sent) ==
    IF Member(old) = Member(new) THEN gs
    ELSE IF Member(new) THEN JoinGroup(gs, Solicited, d, sent)
    ELSE LeaveGroup(gs, Solicited)

\* netif_ip6_addr_set_state, netif_issue_reports and mld6_report_groups included
SetState(new, d, sent) ==
    LET gs == AdjustMembership(group, state, new, d[Solicited], sent)
    IN  /\ state' = new
        /\ group' = IF new = Preferred /\ state # Preferred
                    THEN [x \in DOMAIN gs |-> DelayedReport(gs[x], d[x])]
                    ELSE gs

\* A report goes out, unless there is no pbuf for it.
Reported(x, sent) ==
    /\ owed' = IF sent THEN owed \ {x} ELSE owed
    /\ lost' = IF sent THEN lost ELSE lost + 1
    /\ lost' <= MaxLost

-----------------------------------------------------------------------------
(* The main loop.                                                          *)

\* After netif_create_ip6_linklocal_address and mdns_resp_add_netif.
Init ==
    /\ state = Tentative(0)
    /\ \E d \in Delays : group = [x \in {Mdns} |-> NewGroup(d, TRUE)]
    /\ dad = Undecided /\ walk = Idle
    /\ queries = 0 /\ heard = 0 /\ lost = 0
    /\ claimed = FALSE /\ owed = {} /\ raced = {}

MainRuns == dad = Undecided /\ walk = Idle

\* nd6_tmr reads the state of a tentative address and decides on the next one.
DadDecide ==
    /\ MainRuns /\ state.kind = "TENTATIVE"
    /\ dad' = IF state.count >= Attempts THEN Preferred ELSE Tentative(state.count + 1)
    /\ UNCHANGED <<state, group, walk, queries, heard, lost, claimed, owed, raced>>

\* nd6_tmr sets it.  The first probe joins the group, which sends a report.
DadSet ==
    /\ dad # Undecided
    /\ \E d \in [Groups -> Delays], sent \in BOOLEAN :
          /\ SetState(dad, d, sent)
          /\ IF Solicited \in DOMAIN group' \ Joined THEN Reported(Solicited, sent)
             ELSE sent /\ UNCHANGED <<owed, lost>>
    /\ dad' = Undecided
    /\ UNCHANGED <<walk, queries, heard, claimed, raced>>

\* mld6_tmr begins at the head of the list.
MldTmr ==
    /\ MainRuns
    /\ walk' = [at |-> IF Solicited \in Joined THEN Solicited ELSE Mdns, sent |-> FALSE]
    /\ UNCHANGED <<state, group, dad, queries, heard, lost, claimed, owed, raced>>

\* mld6_tmr at one group, up to mld6_send.  An interrupt may have freed the group:
\* what the code does then is undefined, and the walk ends here.
MldGroup ==
    LET x == walk.at
    IN  /\ x \in Joined /\ ~ walk.sent
        /\ \/ /\ group[x].timer # 1 \/ group[x].state # "DELAYING"
              /\ group' = [group EXCEPT ![x].timer = IF @ > 0 THEN @ - 1 ELSE @]
              /\ walk' = [at |-> After[x], sent |-> FALSE]
              /\ UNCHANGED <<owed, lost>>
           \/ /\ group[x].timer = 1 /\ group[x].state = "DELAYING"
              /\ \E sent \in BOOLEAN :
                    /\ group' = [group EXCEPT ![x].timer = 0,
                                              ![x].reporter = @ \/ sent]
                    /\ Reported(x, sent)
              /\ walk' = [walk EXCEPT !.sent = TRUE]
        /\ UNCHANGED <<state, dad, queries, heard, claimed, raced>>

\* mld6_tmr after mld6_send
MldSent ==
    LET x == walk.at
    IN  /\ x \in Joined /\ walk.sent
        /\ group' = [group EXCEPT ![x].state = "IDLE"]
        /\ walk' = [at |-> After[x], sent |-> FALSE]
        /\ UNCHANGED <<state, dad, queries, heard, lost, claimed, owed, raced>>

-----------------------------------------------------------------------------
(* The receive interrupt.                                                  *)

\* An interrupt that changes what the main loop has in hand.
Race ==
    raced' = raced
        \cup (IF dad # Undecided /\ state' # state THEN {"nd6_tmr"} ELSE {})
        \cup (IF /\ walk.at # "end"
                 /\ \/ walk.at \notin DOMAIN group'
                    \/ walk.sent /\ group'[walk.at] # group[walk.at]
              THEN {"mld6_tmr"} ELSE {})

\* mld6_input: a general query, or one for a group we have joined.
Query ==
    /\ queries < MaxQueries
    /\ \E xs \in {Joined} \cup {{x} : x \in Joined}, d \in Delays :
          /\ group' = [x \in Joined |-> IF x \in xs THEN DelayedReport(group[x], d)
                                        ELSE group[x]]
          /\ owed' = owed \cup xs
    /\ queries' = queries + 1
    /\ UNCHANGED <<state, dad, walk, heard, lost, claimed>>
    /\ Race

\* mld6_input: another member's report makes ours unnecessary.
Report ==
    /\ heard < MaxHeard
    /\ \E x \in Joined :
          /\ group' = IF group[x].state = "DELAYING"
                      THEN [group EXCEPT ![x].timer = 0, ![x].state = "IDLE",
                                         ![x].reporter = FALSE]
                      ELSE group
          /\ owed' = owed \ {x}
    /\ heard' = heard + 1
    /\ UNCHANGED <<state, dad, walk, queries, lost, claimed>>
    /\ Race

\* A faulty variant: only a tentative address can turn out to be a duplicate.
ClaimTakenTentative == state.kind = "TENTATIVE"

\* nd6_input takes a multicast advertisement of our own address for a duplicate.
ClaimTaken == state # Duplicated

\* nd6_input: a neighbour advertises our address; nd6_duplicate_addr_detected.
Advertised ==
    /\ ~ claimed
    /\ claimed' = TRUE
    /\ IF ClaimTaken
       THEN /\ SetState(Duplicated, [x \in Groups |-> 1], TRUE)
            /\ owed' = owed \cap DOMAIN group'
       ELSE UNCHANGED <<state, group, owed>>
    /\ UNCHANGED <<dad, walk, queries, heard, lost>>
    /\ Race

\* nd6_input: a neighbour probes for it.  Once the address is ours it is defended.
\* The probe goes to the solicited-node group, ip6_input drops it before we joined.
Probed ==
    /\ ~ claimed /\ state.kind = "TENTATIVE" /\ Solicited \in Joined
    /\ claimed' = TRUE
    /\ SetState(Duplicated, [x \in Groups |-> 1], TRUE)
    /\ owed' = owed \cap DOMAIN group'
    /\ UNCHANGED <<dad, walk, queries, heard, lost>>
    /\ Race

-----------------------------------------------------------------------------
Dad == DadDecide \/ DadSet
Mld == MldTmr \/ MldGroup \/ MldSent

Next == Dad \/ Mld \/ Query \/ Report \/ Advertised \/ Probed

(***************************************************************************)
(* The two cyclic timers fire again and again (run timeouts); once called, *)
(* their functions run to the end.                                         *)
(***************************************************************************)
Fairness == SF_vars(DadDecide) /\ WF_vars(DadSet) /\ SF_vars(MldTmr)
            /\ WF_vars(MldGroup \/ MldSent)

Spec == Init /\ [][Next]_vars /\ Fairness

-----------------------------------------------------------------------------
(* Properties.                                                             *)

(***************************************************************************)
(* Once another node has been heard to use the gateway's address, or to    *)
(* probe for it while the gateway was still probing, the gateway does not  *)
(* use it (nd6_duplicate_addr_detected), unless the packet came between    *)
(* nd6_tmr's reading of the state and its writing.                         *)
(***************************************************************************)
ClaimHonoured == claimed /\ "nd6_tmr" \notin raced => state = Duplicated

(***************************************************************************)
(* The gateway is a member of its solicited-node group, once, exactly      *)
(* while it probes for or uses the address (nd6_adjust_mld_membership),    *)
(* and stays a member of the responder's group; a group that waits to      *)
(* report has its timer running.                                           *)
(***************************************************************************)
MembershipMatches ==
    /\ Joined = {Mdns} \cup
                (IF state \in {Duplicated, Tentative(0)} THEN {} ELSE {Solicited})
    /\ \A x \in Joined :
          /\ group[x].use = 1
          /\ group[x].state = "DELAYING" =>
                group[x].timer > 0 \/ (walk.at = x /\ walk.sent)

(***************************************************************************)
(* Every group a router asks for is reported, by the gateway or by another *)
(* member, unless the gateway left it, the report found no pbuf, or the    *)
(* query came while mld6_tmr was sending the last one.                     *)
(***************************************************************************)
QueryAnswered ==
    \A x \in Groups : []<>(x \notin owed \/ lost > 0 \/ "mld6_tmr" \in raced)
=============================================================================
