------------------------------- MODULE MCMdns -------------------------------
(***************************************************************************)
(* The mDNS responder (Mdns) and the address it answers with, together     *)
(* with the multicast groups (Address), on small instances.  The models    *)
(* share no state, so a behaviour is one of the first or one of the        *)
(* second, chosen in Init, while the other half rests.                     *)
(*                                                                         *)
(* The responder has one host record, one pointer, two hosts that ask, and *)
(* the kinds of query that mdns_handle_question tells apart.               *)
(***************************************************************************)
EXTENDS Mdns

CONSTANTS Attempts, MaxDelay, MaxMldQueries, MaxHeard, MaxLost

VARIABLES
    half,       \* "responder" or "address"
    state, group, dad, walk, mld_queries, heard, lost, claimed, owed, raced

OwnAddress == INSTANCE Address WITH queries <- mld_queries, MaxQueries <- MaxMldQueries

ownVars == <<state, group, dad, walk, mld_queries, heard, lost, claimed, owed, raced>>
bothVars == <<vars, half, ownVars>>

Query(src, asks, how) ==
    [src |-> src, asks |-> asks, known |-> {}, qu |-> "qu" \in how,
     probe |-> "probe" \in how, unicast |-> "unicast" \in how, legacy |-> "legacy" \in how]

Asker == CHOOSE s \in Sources : TRUE

MCQueries ==
    {Query(Asker, asks, {}) : asks \in {Unique, Shared, Records}}
    \cup {Query(Asker, Unique, how) : how \in {{"probe"}, {"probe", "qu"}}}
    \cup {Query(s, Records, {"qu"}) : s \in Sources}
    \cup {Query(Asker, Shared, {"unicast"}), Query(Asker, Records, {"legacy"})}

BothInit ==
    /\ half \in {"responder", "address"}
    /\ Init /\ OwnAddress!Init
    /\ half = "responder" => group[OwnAddress!Mdns].timer = 1

\* An action of the second half.
InOwn(A) == half = "address" /\ A /\ UNCHANGED <<vars, half>>
InResponder(A) == half = "responder" /\ A /\ UNCHANGED <<half, ownVars>>

BothNext == InResponder(Next) \/ InOwn(OwnAddress!Next)

BothSpec ==
    /\ BothInit /\ [][BothNext]_bothVars
    /\ WF_bothVars(InResponder(MainLoop))
    /\ SF_bothVars(InOwn(OwnAddress!DadDecide)) /\ WF_bothVars(InOwn(OwnAddress!DadSet))
    /\ SF_bothVars(InOwn(OwnAddress!MldTmr))
    /\ WF_bothVars(InOwn(OwnAddress!MldGroup \/ OwnAddress!MldSent))

(***************************************************************************)
(* Once nobody contests the names any more and packets can be sent, the    *)
(* responder announces its names or has given up, and has freed what it    *)
(* stored (mdns_probe_and_announce, mdns_handle_tc_question), also when a  *)
(* question came in while a handler was sending; only a conflict that arms *)
(* the probe timer twice is exempt.                                        *)
(***************************************************************************)
Settles == <>[](half = "responder" => Settled)

(***************************************************************************)
(* The gateway does not use an address that another node was heard to use  *)
(* (nd6_duplicate_addr_detected): see Address.                             *)
(***************************************************************************)
ClaimHonoured == OwnAddress!ClaimHonoured

(***************************************************************************)
(* The groups follow the state of the address (nd6_adjust_mld_membership): *)
(* see Address.                                                            *)
(***************************************************************************)
MembershipMatches == OwnAddress!MembershipMatches

(***************************************************************************)
(* Every group a router asks for is reported (mld6_input, mld6_tmr): see   *)
(* Address.                                                                *)
(***************************************************************************)
QueryAnswered == OwnAddress!QueryAnswered
=============================================================================
