------------------------------ MODULE Timeouts ------------------------------
(***************************************************************************)
(* The timers of the network stack (lwip/src/core/timeouts.c) in the way   *)
(* this firmware uses them.                                                *)
(*                                                                         *)
(* The main loop calls sys_check_timeouts, which runs the handlers of the  *)
(* timers that are due; a cyclic timer (nd6_tmr, mld6_tmr) is armed again  *)
(* by its own handler.  The mDNS responder arms and disarms timers while   *)
(* it handles a packet, which happens in the receive interrupt and so      *)
(* between any two steps of the main loop.  Nothing but the allocation of  *)
(* a list element is protected from it.                                    *)
(*                                                                         *)
(* Times wrap: they are taken modulo TimeMod (2^32 in the program).        *)
(***************************************************************************)
EXTENDS Integers, Sequences, FiniteSetsExt, SequencesExt

CONSTANTS Cyclic,      \* lwip_cyclic_timers, in order
          Interval,    \* Interval[c]: the period of cyclic timer c
          PoolSize,    \* MEMP_NUM_SYS_TIMEOUT
          TimeMod,     \* one more than the largest time
          Quiet,       \* the timers of mdns_start_multicast_timeouts_ipv6
          Delay,       \* Delay[h]: the delay of mDNS timer h
          MaxTc,       \* truncated questions kept at a time
          MaxLate,     \* bound: how late sys_check_timeouts may find a timer
          Overlap      \* packets arrive while the main loop is in this module

Cyclics == ToSet(Cyclic)

\* The timers that mdns_set_timeout starts, each of which has a flag.
Flagged == ToSet(Quiet) \cup {"delayed"}

ASSUME TimesAssumption ==
  /\ Interval \in [Cyclics -> Nat \ {0}]
  /\ PoolSize \in Nat
  /\ {"reset", "probe"} \subseteq ToSet(Quiet)
  /\ Delay \in [Flagged \cup {"tc"} -> Nat]
  /\ MaxTc \in Nat /\ MaxLate \in Nat
  /\ Overlap \in BOOLEAN
  /\ \A d \in Range(Interval) \cup Range(Delay) :
       d + MaxLate < TimeMod \div 2

Pool == 1 .. PoolSize
NULL == 0

VARIABLES now,    \* sys_now()
          list,   \* the list elements, the free ones, and next_timeout (head)
          main,   \* where the main loop is in this module, and its locals
          busy    \* the flags mdns_set_timeout goes by

vars == <<now, list, main, busy>>

-----------------------------------------------------------------------------

\* TIME_LESS_THAN(t, u)
Less(t, u) == (t - u) % TimeMod > TimeMod \div 2 - 1

\* The elements met by following next from e.
Follow(l, e) ==
  LET at[i \in 1 .. PoolSize + 1] ==
        IF i = 1 THEN e
        ELSE LET prev == at[i - 1]
             IN  IF prev = NULL THEN NULL ELSE l.node[prev].next
  IN  at

\* A walk through the list comes to its end.  It does not when packets that
\* interrupt the main loop have made a cycle of it; a step that has to walk
\* through it is then never completed.
Ends(l) == Follow(l, l.head)[PoolSize + 1] = NULL

Linked(l) ==
  LET at == Follow(l, l.head) IN {at[i] : i \in 1 .. PoolSize} \ {NULL}

(***************************************************************************)
(* Where sys_timeout_abs puts a timer: between pred and succ, either of    *)
(* which may be NULL; behind those that are due at the same time.          *)
(***************************************************************************)
Place(l, time) ==
  LET at == Follow(l, l.head)
      stops == {i \in 1 .. PoolSize :
                  at[i] # NULL /\ (at[i + 1] = NULL
                                   \/ Less(time, l.node[at[i + 1]].time))}
  IN  IF l.head = NULL \/ Less(time, l.node[l.head].time)
      THEN [pred |-> NULL, succ |-> l.head]
      ELSE [pred |-> at[Min(stops)], succ |-> at[Min(stops) + 1]]

Insert(l, e, place) ==
  LET linked == [l EXCEPT !.node[e].next = place.succ]
  IN  IF place.pred = NULL THEN [linked EXCEPT !.head = e]
      ELSE [linked EXCEPT !.node[place.pred].next = e]

Used(l) == Pool \ ToSet(l.free)

\* memp_malloc, and the element filled in.
Allocated(l, h, time) ==
  [l EXCEPT !.free = Tail(@),
            !.node[Head(l.free)] = [next |-> NULL, h |-> h, time |-> time]]

Unused == [next |-> NULL, h |-> "tc", time |-> 0]

(***************************************************************************)
(* memp_free: the element is the next to be allocated; its contents are    *)
(* not read until then.  Which element is reused can only matter to one    *)
(* who still has a pointer to it, that is, when packets interrupt the main *)
(* loop here; without them the free elements are kept in order, which      *)
(* saves states.                                                           *)
(***************************************************************************)
Freed(l, e) ==
  [l EXCEPT !.free = IF Overlap THEN <<e>> \o @
                     ELSE SelectSeq([p \in Pool |-> p],
                                    LAMBDA p : p = e \/ p \in ToSet(l.free)),
            !.node[e] = Unused]

PoolEmpty(l) == l.free = <<>>

\* sys_timeout, as one step; the assertion of an element is in the actions.
SysTimeout(l, h, time) ==
  Insert(Allocated(l, h, time), Head(l.free), Place(l, time))

SysUntimeoutHead(l, h) ==
  LET at == Follow(l, l.head)
      hits == {i \in 1 .. PoolSize : at[i] # NULL /\ l.node[at[i]].h = h}
      e == at[Min(hits)]
  IN  IF hits = {} THEN l ELSE Freed([l EXCEPT !.head = l.node[e].next], e)

SysUntimeoutLeak(l, h) ==
  LET at == Follow(l, l.head)
      hits == {i \in 1 .. PoolSize : at[i] # NULL /\ l.node[at[i]].h = h}
      i == Min(hits)
      next == l.node[at[i]].next
  IN  IF hits = {} THEN l
      ELSE IF i = 1 THEN [l EXCEPT !.head = next]
      ELSE [l EXCEPT !.node[at[i - 1]].next = next]

\* sys_untimeout: the first timer with handler h, if any, leaves the list.
SysUntimeout(l, h) ==
  LET at == Follow(l, l.head)
      hits == {i \in 1 .. PoolSize : at[i] # NULL /\ l.node[at[i]].h = h}
      i == Min(hits)
      e == at[i]
      cut == IF i = 1 THEN [l EXCEPT !.head = l.node[e].next]
             ELSE [l EXCEPT !.node[at[i - 1]].next = l.node[e].next]
  IN  IF hits = {} THEN l ELSE Freed(cut, e)

-----------------------------------------------------------------------------

NoLocals == [pc |-> "idle", start |-> 0, tmp |-> NULL, h |-> "tc", due |-> 0,
             place |-> [pred |-> NULL, succ |-> NULL], todo |-> <<>>]

Empty == [node |-> [e \in Pool |-> Unused],
          free |-> [e \in Pool |-> e], head |-> NULL]

\* sys_timeouts_init
Init == /\ now = 0
        /\ list = FoldLeft(LAMBDA l, c : SysTimeout(l, c, Interval[c]), Empty, Cyclic)
        /\ main = NoLocals
        /\ busy = [h \in Flagged |-> FALSE]

(***************************************************************************)
(* The tick of the millisecond timer.  The main loop is quick enough to    *)
(* find a timer at most MaxLate ticks after it is due, and to be through   *)
(* with sys_check_timeouts in as many.                                     *)
(***************************************************************************)
Tick ==
  /\ \A e \in Used(list) : ~Less(now, list.node[e].time)
                            => (now - list.node[e].time) % TimeMod < MaxLate
  /\ main.pc # "idle" => (now - main.start) % TimeMod < MaxLate
  /\ now' = (now + 1) % TimeMod
  /\ UNCHANGED <<list, main, busy>>

\* sys_check_timeouts begins: only timers due now are looked at.
Begin ==
  /\ main.pc = "idle"
  /\ main' = [main EXCEPT !.pc = "check", !.start = now]
  /\ UNCHANGED <<now, list, busy>>

ExpiredUnwrapped(e) == e # NULL /\ list.node[e].time <= main.start

Expired(e) == e # NULL /\ ~Less(main.start, list.node[e].time)

Check ==
  /\ main.pc = "check"
  /\ main' = IF Expired(list.head)
             THEN [main EXCEPT !.pc = "unlink", !.tmp = list.head]
             ELSE NoLocals
  /\ UNCHANGED <<now, list, busy>>

\* next_timeout = tmptimeout->next; the element is freed.
Unlink ==
  LET e == main.tmp
  IN  /\ main.pc = "unlink"
      /\ list' = Freed([list EXCEPT !.head = list.node[e].next], e)
      /\ main' = [main EXCEPT !.pc = "handler", !.tmp = NULL,
                              !.h = list.node[e].h, !.due = list.node[e].time]
      /\ UNCHANGED <<now, busy>>

\* lwip_cyclic_timer: the next due time, without drift unless it has passed.
NextDue(c) ==
  LET next == (main.due + Interval[c]) % TimeMod
  IN  IF Less(next, now) THEN (now + Interval[c]) % TimeMod ELSE next

\* mdns_set_timeout stops the timer it is about to start, if it is running.
Stopped(l, h) == IF busy[h] THEN SysUntimeout(l, h) ELSE l

HandleCyclicOnTime ==
  /\ main.pc = "handler" /\ main.h \in Cyclics
  /\ main' = IF Less((main.due + Interval[main.h]) % TimeMod, now)
             THEN [main EXCEPT !.pc = "check"]
             ELSE [main EXCEPT !.pc = "arm", !.due = NextDue(main.h)]
  /\ UNCHANGED <<now, list, busy>>

HandleCyclic ==
  /\ main.pc = "handler" /\ main.h \in Cyclics
  /\ main' = [main EXCEPT !.pc = "arm", !.due = NextDue(main.h)]
  /\ UNCHANGED <<now, list, busy>>

\* mdns_multicast_timeout_..._reset_ipv6; the one for probes goes on below.
HandleQuiet ==
  /\ main.pc = "handler" /\ main.h \in ToSet(Quiet)
  /\ busy' = [busy EXCEPT ![main.h] = FALSE]
  /\ main' = [main EXCEPT !.pc = IF main.h = "probe" /\ busy["delayed"]
                                 THEN "send" ELSE "check"]
  /\ UNCHANGED <<now, list>>

\* mdns_send_multicast_msg_delayed_ipv6
HandleDelayed ==
  /\ main.pc = "handler" /\ main.h = "delayed"
  /\ main' = [main EXCEPT !.pc = "send"]
  /\ UNCHANGED <<now, list, busy>>

\* The waiting answer is sent, or that fails and it stays.
Send ==
  /\ main.pc = "send"
  /\ \/ /\ busy' = [busy EXCEPT !["delayed"] = FALSE]
        /\ main' = [main EXCEPT !.pc = "start", !.todo = Quiet]
     \/ /\ main' = [main EXCEPT !.pc = "check"]
        /\ UNCHANGED busy
  /\ UNCHANGED <<now, list>>

(***************************************************************************)
(* mdns_handle_question: the timers that it starts.  A multicast answer    *)
(* sent at once starts the Quiet ones; a question is only answered so if   *)
(* the last answer was a second ago, or if it is a probe and the last      *)
(* answer was 250 ms ago.  Answers that are sent unicast start none here.  *)
(***************************************************************************)
Starts ==
  {<<>>} \cup (IF busy["reset"] /\ busy["probe"] THEN {} ELSE {Quiet})
         \cup (IF busy["reset"] THEN {} ELSE {<<"delayed">>})

\* mdns_handle_tc_question: the kept question is answered.
HandleTc ==
  /\ main.pc = "handler" /\ main.h = "tc"
  /\ \E todo \in Starts : main' = [main EXCEPT !.pc = "start", !.todo = todo]
  /\ UNCHANGED <<now, list, busy>>

\* mdns_set_timeout called by the main loop, for each timer it is to start.
StartTimer ==
  /\ main.pc = "start"
  /\ Ends(list)
  /\ IF main.todo = <<>>
     THEN main' = [main EXCEPT !.pc = "check"] /\ UNCHANGED list
     ELSE LET h == Head(main.todo)
          IN  /\ list' = Stopped(list, h)
              /\ main' = [main EXCEPT !.pc = "arm", !.h = h, !.todo = Tail(@),
                                      !.due = (now + Delay[h]) % TimeMod]
  /\ UNCHANGED <<now, busy>>

\* LWIP_ASSERT: without an element for the timer the program ends.
Aborted == main' = [main EXCEPT !.pc = "aborted"] /\ UNCHANGED list

\* sys_timeout_abs called by the main loop, up to the search for the place.
Arm ==
  /\ main.pc = "arm"
  /\ Ends(list)
  /\ IF PoolEmpty(list) THEN Aborted
     ELSE /\ list' = Allocated(list, main.h, main.due)
          /\ main' = [main EXCEPT !.pc = "link", !.tmp = Head(list.free),
                                  !.place = Place(list, main.due)]
  /\ UNCHANGED <<now, busy>>

\* The stores that put it in the list.
Link ==
  /\ main.pc = "link"
  /\ list' = Insert(list, main.tmp, main.place)
  /\ main' = [main EXCEPT !.pc = "start", !.tmp = NULL,
                          !.place = NoLocals.place]
  /\ busy' = [h \in Flagged |-> busy[h] \/ h = main.h]
  /\ UNCHANGED now

-----------------------------------------------------------------------------

Interrupts == /\ main.pc = "idle" \/ (Overlap /\ main.pc # "aborted")
              /\ Ends(list)

\* mdns_set_timeout in the interrupt, for each of the timers.
SetTimeouts(l, todo) ==
  FoldLeft(LAMBDA m, h : SysTimeout(Stopped(m, h), h, (now + Delay[h]) % TimeMod),
           l, todo)

\* How many elements it takes beyond those that it frees.
Extra(todo) == Cardinality({h \in ToSet(todo) : Stopped(list, h) = list})

\* mdns_recv: a question is received and handled.
Question ==
  /\ Interrupts
  /\ \E todo \in Starts \ {<<>>} :
       /\ IF Extra(todo) > Len(list.free) THEN Aborted
          ELSE /\ list' = SetTimeouts(list, todo)
               /\ UNCHANGED main
       /\ busy' = [h \in Flagged |-> busy[h] \/ h \in ToSet(todo)]
  /\ UNCHANGED now

\* A probe within 250 ms of the last answer waits for the probe timer.
ProbeWaits ==
  /\ Interrupts
  /\ busy["probe"]
  /\ busy' = [busy EXCEPT !["delayed"] = TRUE]
  /\ UNCHANGED <<now, list, main>>

Kept == Cardinality({e \in Used(list) : list.node[e].h = "tc"})

\* A truncated question is received and kept: mdns_recv arms a timer for it.
Truncated ==
  /\ Interrupts
  /\ Kept < MaxTc
  /\ IF PoolEmpty(list) THEN Aborted
     ELSE /\ list' = SysTimeout(list, "tc", (now + Delay["tc"]) % TimeMod)
          /\ UNCHANGED main
  /\ UNCHANGED <<now, busy>>

MainStep == \/ Begin \/ Check \/ Unlink
            \/ HandleCyclic \/ HandleQuiet \/ HandleDelayed \/ HandleTc
            \/ Send \/ StartTimer \/ Arm \/ Link

Next == Tick \/ MainStep \/ Question \/ ProbeWaits \/ Truncated

\* Time passes, and the main loop calls sys_check_timeouts again and again.
Fairness == WF_vars(Tick) /\ WF_vars(MainStep)

Spec == Init /\ [][Next]_vars /\ Fairness

-----------------------------------------------------------------------------

\* The timers the main loop has taken out of the list or not yet put into it.
InHand == IF main.pc = "link" THEN {main.tmp} ELSE {}

(***************************************************************************)
(* The elements in use are those that can be reached from next_timeout:    *)
(* no timer is lost, and none that has been freed is still on the list.    *)
(* So a pool with one element for each cyclic timer, each timer with a     *)
(* flag and each question that can be kept is never empty (the assertion   *)
(* of timeouts.c:190, "sys_timeout: timeout != NULL, pool                  *)
(* MEMP_SYS_TIMEOUT is empty").                                            *)
(***************************************************************************)
NoneLost ==
  /\ Used(list) \ InHand = Linked(list)
  /\ PoolSize >= Len(Cyclic) + Cardinality(Flagged) + MaxTc => main.pc # "aborted"

\* The list is in the order of the due times, also where the time wraps.
Sorted ==
  \A e \in Linked(list) :
    LET n == list.node[e].next
    IN  n # NULL => ~Less(list.node[n].time, list.node[e].time)

(***************************************************************************)
(* No handler is called before its time, nor before one that is due        *)
(* earlier: the list is in the order of the due times, also where the time *)
(* wraps.                                                                  *)
(***************************************************************************)
NotEarly == Sorted /\ (main.pc = "handler" => ~Less(now, main.due))

(***************************************************************************)
(* "Timer callback function that calls cyclic->handler() and reschedules   *)
(* itself" (timeouts.c:224): a cyclic timer is on the list exactly once,   *)
(* except while its handler runs.                                          *)
(***************************************************************************)
CyclicArmed ==
  \A c \in Cyclics :
    Cardinality({e \in Linked(list) : list.node[e].h = c})
      = IF main.pc \in {"handler", "arm", "link"} /\ main.h = c THEN 0 ELSE 1

\* Every cyclic timer's handler is called again and again.
CyclicFires ==
  \A c \in Cyclics : []<>(main.pc = "handler" /\ main.h = c)
=============================================================================
