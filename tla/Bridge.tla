------------------------------- MODULE Bridge -------------------------------
(***************************************************************************)
(* The Linux side, bridge/cannelloni_bridge.cpp: pairs of sockets, one on  *)
(* a virtual CAN interface and one for the UDP port of a gateway, and one  *)
(* loop that copies what arrives at either to the other.                   *)
(*                                                                         *)
(* Two threads call Runner::add: main, for the bridges named on the        *)
(* command line, before it enters Runner::run; and the Avahi thread, for   *)
(* every service that the browser reports as new and that resolves.  They  *)
(* share the map fds without a lock.                                       *)
(*                                                                         *)
(* The b-th call of add owns the descriptors <<"can", b>> and <<"udp", b>>.*)
(* A service is named after its CAN interface.  Frames are numbered by     *)
(* their sender: <<"app", n>> was written by an application to the virtual *)
(* interface, <<"dev", n>> was sent by the gateway.                        *)
(***************************************************************************)
EXTENDS Integers, Sequences, SequencesExt, FiniteSetsExt

CONSTANTS Services,    \* the CAN interfaces
          Arguments,   \* bridges named on the command line, in order
          MaxEvents,   \* size of the array given to epoll_wait
          MaxNew,      \* bound: how often the browser reports a service as new
          MaxFrames    \* bound: frames sent by applications and gateways

ASSUME BridgeAssumption == /\ Arguments \in Seq(Services)
                           /\ MaxEvents \in Nat \ {0}
                           /\ MaxNew \in Nat
                           /\ MaxFrames \in Nat

Threads == {"main", "avahi"}

VARIABLES owner,      \* owner[b]: the service of the b-th bridge
          fds,        \* keys of Runner::fds
          polled,     \* descriptors registered with epoll
          ready,      \* the kernel's list of descriptors with input
          inq,        \* what each socket has received: frames or datagrams
          add,        \* add[t]: the call of Runner::add thread t is in
          argv,       \* arguments main has still to handle
          found,      \* services resolved and not yet passed to add
          news,       \* how often each service was reported as new
          events,     \* the events run() has still to handle
          frames,     \* the vector run() reads into
          status,     \* "up", or "crashed"
          sent,       \* sent[s].app, sent[s].dev: frames sent so far
          got         \* got[s].app, got[s].dev: frames received so far

threads == <<add, argv, found, news>>
loop == <<ready, events, frames, status>>
traffic == <<sent, got>>
vars == <<owner, fds, polled, inq, threads, loop, traffic>>

Bridges == 1 .. Len(owner)

NoCall == [at |-> 0, b |-> 0]

Init == /\ owner = <<>>
        /\ fds = {}
        /\ polled = {}
        /\ ready = <<>>
        /\ inq = [can |-> <<>>, udp |-> <<>>]
        /\ add = [t \in Threads |-> NoCall]
        /\ argv = Arguments
        /\ found = <<>>
        /\ news = [s \in Services |-> 0]
        /\ events = <<>>
        /\ frames = <<>>
        /\ status = "up"
        /\ sent = [s \in Services |-> [app |-> 0, dev |-> 0]]
        /\ got = [s \in Services |-> [app |-> <<>>, dev |-> <<>>]]

-----------------------------------------------------------------------------

(***************************************************************************)
(* The kernel.  A descriptor is put on the ready list when it is           *)
(* registered and has input, and whenever something arrives at it.         *)
(***************************************************************************)
Queue(q, fd) == q[fd[1]][fd[2]]

Woken(fdset) == ready \o SetToSeq(fdset \ ToSet(ready))

\* The registered descriptors at which queues q hold more than they did.
Arrived(q) == {fd \in polled : Len(Queue(q, fd)) > Len(Queue(inq, fd))}

\* What the sockets of kind k that belong to service s receive.
Deliver(q, k, s, except, items) ==
  [q EXCEPT ![k] = [b \in Bridges |-> IF owner[b] = s /\ b # except
                                      THEN @[b] \o items ELSE @[b]]]

\* The frames sent so far.
Total == MapThenSumSet(LAMBDA s : sent[s].app + sent[s].dev, Services)

\* An application writes a frame to the virtual CAN interface.
AppSend(s) ==
  LET f == <<"app", sent[s].app + 1>>
  IN  /\ status = "up"
      /\ Total < MaxFrames
      /\ sent' = [sent EXCEPT ![s].app = @ + 1]
      /\ inq' = Deliver(inq, "can", s, 0, <<f>>)
      /\ ready' = Woken(Arrived(inq'))
      /\ UNCHANGED <<owner, fds, polled, threads, events, frames, status, got>>

\* The gateway sends a datagram of n frames to the multicast group.
DevSend(s, n) ==
  LET d == [i \in 1 .. n |-> <<"dev", sent[s].dev + i>>]
  IN  /\ status = "up"
      /\ Total + n <= MaxFrames
      /\ sent' = [sent EXCEPT ![s].dev = @ + n]
      /\ inq' = Deliver(inq, "udp", s, 0, <<d>>)
      /\ ready' = Woken(Arrived(inq'))
      /\ UNCHANGED <<owner, fds, polled, threads, events, frames, status, got>>

-----------------------------------------------------------------------------

(***************************************************************************)
(* browse_callback and resolve_callback: a service is new and resolves.    *)
(* AVAHI_BROWSER_REMOVE is not handled; a gateway that went away and comes *)
(* back is new again.                                                      *)
(***************************************************************************)
Resolve(s) ==
  /\ status = "up"
  /\ news[s] < MaxNew
  /\ news' = [news EXCEPT ![s] = @ + 1]
  /\ found' = Append(found, s)
  /\ UNCHANGED <<owner, fds, polled, inq, add, argv, loop, traffic>>

\* Runner::add up to the two constructors, which bind the sockets.
Open(t, s) ==
  /\ add[t] = NoCall
  /\ owner' = Append(owner, s)
  /\ inq' = [can |-> Append(inq.can, <<>>), udp |-> Append(inq.udp, <<>>)]
  /\ add' = [add EXCEPT ![t] = [at |-> 1, b |-> Len(owner) + 1]]

OpenFound ==
  /\ status = "up"
  /\ found # <<>>
  /\ Open("avahi", Head(found))
  /\ found' = Tail(found)
  /\ UNCHANGED <<fds, polled, argv, news, loop, traffic>>

OpenArgument ==
  /\ status = "up"
  /\ argv # <<>>
  /\ Open("main", Head(argv))
  /\ argv' = Tail(argv)
  /\ UNCHANGED <<fds, polled, found, news, loop, traffic>>

StepsPollFirst ==
  <<<<"poll", "can">>, <<"poll", "udp">>,
    <<"insert", "can">>, <<"assign", "can">>,
    <<"insert", "udp">>, <<"assign", "udp">>>>

StepsPollTwice ==
  <<<<"insert", "can">>, <<"assign", "can">>,
    <<"insert", "udp">>, <<"assign", "udp">>,
    <<"poll", "can">>, <<"poll", "can">>>>

\* The rest of Runner::add.  An assignment to fds[...] inserts a node in the
\* map, and then gives it its value.
Steps == <<<<"insert", "can">>, <<"assign", "can">>,
           <<"insert", "udp">>, <<"assign", "udp">>,
           <<"poll", "can">>, <<"poll", "udp">>>>

\* Thread t is in the middle of an assignment to fds[...].
Writing(t) == add[t].at > 0 /\ Steps[add[t].at][1] = "assign"

(***************************************************************************)
(* Thread t accesses the map.  While another thread is writing to it that  *)
(* is a data race: the access goes well or the process crashes.            *)
(***************************************************************************)
Access(t) ==
  \/ status' = status
  \/ /\ \E u \in Threads \ {t} : Writing(u)
     /\ status' = "crashed"

AddStep(t) ==
  LET op == Steps[add[t].at][1]
      fd == <<Steps[add[t].at][2], add[t].b>>
  IN  /\ status = "up"
      /\ add[t] # NoCall
      /\ IF op = "insert" THEN Access(t) ELSE UNCHANGED status
      /\ fds' = IF op = "assign" THEN fds \cup {fd} ELSE fds
      /\ polled' = IF op = "poll" THEN polled \cup {fd} ELSE polled
      /\ ready' = IF op = "poll" /\ Queue(inq, fd) # <<>> THEN Woken({fd}) ELSE ready
      /\ add' = [add EXCEPT ![t] = IF @.at = Len(Steps) THEN NoCall
                                   ELSE [@ EXCEPT !.at = @ + 1]]
      /\ UNCHANGED <<owner, inq, argv, found, news, events, frames, traffic>>

-----------------------------------------------------------------------------

\* main has handled its arguments and is in Runner::run.
Running == status = "up" /\ argv = <<>> /\ add["main"] = NoCall

EdgeTriggered == FALSE

\* add_epoll asks for EPOLLIN and not for EPOLLET.
LevelTriggered == TRUE

(***************************************************************************)
(* epoll_wait takes descriptors with input from the front of the list.     *)
(* Those that are level-triggered go back to its end, and are dropped when *)
(* they are met there without input.                                       *)
(***************************************************************************)
EpollWait ==
  LET live == SelectSeq(ready, LAMBDA fd : Queue(inq, fd) # <<>>)
      n == IF Len(live) < MaxEvents THEN Len(live) ELSE MaxEvents
  IN  /\ Running
      /\ events = <<>>
      /\ live # <<>>
      /\ events' = SubSeq(live, 1, n)
      /\ ready' = SubSeq(live, n + 1, Len(live))
                    \o IF LevelTriggered THEN SubSeq(live, 1, n) ELSE <<>>
      /\ UNCHANGED <<owner, fds, polled, inq, threads, status, frames, traffic>>

\* The frames of one read: a CAN frame, or all the frames of a datagram.
Read(fd) ==
  LET item == Head(Queue(inq, fd)) IN IF fd[1] = "can" THEN <<item>> ELSE item

NotCleared == frames

\* frames.clear()
Cleared == <<>>

(***************************************************************************)
(* Read a socket, and write what was read to the other one of the bridge.  *)
(* What is sent to the gateway arrives there.  What is written to a CAN    *)
(* socket reaches the applications, and every other CAN socket of the      *)
(* interface, those of this process included.                              *)
(***************************************************************************)
Copy(fd) ==
  LET b == fd[2]
      s == owner[b]
      rest == [inq EXCEPT ![fd[1]][b] = Tail(@)]
  IN  /\ frames' = Cleared \o Read(fd)
      /\ IF fd[1] = "can"
         THEN /\ inq' = rest
              /\ got' = [got EXCEPT ![s].dev = @ \o frames']
         ELSE /\ inq' = Deliver(rest, "can", s, b, frames')
              /\ got' = [got EXCEPT ![s].app = @ \o frames']

\* One event: the descriptor is looked up, and its bridge copies.
HandleEvent ==
  /\ Running
  /\ events # <<>>
  /\ events' = Tail(events)
  /\ IF Head(events) \in fds THEN Access("main") ELSE status' = "crashed"
  /\ IF status' = "up"
     THEN /\ Copy(Head(events))
          /\ ready' = Woken(Arrived(inq'))
     ELSE UNCHANGED <<inq, frames, got, ready>>
  /\ UNCHANGED <<owner, fds, polled, threads, sent>>

Next == \/ \E s \in Services : \/ AppSend(s)
                               \/ \E n \in 1 .. 2 : DevSend(s, n)
                               \/ Resolve(s)
        \/ OpenFound
        \/ OpenArgument
        \/ \E t \in Threads : AddStep(t)
        \/ EpollWait
        \/ HandleEvent

\* Both threads run; what applications, gateways and Avahi do is not forced.
Fairness == /\ WF_vars(OpenFound \/ AddStep("avahi"))
            /\ WF_vars(OpenArgument \/ AddStep("main") \/ EpollWait \/ HandleEvent)

Spec == Init /\ [][Next]_vars /\ Fairness

-----------------------------------------------------------------------------

(***************************************************************************)
(* Every event that run() handles is for a descriptor whose entry in fds   *)
(* has its two endpoints: Runner::add registers a descriptor with epoll    *)
(* after it has filled the map.                                            *)
(***************************************************************************)
EventHasBridge == ToSet(events) \subseteq fds

Crosses(fs, from) ==
  /\ \A i \in 1 .. Len(fs) : fs[i][1] = from
  /\ \A i, j \in 1 .. Len(fs) : i < j => fs[i][2] < fs[j][2]

(***************************************************************************)
(* tests/test_msgs.py:32-37 sends a frame on one side and expects it to be *)
(* what arrives at the other: frames of an application reach the gateway,  *)
(* and frames of the gateway the applications, in order, none twice, and   *)
(* none is sent back to where it came from, as long as no service has been *)
(* given a second bridge.                                                  *)
(***************************************************************************)
CrossesOnce ==
  IsInjective(owner) =>
    \A s \in Services : Crosses(got[s].dev, "app") /\ Crosses(got[s].app, "dev")

(***************************************************************************)
(* Whenever traffic pauses, everything that waits in a socket is copied,   *)
(* although run() handles MaxEvents descriptors per epoll_wait and reads   *)
(* one item for each, unless the process crashes.                          *)
(***************************************************************************)
EventuallyCopied ==
  []<>(status = "crashed" \/ \A fd \in polled : Queue(inq, fd) = <<>>)

(***************************************************************************)
(* README.md:12, "Automatically discovers TMS570 devices via mDNS and sets *)
(* up bridges": a service that has been found gets both its descriptors    *)
(* registered, unless the threads' race for the map ends the process.      *)
(***************************************************************************)
DiscoveredIsBridged ==
  \A s \in Services :
    (news[s] > 0) ~> (\/ status = "crashed"
                      \/ \E b \in Bridges : owner[b] = s
                           /\ {<<"can", b>>, <<"udp", b>>} \subseteq polled)
=============================================================================
