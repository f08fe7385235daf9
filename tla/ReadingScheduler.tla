-------------------------- MODULE ReadingScheduler --------------------------
(***************************************************************************)
(* packages/server/src/ws/reading-scheduler.ts with the subscription book- *)
(* keeping of packages/server/src/routes/ws.ts: one polling loop per key   *)
(* (a session and a topic), shared by the sockets subscribed to it.        *)
(*                                                                         *)
(* A loop object outlives its place in the map while a read it started is  *)
(* pending, so loops are numbered as they are made; `loopOf' is the map.   *)
(***************************************************************************)
EXTENDS Naturals, FiniteSets

CONSTANTS
  Sockets,
  Sessions,
  Topics,
  MaxLoops   \* bound: loop objects created

ASSUME MaxLoopsIsPositive == MaxLoops \in Nat \ {0}

Keys == Sessions \X Topics
Loops == 1..MaxLoops
NoLoop == 0
NoKey == <<>>

VARIABLES
  connected,  \* sockets whose handler runs
  wanted,     \* per socket: its `subscriptions' set
  removed,    \* sessions the manager has removed; ids are not used again
  loopOf,     \* #loops
  made,       \* loops created
  loop,       \* the loop objects
  served      \* history: <<socket, key>> sent a frame and not unsubscribed since

book == <<connected, wanted, removed>>
loopVars == <<loopOf, made, loop>>
vars == <<book, loopVars, served>>

\* `timer': the interval runs; `inFlight': a read is awaited; `seen': lastPayload
\* or lastError is set.
Unmade == [key |-> NoKey, subscribers |-> {}, timer |-> FALSE, inFlight |-> FALSE, seen |-> FALSE]

Init ==
  /\ connected = {}
  /\ wanted = [s \in Sockets |-> {}]
  /\ removed = {}
  /\ loopOf = [k \in Keys |-> NoLoop]
  /\ made = 0
  /\ loop = [n \in Loops |-> Unmade]
  /\ served = {}

\* subscriber.send: only an open socket gets the frame.
SendTo(sockets, k) == served' = served \cup ((sockets \cap connected) \X {k})

SendNothing == UNCHANGED served

\* A socket that leaves keys is no longer owed their readings.
Forget(s, keys) == served' = served \ ({s} \X keys)

-----------------------------------------------------------------------------
(* The scheduler *)

Started(k, s) == [key |-> k, subscribers |-> {s}, timer |-> TRUE, inFlight |-> TRUE, seen |-> FALSE]

\* Mutant of StartLoop: the new loop is not put in the map.
StartLoopUnmapped(s, k) ==
  /\ made < MaxLoops
  /\ made' = made + 1
  /\ loop' = [loop EXCEPT ![made + 1] = Started(k, s)]
  /\ SendNothing
  /\ UNCHANGED loopOf

\* subscribe() when the map has no loop: create it, start its interval and its
\* first read.
StartLoop(s, k) ==
  /\ made < MaxLoops
  /\ made' = made + 1
  /\ loopOf' = [loopOf EXCEPT ![k] = made + 1]
  /\ loop' = [loop EXCEPT ![made + 1] = Started(k, s)]
  /\ SendNothing

\* subscribe() when it has: join, and be replayed what the loop saw last.
JoinLoop(s, k) ==
  LET n == loopOf[k]
  IN  /\ loop' = [loop EXCEPT ![n].subscribers = @ \cup {s}]
      /\ IF loop[n].seen THEN SendTo({s}, k) ELSE SendNothing
      /\ UNCHANGED <<loopOf, made>>

\* The loops the map has for `keys'.
Mapped(keys) == {loopOf[k] : k \in keys} \ {NoLoop}

\* #stop for each of `loops', whose objects are by now `objects'.  Subscribers
\* that are left and a pending read stay.
StopLoops(loops, objects) ==
  /\ loopOf' = [k \in Keys |-> IF loopOf[k] \in loops THEN NoLoop ELSE loopOf[k]]
  /\ loop' = [n \in Loops |-> IF n \in loops THEN [objects[n] EXCEPT !.timer = FALSE] ELSE objects[n]]

\* Mutant of DropSubscriber: the last one is not taken out of the loop it stops.
DropSubscriberLate(s, keys) ==
  LET joined == {n \in Mapped(keys) : s \in loop[n].subscribers}
      emptied == {n \in joined : loop[n].subscribers = {s}}
  IN  StopLoops(emptied,
        [n \in Loops |-> IF n \in joined \ emptied THEN [loop[n] EXCEPT !.subscribers = @ \ {s}]
                                                   ELSE loop[n]])

\* The socket leaves the loops of `keys'; those it leaves empty are stopped.
DropSubscriber(s, keys) ==
  LET joined == {n \in Mapped(keys) : s \in loop[n].subscribers}
  IN  StopLoops({n \in joined : loop[n].subscribers = {s}},
        [n \in Loops |-> IF n \in joined THEN [loop[n] EXCEPT !.subscribers = @ \ {s}]
                                         ELSE loop[n]])

\* #tick up to its await: the interval fires.  A pending read, or no loop under
\* the key, and nothing happens.
Tick(n) ==
  /\ loop[n].timer
  /\ ~loop[n].inFlight
  /\ loopOf[loop[n].key] # NoLoop
  /\ loop' = [loop EXCEPT ![n].inFlight = TRUE]
  /\ SendNothing
  /\ UNCHANGED <<book, loopOf, made>>

\* #read: the facade answers; or there is none, it lacks the topic, or the query
\* fails.  Either way the subscribers are sent a frame.
ReadOutcomes == {"payload", "error"}

\* Mutant of ReadEnds: a failed read is not told.
ReadEndsQuietly(n) ==
  /\ loop[n].inFlight
  /\ \E outcome \in ReadOutcomes :
       IF outcome = "error" \/ loopOf[loop[n].key] = NoLoop
       THEN loop' = [loop EXCEPT ![n].inFlight = FALSE] /\ SendNothing
       ELSE /\ loop' = [loop EXCEPT ![n].inFlight = FALSE, ![n].seen = TRUE]
            /\ SendTo(loop[n].subscribers, loop[n].key)
  /\ UNCHANGED <<book, loopOf, made>>

\* #tick after its await.  What is checked is that the map has some loop under
\* the key, not that it is this one.
ReadEnds(n) ==
  /\ loop[n].inFlight
  /\ IF loopOf[loop[n].key] = NoLoop
     THEN loop' = [loop EXCEPT ![n].inFlight = FALSE] /\ SendNothing
     ELSE \E outcome \in ReadOutcomes :
            /\ loop' = [loop EXCEPT ![n].inFlight = FALSE, ![n].seen = outcome \in ReadOutcomes]
            /\ SendTo(loop[n].subscribers, loop[n].key)
  /\ UNCHANGED <<book, loopOf, made>>

-----------------------------------------------------------------------------
(* The route *)

\* A new connection, under a name no loop that may still send remembers.
SocketOpens(s) ==
  /\ s \notin connected
  /\ \A n \in Loops : s \in loop[n].subscribers =>
       ~loop[n].inFlight /\ loopOf[loop[n].key] # n
  /\ connected' = connected \cup {s}
  /\ SendNothing
  /\ UNCHANGED <<wanted, removed, loopVars>>

\* A "subscribe" frame; one for a key the socket already has is ignored.
Subscribe(s, k) ==
  /\ s \in connected
  /\ k \notin wanted[s]
  /\ wanted' = [wanted EXCEPT ![s] = @ \cup {k}]
  /\ IF loopOf[k] = NoLoop THEN StartLoop(s, k) ELSE JoinLoop(s, k)
  /\ UNCHANGED <<connected, removed>>

\* An "unsubscribe" frame for a key the socket has.
Unsubscribe(s, k) ==
  /\ s \in connected
  /\ k \in wanted[s]
  /\ wanted' = [wanted EXCEPT ![s] = @ \ {k}]
  /\ DropSubscriber(s, {k})
  /\ Forget(s, {k})
  /\ UNCHANGED <<connected, removed, made>>

\* The socket closes or errs: cleanup().
SocketCloses(s) ==
  /\ s \in connected
  /\ connected' = connected \ {s}
  /\ wanted' = [wanted EXCEPT ![s] = {}]
  /\ DropSubscriber(s, Keys)
  /\ Forget(s, Keys)
  /\ UNCHANGED <<removed, made>>

\* The manager's "removed": removeSession().
SessionRemoved(x) ==
  /\ x \notin removed
  /\ removed' = removed \cup {x}
  /\ StopLoops(Mapped({x} \X Topics), loop)
  /\ SendNothing
  /\ UNCHANGED <<connected, wanted, made>>

-----------------------------------------------------------------------------

Next ==
  \/ \E s \in Sockets : SocketOpens(s) \/ SocketCloses(s)
  \/ \E s \in Sockets, k \in Keys : Subscribe(s, k) \/ Unsubscribe(s, k)
  \/ \E x \in Sessions : SessionRemoved(x)
  \/ \E n \in Loops : Tick(n) \/ ReadEnds(n)

Spec == Init /\ [][Next]_vars

\* Intervals fire and reads end: every query of a read has a timeout.
FairSpec ==
  /\ Spec
  /\ \A n \in Loops : WF_vars(Tick(n)) /\ WF_vars(ReadEnds(n))

-----------------------------------------------------------------------------
(* Properties *)

\* While a session exists nobody is sent a reading of it that it did not ask
\* for, also not by a loop that was dropped while it read.
OnlyToThoseWhoAsked ==
  \A s \in Sockets, k \in Keys :
    <<s, k>> \in served => k \in wanted[s] \/ k[1] \in removed

\* While a session exists, a socket that wants one of its keys is in the loop
\* the map names: what the route remembers and what the scheduler does agree,
\* so that a repeated "subscribe" may be ignored.
WantedIsPolled ==
  \A s \in Sockets : \A k \in wanted[s] : k[1] \notin removed =>
    loopOf[k] # NoLoop /\ s \in loop[loopOf[k]].subscribers

\* A socket that subscribes is sent something, unless it leaves or the session
\* is removed.
SubscribersAreServed ==
  \A s \in Sockets, k \in Keys :
    k \in wanted[s] ~> (<<s, k>> \in served \/ k \notin wanted[s] \/ k[1] \in removed)
=============================================================================
