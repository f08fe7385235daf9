----------------------- MODULE ReadingSchedulerProofs -----------------------
(***************************************************************************)
(* The route's book and the scheduler's loops agree, for any number of     *)
(* sockets, sessions, topics and loops.                                    *)
(*                                                                         *)
(* A loop that was dropped while it read is not gone: its read ends, finds *)
(* some loop under its key and sends to the subscribers of its own.  So    *)
(* the invariant is about every loop object and not only the mapped ones:  *)
(* whoever is in a loop of a session that exists is in the one the map     *)
(* names, and wants what it reads.                                         *)
(***************************************************************************)
EXTENDS ReadingScheduler, TLAPS

Objects ==
  [key : Keys \cup {NoKey}, subscribers : SUBSET Sockets,
   timer : BOOLEAN, inFlight : BOOLEAN, seen : BOOLEAN]

Shape ==
  /\ connected \subseteq Sockets
  /\ wanted \in [Sockets -> SUBSET Keys]
  /\ removed \subseteq Sessions
  /\ made \in 0..MaxLoops
  /\ loopOf \in [Keys -> 0..made]
  /\ loop \in [Loops -> Objects]
  /\ served \subseteq Sockets \X Keys

\* The map names a loop of the key.
MapNames(k) == loopOf[k] # NoLoop => loop[loopOf[k]].key = k

\* Nobody is in a loop, or waits for one, that was not made.
MadeOnly(n) == IF n <= made THEN loop[n].key \in Keys ELSE loop[n] = Unmade

\* While its session exists a loop has only subscribers that want what it reads,
\* and has them only while the map names it.
OwnSubscribers(n) ==
  \A s \in loop[n].subscribers : loop[n].key[1] \notin removed =>
    loopOf[loop[n].key] = n /\ loop[n].key \in wanted[s]

\* OnlyToThoseWhoAsked and WantedIsPolled, for one socket and one key.
Asked(s, k) == <<s, k>> \in served => k \in wanted[s] \/ k[1] \in removed
Polled(s, k) ==
  k \in wanted[s] /\ k[1] \notin removed => loopOf[k] # NoLoop /\ s \in loop[loopOf[k]].subscribers

IInv ==
  /\ Shape
  /\ \A k \in Keys : MapNames(k)
  /\ \A n \in Loops : MadeOnly(n) /\ OwnSubscribers(n)
  /\ \A s \in Sockets, k \in Keys : Asked(s, k) /\ Polled(s, k)
-----------------------------------------------------------------------------

LEMMA InitiallyIInv == Init => IInv
<1> SUFFICES ASSUME Init PROVE IInv
  OBVIOUS
<1>1. Unmade \in Objects /\ 0 \in 0..MaxLoops
  BY MaxLoopsIsPositive DEF Unmade, Objects, NoKey
<1>2. Shape
  BY <1>1 DEF Init, Shape, NoLoop
<1>3. \A n \in Loops : ~(n <= made) /\ loop[n].subscribers = {}
  BY MaxLoopsIsPositive DEF Init, Loops, Unmade
<1>4. \A k \in Keys : MapNames(k)
  BY DEF Init, MapNames
<1>5. \A n \in Loops : MadeOnly(n) /\ OwnSubscribers(n)
  BY <1>3 DEF Init, MadeOnly, OwnSubscribers
<1>6. \A s \in Sockets, k \in Keys : Asked(s, k) /\ Polled(s, k)
  BY DEF Init, Asked, Polled
<1> QED
  BY <1>2, <1>4, <1>5, <1>6 DEF IInv

\* What a loop in the map is.
LEMMA Named ==
  ASSUME IInv, NEW k \in Keys, loopOf[k] # NoLoop
  PROVE  loopOf[k] \in Loops /\ loopOf[k] <= made /\ loop[loopOf[k]].key = k
BY MaxLoopsIsPositive DEF IInv, Shape, MapNames, NoLoop, Loops

\* A socket that gives up keys leaves their loops, and nobody else does.
LEMMA Dropped ==
  ASSUME IInv, NEW s \in Sockets, NEW keys \in SUBSET Keys,
         DropSubscriber(s, keys), Forget(s, keys),
         wanted' = [wanted EXCEPT ![s] = @ \ keys],
         connected' \subseteq Sockets, UNCHANGED <<removed, made>>
  PROVE  IInv'
<1> DEFINE joined == {n \in Mapped(keys) : s \in loop[n].subscribers}
           emptied == {n \in joined : loop[n].subscribers = {s}}
<1> USE MaxLoopsIsPositive
<1>1. \A n \in joined : /\ n \in Loops /\ n <= made
                         /\ \E k \in keys : loopOf[k] = n /\ loop[n].key = k
  BY Named DEF Mapped
<1>2. \A k \in Keys : loopOf'[k] = IF loopOf[k] \in emptied THEN NoLoop ELSE loopOf[k]
  BY DEF DropSubscriber, StopLoops
<1>3. ASSUME NEW n \in Loops
      PROVE  /\ loop'[n] \in Objects
             /\ loop'[n].key = loop[n].key
             /\ loop'[n].subscribers = IF n \in joined THEN loop[n].subscribers \ {s}
                                                       ELSE loop[n].subscribers
             /\ n \notin joined => loop'[n] = loop[n]
  <2> DEFINE left == IF n \in joined THEN [loop[n] EXCEPT !.subscribers = @ \ {s}] ELSE loop[n]
  <2>1. loop'[n] = IF n \in emptied THEN [left EXCEPT !.timer = FALSE] ELSE left
    BY DEF DropSubscriber, StopLoops
  <2>2. loop[n] \in Objects /\ emptied \subseteq joined
    BY DEF IInv, Shape
  <2>3. /\ left \in Objects /\ left.key = loop[n].key
        /\ left.subscribers = IF n \in joined THEN loop[n].subscribers \ {s}
                                               ELSE loop[n].subscribers
    BY <2>2 DEF Objects
  <2> HIDE DEF left, emptied, joined
  <2>4. /\ [left EXCEPT !.timer = FALSE] \in Objects
        /\ [left EXCEPT !.timer = FALSE].key = left.key
        /\ [left EXCEPT !.timer = FALSE].subscribers = left.subscribers
    BY <2>3 DEF Objects
  <2>5. n \notin joined => left = loop[n] /\ n \notin emptied
    BY <2>2 DEF left
  <2> QED
    BY <2>1, <2>3, <2>4, <2>5
<1>4. loop' = [n \in Loops |-> loop'[n]] /\ loopOf' = [k \in Keys |-> loopOf'[k]]
  BY DEF DropSubscriber, StopLoops
<1>5. \A k \in Keys : loopOf[k] \in 0..made
  BY DEF IInv, Shape
<1>6. \A z \in Sockets : wanted'[z] = IF z = s THEN wanted[z] \ keys ELSE wanted[z]
  BY DEF IInv, Shape
<1> HIDE DEF joined
<1>7. Shape'
  <2>1. loop' \in [Loops -> Objects]
    BY <1>3, <1>4
  <2>2. loopOf' \in [Keys -> 0..made']
    BY <1>2, <1>4, <1>5 DEF IInv, Shape, NoLoop
  <2> QED
    BY <2>1, <2>2 DEF IInv, Shape, Forget
<1>8. ASSUME NEW k \in Keys PROVE MapNames(k)'
  <2> SUFFICES ASSUME loopOf'[k] # NoLoop PROVE loop'[loopOf'[k]].key = k
    BY DEF MapNames
  <2>1. loopOf'[k] = loopOf[k]
    BY <1>2
  <2> QED
    BY <1>3, <2>1, Named
<1>9. ASSUME NEW n \in Loops PROVE MadeOnly(n)' /\ OwnSubscribers(n)'
  <2>1. MadeOnly(n) /\ OwnSubscribers(n)
    BY DEF IInv
  <2>2. MadeOnly(n)'
    BY <1>1, <1>3, <2>1 DEF MadeOnly
  <2>3. ASSUME NEW z \in loop'[n].subscribers, loop'[n].key[1] \notin removed'
        PROVE  loopOf'[loop'[n].key] = n /\ loop'[n].key \in wanted'[z]
    <3> DEFINE k == loop[n].key
    <3>1. z \in loop[n].subscribers /\ z \in Sockets /\ loop'[n].key = k
      BY <1>3, <2>3 DEF IInv, Shape, Objects
    <3>2. loopOf[k] = n /\ k \in wanted[z]
      BY <2>1, <2>3, <3>1 DEF OwnSubscribers
    <3>3. k \in Keys
      BY <3>1, <3>2 DEF IInv, Shape
    <3>4. n \notin emptied
      BY <1>3, <2>3
    <3>5. z = s => k \notin keys
      <4> SUFFICES ASSUME z = s, k \in keys PROVE FALSE
        OBVIOUS
      <4>1. n \in Mapped(keys)
        BY <3>2 DEF Mapped, Loops, NoLoop
      <4> QED
        BY <1>3, <2>3, <3>1, <4>1 DEF joined
    <3> QED
      BY <1>2, <1>6, <3>1, <3>2, <3>3, <3>4, <3>5
  <2> QED
    BY <2>2, <2>3 DEF OwnSubscribers
<1>10. ASSUME NEW z \in Sockets, NEW k \in Keys PROVE Asked(z, k)' /\ Polled(z, k)'
  <2>1. Asked(z, k) /\ Polled(z, k)
    BY DEF IInv
  <2>2. Asked(z, k)'
    BY <1>6, <2>1 DEF Asked, Forget
  <2>3. ASSUME k \in wanted'[z], k[1] \notin removed'
        PROVE  loopOf'[k] # NoLoop /\ z \in loop'[loopOf'[k]].subscribers
    <3>1. k \in wanted[z] /\ (z = s => k \notin keys)
      BY <1>6, <2>3
    <3>2. loopOf[k] # NoLoop /\ z \in loop[loopOf[k]].subscribers
      BY <2>1, <2>3, <3>1 DEF Polled
    <3>3. z = s => loopOf[k] \notin joined
      BY <1>1, <3>1, <3>2, Named
    <3>4. loopOf[k] \notin emptied
      BY <3>2, <3>3
    <3> QED
      BY <1>2, <1>3, <3>2, <3>3, <3>4, Named
  <2> QED
    BY <2>2, <2>3 DEF Polled
<1> QED
  BY <1>7, <1>8, <1>9, <1>10 DEF IInv

\* A subscription starts a loop, or joins the one there is.
LEMMA SubscribeKeeps ==
  ASSUME IInv, NEW s \in Sockets, NEW k \in Keys, Subscribe(s, k)
  PROVE  IInv'
<1> USE MaxLoopsIsPositive
<1>1. \A z \in Sockets : wanted'[z] = IF z = s THEN wanted[z] \cup {k} ELSE wanted[z]
  BY DEF IInv, Shape, Subscribe
<1>2. wanted' \in [Sockets -> SUBSET Keys]
  BY DEF IInv, Shape, Subscribe
<1>3. \A n \in Loops : loop[n] \in Objects
  BY DEF IInv, Shape
<1>4. CASE loopOf[k] = NoLoop
  <2> DEFINE m == made + 1
  <2>1. /\ made' = m /\ m \in Loops /\ made \in Nat /\ m <= MaxLoops
        /\ loopOf' = [loopOf EXCEPT ![k] = m]
        /\ loop' = [loop EXCEPT ![m] = Started(k, s)]
        /\ UNCHANGED <<served, connected, removed>>
    BY <1>4 DEF Subscribe, StartLoop, SendNothing, IInv, Shape, Loops
  <2>2. \A j \in Keys : loopOf'[j] = IF j = k THEN m ELSE loopOf[j]
    BY <2>1 DEF IInv, Shape
  <2>3. \A n \in Loops : loop'[n] = IF n = m THEN Started(k, s) ELSE loop[n]
    BY <2>1 DEF IInv, Shape
  <2>4. Started(k, s) \in Objects /\ Started(k, s).key = k /\ Started(k, s).subscribers = {s}
    BY DEF Started, Objects
  <2>5. Shape'
    <3>1. loop' \in [Loops -> Objects]
      BY <2>1, <2>4 DEF IInv, Shape
    <3>2. loopOf' \in [Keys -> 0..made']
      BY <2>1 DEF IInv, Shape
    <3> QED
      BY <1>2, <2>1, <3>1, <3>2 DEF IInv, Shape
  <2>6. \A j \in Keys : loopOf[j] # NoLoop => loopOf[j] \in Loops /\ loopOf[j] # m
    BY <2>1, Named
  <2>7. ASSUME NEW j \in Keys PROVE MapNames(j)'
    BY <2>1, <2>2, <2>3, <2>4, <2>6 DEF MapNames, IInv
  <2>8. ASSUME NEW n \in Loops PROVE MadeOnly(n)' /\ OwnSubscribers(n)'
    <3>1. MadeOnly(n) /\ OwnSubscribers(n)
      BY DEF IInv
    <3>2. CASE n = m
      <4>1. loop'[n] = Started(k, s) /\ k \in wanted'[s] /\ loopOf'[k] = n
        BY <1>1, <2>2, <2>3, <3>2
      <4>2. n <= made'
        BY <2>1, <3>2
      <4> QED
        BY <2>4, <4>1, <4>2 DEF MadeOnly, OwnSubscribers
    <3>3. CASE n # m
      <4>1. loop'[n] = loop[n] /\ (n <= made' <=> n <= made)
        BY <2>1, <2>3, <3>3 DEF Loops
      <4>2. ASSUME NEW z \in loop[n].subscribers, loop[n].key[1] \notin removed
            PROVE  loopOf'[loop[n].key] = n /\ loop[n].key \in wanted'[z]
        <5>1. loopOf[loop[n].key] = n /\ loop[n].key \in wanted[z] /\ z \in Sockets
          BY <1>3, <3>1, <4>2 DEF OwnSubscribers, Objects
        <5>2. loop[n].key \in Keys /\ n # NoLoop
          BY <5>1 DEF IInv, Shape, Loops, NoLoop
        <5> QED
          BY <1>1, <1>4, <2>2, <5>1, <5>2
      <4>3. MadeOnly(n)'
        BY <3>1, <4>1 DEF MadeOnly
      <4> QED
        BY <2>1, <4>1, <4>2, <4>3 DEF OwnSubscribers
    <3> QED
      BY <3>2, <3>3
  <2>9. ASSUME NEW z \in Sockets, NEW j \in Keys PROVE Asked(z, j)' /\ Polled(z, j)'
    <3>1. Asked(z, j) /\ Polled(z, j)
      BY DEF IInv
    <3>2. Asked(z, j)'
      BY <1>1, <2>1, <3>1 DEF Asked
    <3>3. ASSUME j \in wanted'[z], j[1] \notin removed'
          PROVE  loopOf'[j] # NoLoop /\ z \in loop'[loopOf'[j]].subscribers
      <4>1. CASE j = k
        <5>1. z = s
          BY <1>1, <1>4, <2>1, <3>1, <3>3, <4>1 DEF Polled
        <5> QED
          BY <2>1, <2>2, <2>3, <2>4, <4>1, <5>1 DEF NoLoop
      <4>2. CASE j # k
        <5>1. loopOf[j] # NoLoop /\ z \in loop[loopOf[j]].subscribers
          BY <1>1, <2>1, <3>1, <3>3, <4>2 DEF Polled
        <5> QED
          BY <2>2, <2>3, <2>6, <4>2, <5>1
      <4> QED
        BY <4>1, <4>2
    <3> QED
      BY <3>2, <3>3 DEF Polled
  <2> QED
    BY <2>5, <2>7, <2>8, <2>9 DEF IInv
<1>5. CASE loopOf[k] # NoLoop
  <2> DEFINE m == loopOf[k]
  <2>1. /\ m \in Loops /\ m <= made /\ loop[m].key = k
    BY <1>5, Named
  <2>2. /\ loop' = [loop EXCEPT ![m].subscribers = @ \cup {s}]
        /\ UNCHANGED <<loopOf, made, connected, removed>>
        /\ served' \subseteq served \cup {<<s, k>>}
    BY <1>5 DEF Subscribe, JoinLoop, SendTo, SendNothing
  <2> HIDE DEF m
  <2>3. \A n \in Loops : n # m => loop'[n] = loop[n]
    BY <2>1, <2>2 DEF IInv, Shape
  <2>4. /\ loop'[m] \in Objects /\ loop'[m].key = k
        /\ loop'[m].subscribers = loop[m].subscribers \cup {s}
    <3>1. loop'[m] = [loop[m] EXCEPT !.subscribers = @ \cup {s}]
      BY <2>1, <2>2 DEF IInv, Shape
    <3> QED
      BY <1>3, <2>1, <3>1 DEF Objects
  <2>5. Shape'
    <3>1. loop' \in [Loops -> Objects]
      BY <1>3, <2>2, <2>3, <2>4 DEF IInv, Shape
    <3> QED
      BY <1>2, <2>2, <3>1 DEF IInv, Shape
  <2>6. ASSUME NEW j \in Keys PROVE MapNames(j)'
    <3>1. MapNames(j) /\ (loopOf[j] # NoLoop => loopOf[j] \in Loops)
      BY Named DEF IInv
    <3> QED
      BY <2>1, <2>2, <2>3, <2>4, <3>1 DEF MapNames
  <2>7. ASSUME NEW n \in Loops PROVE MadeOnly(n)' /\ OwnSubscribers(n)'
    <3>1. MadeOnly(n) /\ OwnSubscribers(n)
      BY DEF IInv
    <3>2. MadeOnly(n)'
      BY <2>1, <2>2, <2>3, <2>4, <3>1 DEF MadeOnly
    <3>3. ASSUME NEW z \in loop'[n].subscribers, loop'[n].key[1] \notin removed'
          PROVE  loopOf'[loop'[n].key] = n /\ loop'[n].key \in wanted'[z]
      <4>1. loop'[n].key = loop[n].key /\ z \in Sockets
        BY <1>3, <2>1, <2>3, <2>4, <3>3 DEF Objects
      <4>2. CASE z \in loop[n].subscribers
        <5>1. loop[n].key[1] \notin removed
          BY <2>2, <3>3, <4>1
        <5>2. loopOf[loop[n].key] = n /\ loop[n].key \in wanted[z]
          BY <3>1, <4>2, <5>1 DEF OwnSubscribers
        <5> QED
          BY <1>1, <2>2, <4>1, <5>2
      <4>3. CASE z \notin loop[n].subscribers
        <5>1. n = m /\ z = s
          BY <2>3, <2>4, <3>3, <4>3
        <5> QED
          BY <1>1, <2>1, <2>2, <4>1, <5>1 DEF m
      <4> QED
        BY <4>2, <4>3
    <3> QED
      BY <3>2, <3>3 DEF OwnSubscribers
  <2>8. ASSUME NEW z \in Sockets, NEW j \in Keys PROVE Asked(z, j)' /\ Polled(z, j)'
    <3>1. Asked(z, j) /\ Polled(z, j) /\ (loopOf[j] # NoLoop => loopOf[j] \in Loops)
      BY Named DEF IInv
    <3>2. Asked(z, j)'
      BY <1>1, <2>2, <3>1 DEF Asked
    <3>3. ASSUME j \in wanted'[z], j[1] \notin removed'
          PROVE  loopOf'[j] # NoLoop /\ z \in loop'[loopOf'[j]].subscribers
      <4>1. CASE j = k /\ z = s
        BY <1>5, <2>2, <2>4, <4>1 DEF m
      <4>2. CASE ~(j = k /\ z = s)
        <5>1. loopOf[j] # NoLoop /\ z \in loop[loopOf[j]].subscribers
          BY <1>1, <2>2, <3>1, <3>3, <4>2 DEF Polled
        <5> QED
          BY <2>2, <2>3, <2>4, <3>1, <5>1
      <4> QED
        BY <4>1, <4>2
    <3> QED
      BY <3>2, <3>3 DEF Polled
  <2> QED
    BY <2>5, <2>6, <2>7, <2>8 DEF IInv
<1> QED
  BY <1>4, <1>5

\* #stop of the loops of a session that is gone.
LEMMA RemovedKeeps ==
  ASSUME IInv, NEW x \in Sessions, SessionRemoved(x)
  PROVE  IInv'
<1> DEFINE stopped == Mapped({x} \X Topics)
<1> USE MaxLoopsIsPositive
<1>1. /\ removed' = removed \cup {x} /\ UNCHANGED <<connected, wanted, made, served>>
      /\ loopOf' = [k \in Keys |-> IF loopOf[k] \in stopped THEN NoLoop ELSE loopOf[k]]
      /\ loop' = [n \in Loops |-> IF n \in stopped THEN [loop[n] EXCEPT !.timer = FALSE] ELSE loop[n]]
  BY DEF SessionRemoved, StopLoops, SendNothing
<1>2. \A n \in stopped : n \in Loops /\ n <= made /\ loop[n].key \in {x} \X Topics
  BY Named DEF Mapped, Keys
<1> HIDE DEF stopped
<1>3. ASSUME NEW n \in Loops
      PROVE  /\ loop'[n] \in Objects /\ loop'[n].key = loop[n].key
             /\ loop'[n].subscribers = loop[n].subscribers
             /\ n \notin stopped => loop'[n] = loop[n]
  <2>1. loop[n] \in Objects
    BY DEF IInv, Shape
  <2> QED
    BY <1>1, <2>1 DEF Objects
<1>4. \A k \in Keys : loopOf'[k] = IF loopOf[k] \in stopped THEN NoLoop ELSE loopOf[k]
  BY <1>1
<1>5. \A k \in Keys : loopOf[k] \in stopped => k[1] = x
  BY <1>2, Named DEF Loops, NoLoop
<1>6. Shape'
  <2>1. loop' \in [Loops -> Objects]
    BY <1>1, <1>3
  <2>2. loopOf' \in [Keys -> 0..made']
    BY <1>1 DEF IInv, Shape, NoLoop
  <2> QED
    BY <1>1, <2>1, <2>2 DEF IInv, Shape
<1>7. ASSUME NEW k \in Keys PROVE MapNames(k)'
  <2> SUFFICES ASSUME loopOf'[k] # NoLoop PROVE loop'[loopOf'[k]].key = k
    BY DEF MapNames
  <2>1. loopOf'[k] = loopOf[k]
    BY <1>4
  <2> QED
    BY <1>3, <2>1, Named
<1>8. ASSUME NEW n \in Loops PROVE MadeOnly(n)' /\ OwnSubscribers(n)'
  <2>1. MadeOnly(n) /\ OwnSubscribers(n)
    BY DEF IInv
  <2>2. MadeOnly(n)'
    BY <1>1, <1>2, <1>3, <2>1 DEF MadeOnly
  <2>3. ASSUME NEW z \in loop'[n].subscribers, loop'[n].key[1] \notin removed'
        PROVE  loopOf'[loop'[n].key] = n /\ loop'[n].key \in wanted'[z]
    <3>1. /\ z \in loop[n].subscribers /\ z \in Sockets /\ loop'[n].key = loop[n].key
          /\ loop[n].key[1] # x /\ loop[n].key[1] \notin removed
      BY <1>1, <1>3, <2>3 DEF IInv, Shape, Objects
    <3>2. loopOf[loop[n].key] = n /\ loop[n].key \in wanted[z] /\ loop[n].key \in Keys
      BY <2>1, <3>1 DEF OwnSubscribers, IInv, Shape
    <3> QED
      BY <1>1, <1>4, <1>5, <3>1, <3>2
  <2> QED
    BY <2>2, <2>3 DEF OwnSubscribers
<1>9. ASSUME NEW z \in Sockets, NEW k \in Keys PROVE Asked(z, k)' /\ Polled(z, k)'
  <2>1. Asked(z, k) /\ Polled(z, k)
    BY DEF IInv
  <2>2. Asked(z, k)'
    BY <1>1, <2>1 DEF Asked
  <2>3. ASSUME k \in wanted'[z], k[1] \notin removed'
        PROVE  loopOf'[k] # NoLoop /\ z \in loop'[loopOf'[k]].subscribers
    <3>1. loopOf[k] # NoLoop /\ z \in loop[loopOf[k]].subscribers
      BY <1>1, <2>1, <2>3 DEF Polled
    <3>2. loopOf'[k] = loopOf[k] /\ loopOf[k] \in Loops
      BY <1>1, <1>4, <1>5, <2>3, <3>1, Named
    <3> QED
      BY <1>3, <3>1, <3>2
  <2> QED
    BY <2>2, <2>3 DEF Polled
<1> QED
  BY <1>6, <1>7, <1>8, <1>9 DEF IInv

\* A read that starts or ends changes neither who is in which loop nor the map.
LEMMA SameBook ==
  ASSUME IInv, NEW n \in Loops, loop[n].timer \/ loop[n].inFlight,
         NEW inFlight \in BOOLEAN, NEW seen \in BOOLEAN,
         loop' = [loop EXCEPT ![n].inFlight = inFlight, ![n].seen = seen],
         UNCHANGED <<wanted, removed, made, loopOf>>, connected' \subseteq Sockets,
         served' \subseteq Sockets \X Keys,
         \A s \in Sockets, k \in Keys : Asked(s, k)'
  PROVE  IInv'
<1>1. n <= made /\ loop \in [Loops -> Objects]
  BY DEF IInv, Shape, MadeOnly, Unmade
<1>2. ASSUME NEW m \in Loops
      PROVE  /\ loop'[m] \in Objects /\ loop'[m].key = loop[m].key
             /\ loop'[m].subscribers = loop[m].subscribers
             /\ m # n => loop'[m] = loop[m]
  <2>1. loop[m] \in Objects
    BY <1>1
  <2>2. CASE m # n
    BY <1>1, <2>1, <2>2
  <2>3. CASE m = n
    <3> DEFINE ended == [loop[n] EXCEPT !.inFlight = inFlight, !.seen = seen]
    <3>1. loop'[n] = ended
      BY <1>1
    <3>2. ended \in Objects /\ ended.key = loop[n].key /\ ended.subscribers = loop[n].subscribers
      BY <2>1, <2>3 DEF Objects
    <3> QED
      BY <2>3, <3>1, <3>2
  <2> QED
    BY <2>2, <2>3
<1>3. Shape'
  <2>1. loop' \in [Loops -> Objects]
    BY <1>1, <1>2 DEF IInv, Shape
  <2> QED
    BY <2>1 DEF IInv, Shape
<1>4. ASSUME NEW k \in Keys PROVE MapNames(k)'
  <2>1. MapNames(k) /\ (loopOf[k] # NoLoop => loopOf[k] \in Loops)
    BY Named DEF IInv
  <2> QED
    BY <1>2, <2>1 DEF MapNames
<1>5. ASSUME NEW m \in Loops PROVE MadeOnly(m)' /\ OwnSubscribers(m)'
  <2>1. MadeOnly(m) /\ OwnSubscribers(m)
    BY DEF IInv
  <2> QED
    BY <1>1, <1>2, <2>1 DEF MadeOnly, OwnSubscribers
<1>6. ASSUME NEW s \in Sockets, NEW k \in Keys PROVE Polled(s, k)'
  <2>1. Polled(s, k) /\ (loopOf[k] # NoLoop => loopOf[k] \in Loops)
    BY Named DEF IInv
  <2> QED
    BY <1>2, <2>1 DEF Polled
<1> QED
  BY <1>3, <1>4, <1>5, <1>6 DEF IInv

LEMMA TickKeeps ==
  ASSUME IInv, NEW n \in Loops, Tick(n)
  PROVE  IInv'
<1>1. /\ loop' = [loop EXCEPT ![n].inFlight = TRUE]
      /\ loop[n] \in Objects /\ loop[n].timer
      /\ UNCHANGED <<book, loopOf, made, served>>
  BY DEF Tick, IInv, Shape, SendNothing
<1>2. loop' = [loop EXCEPT ![n].inFlight = TRUE, ![n].seen = loop[n].seen]
  BY <1>1 DEF Objects, IInv, Shape
<1> QED
  BY <1>1, <1>2, SameBook DEF Objects, IInv, Shape, Asked, book

\* The frame goes to the loop's own subscribers, mapped or not.
LEMMA ReadKeeps ==
  ASSUME IInv, NEW n \in Loops, ReadEnds(n)
  PROVE  IInv'
<1>1. loop[n] \in Objects /\ loop[n].inFlight /\ OwnSubscribers(n)
  BY DEF ReadEnds, IInv, Shape
<1>2. UNCHANGED <<connected, wanted, removed, loopOf, made>> /\ connected \subseteq Sockets
  BY DEF ReadEnds, book, IInv, Shape
<1>3. CASE loopOf[loop[n].key] = NoLoop
  <2>1. loop' = [loop EXCEPT ![n].inFlight = FALSE] /\ served' = served
    BY <1>3 DEF ReadEnds, SendNothing
  <2>2. loop' = [loop EXCEPT ![n].inFlight = FALSE, ![n].seen = loop[n].seen]
    BY <1>1, <2>1 DEF Objects, IInv, Shape
  <2> QED
    BY <1>1, <1>2, <2>1, <2>2, SameBook DEF Objects, IInv, Shape, Asked
<1>4. CASE loopOf[loop[n].key] # NoLoop
  <2> DEFINE k == loop[n].key
  <2>1. PICK seen \in BOOLEAN : loop' = [loop EXCEPT ![n].inFlight = FALSE, ![n].seen = seen]
    BY <1>4 DEF ReadEnds
  <2>2. served' = served \cup ((loop[n].subscribers \cap connected) \X {k})
    BY <1>4 DEF ReadEnds, SendTo
  <2>3. k \in Keys
    BY <1>1 DEF IInv, MadeOnly, Unmade
  <2>4. served' \subseteq Sockets \X Keys
    BY <1>2, <2>2, <2>3 DEF IInv, Shape
  <2>5. ASSUME NEW s \in Sockets, NEW j \in Keys PROVE Asked(s, j)'
    <3>1. Asked(s, j)
      BY DEF IInv
    <3>2. <<s, j>> \in served' => <<s, j>> \in served \/ (s \in loop[n].subscribers /\ j = k)
      BY <2>2
    <3> QED
      BY <1>1, <1>2, <3>1, <3>2 DEF Asked, OwnSubscribers
  <2> QED
    BY <1>1, <1>2, <2>1, <2>4, <2>5, SameBook
<1> QED
  BY <1>3, <1>4

LEMMA NextKeeps == IInv /\ [Next]_vars => IInv'
<1> SUFFICES ASSUME IInv, [Next]_vars PROVE IInv'
  OBVIOUS
<1>1. ASSUME NEW s \in Sockets, SocketOpens(s) PROVE IInv'
  BY <1>1 DEF SocketOpens, SendNothing, loopVars, IInv, Shape, MapNames, MadeOnly,
              OwnSubscribers, Asked, Polled
<1>2. ASSUME NEW s \in Sockets, SocketCloses(s) PROVE IInv'
  <2>1. wanted' = [wanted EXCEPT ![s] = @ \ Keys]
    BY <1>2 DEF SocketCloses, IInv, Shape
  <2>2. connected' \subseteq Sockets
    BY <1>2 DEF SocketCloses, IInv, Shape
  <2> QED
    BY <1>2, <2>1, <2>2, Dropped DEF SocketCloses
<1>3. ASSUME NEW s \in Sockets, NEW k \in Keys, Subscribe(s, k) PROVE IInv'
  BY <1>3, SubscribeKeeps
<1>4. ASSUME NEW s \in Sockets, NEW k \in Keys, Unsubscribe(s, k) PROVE IInv'
  <2>1. {k} \in SUBSET Keys /\ connected' \subseteq Sockets
    BY <1>4 DEF Unsubscribe, IInv, Shape
  <2> QED
    BY <1>4, <2>1, Dropped DEF Unsubscribe
<1>5. ASSUME NEW x \in Sessions, SessionRemoved(x) PROVE IInv'
  BY <1>5, RemovedKeeps
<1>6. ASSUME NEW n \in Loops, Tick(n) \/ ReadEnds(n) PROVE IInv'
  BY <1>6, TickKeeps, ReadKeeps
<1>7. CASE UNCHANGED vars
  BY <1>7 DEF vars, book, loopVars, IInv, Shape, MapNames, MadeOnly, OwnSubscribers, Asked, Polled
<1> QED
  BY <1>1, <1>2, <1>3, <1>4, <1>5, <1>6, <1>7 DEF Next
-----------------------------------------------------------------------------
(* Theorems *)

\* Whatever sockets subscribe, leave and lose, whichever reads are pending when a
\* loop is dropped and its key taken up again, the book of ws.ts and the loops of
\* reading-scheduler.ts stay in step.
THEOREM IInvHolds == Spec => []IInv
<1>1. Init => IInv
  BY InitiallyIInv
<1>2. IInv /\ [Next]_vars => IInv'
  BY NextKeeps
<1> QED
  BY <1>1, <1>2, PTL DEF Spec

\* The map names only loops that were made, and every variable has its type.
THEOREM TypeCorrect == Spec => []Shape
<1>1. IInv => Shape
  BY DEF IInv
<1> QED
  BY <1>1, IInvHolds, PTL

\* #tick sends what it read to the loop's subscribers after checking only that the
\* map has some loop under the key; still nobody is sent what it did not ask for.
THEOREM NobodyElseIsSent == Spec => []OnlyToThoseWhoAsked
<1>1. IInv => OnlyToThoseWhoAsked
  BY DEF IInv, Asked, OnlyToThoseWhoAsked
<1> QED
  BY <1>1, IInvHolds, PTL

\* ws.ts ignores a "subscribe" for a key the socket already has; it may, for the
\* socket is then in the loop that polls the key.
THEOREM TheBookAgrees == Spec => []WantedIsPolled
<1>1. IInv => WantedIsPolled
  <2> SUFFICES ASSUME IInv, NEW s \in Sockets, NEW k \in wanted[s], k[1] \notin removed
               PROVE  loopOf[k] # NoLoop /\ s \in loop[loopOf[k]].subscribers
    BY DEF WantedIsPolled
  <2>1. k \in Keys
    BY DEF IInv, Shape
  <2> QED
    BY <2>1 DEF IInv, Polled
<1> QED
  BY <1>1, IInvHolds, PTL
=============================================================================
