------------------------ MODULE SessionManagerProofs ------------------------
(***************************************************************************)
(* What SessionManager promises holds for any number of sessions, attempts *)
(* and silent instruments.                                                 *)
(*                                                                         *)
(* Everything turns on who may write to a session: an attempt that is      *)
(* before its catch block is the newest one and its session is connecting, *)
(* so that only one coroutine at a time decides about it; one that is in   *)
(* its catch block may be older, and what it then clears is the exception  *)
(* that NeverRaced names.                                                  *)
(***************************************************************************)
EXTENDS SessionManager, TLAPS

Statuses == {"none", "connecting", "connected", "error"}

MaybeAttempts == Attempts \cup {NoAttempt}

InternalSessions ==
  [status : Statuses, scpi : MaybeAttempts, rings : MaybeAttempts, listener : MaybeAttempts,
   poller : MaybeAttempts, facade : BOOLEAN, known : BOOLEAN, attempt : Nat]

Active == {"connecting", "idn", "refining"}

Shape ==
  /\ table \subseteq Ids
  /\ session \in [Ids -> InternalSessions]
  /\ pc \in [Ids -> [Attempts -> Active \cup {"idle", "catch", "done"}]]
  /\ conn \in [Ids -> [Attempts -> {"none", "open", "lost", "closed"}]]
  /\ closing \in [Ids -> {"no", "ending", "done"}]
  /\ told \in [Ids -> Statuses \cup {"removed"}]

\* What is left of attempts that have not begun, and of a session not yet opened.
Unbegun(id) ==
  /\ \A n \in Attempts : n > session[id].attempt => pc[id][n] = "idle"
  /\ session[id].status = "none" =>
       session[id] = Fresh /\ id \notin table /\ closing[id] = "no"
  /\ id \in table => closing[id] = "no" /\ session[id].attempt > 0

\* The newest attempt decides alone until it is done or in its catch block.
OneDecides(id) ==
  \A n \in Attempts :
    /\ pc[id][n] \in Active => n = session[id].attempt /\ session[id].status = "connecting"
    /\ pc[id][n] = "catch" => id \in Silent /\ n <= session[id].attempt /\ conn[id][n] # "open"
    /\ pc[id][n] = "catch" /\ n = session[id].attempt => session[id].status = "error"

\* What a session holds is the newest attempt's.
HoldsItsOwn(id) ==
  /\ session[id].scpi \in {NoAttempt, session[id].attempt}
  /\ session[id].status = "error" =>
       \/ session[id].scpi = NoAttempt
       \/ pc[id][session[id].attempt] = "catch"

\* Apart from a race the newest attempt keeps what it has put into the session, and
\* connections are nowhere else.
Undisturbed(id) ==
  NeverRaced(id) =>
    /\ \A n \in Attempts :
         /\ conn[id][n] = "open" => id \in table /\ session[id].scpi = n
         /\ pc[id][n] = "connecting" => session[id].scpi = NoAttempt
         /\ pc[id][n] \in {"idn", "refining"} => session[id].scpi = n /\ session[id].rings = n
    /\ session[id].status = "connected" /\ id \in table => Wired(id)

Polls(id) ==
  session[id].poller # NoAttempt =>
    id \in table /\ session[id].status = "connected" /\ session[id].known

Informed(id) ==
  id \in table /\ (\A n \in Attempts : pc[id][n] # "catch") => told[id] = session[id].status

Sound(id) ==
  /\ Unbegun(id) /\ OneDecides(id) /\ HoldsItsOwn(id)
  /\ Undisturbed(id) /\ Polls(id) /\ Informed(id)

IInv == Shape /\ \A id \in Ids : Sound(id)

-----------------------------------------------------------------------------

\* Only session `id' is written.
OnlyAbout(id) ==
  \A i \in Ids \ {id} :
    /\ i \in table' <=> i \in table
    /\ session'[i] = session[i] /\ pc'[i] = pc[i] /\ conn'[i] = conn[i]
    /\ closing'[i] = closing[i] /\ told'[i] = told[i]

LEMMA UntouchedSound ==
  ASSUME NEW i, Sound(i),
         i \in table' <=> i \in table,
         session'[i] = session[i], pc'[i] = pc[i], conn'[i] = conn[i],
         closing'[i] = closing[i], told'[i] = told[i]
  PROVE  Sound(i)'
<1>1. Unbegun(i)' /\ OneDecides(i)'
  BY DEF Sound, Unbegun, OneDecides
<1>2. HoldsItsOwn(i)' /\ Polls(i)' /\ Informed(i)'
  BY DEF Sound, HoldsItsOwn, Polls, Informed
<1>3. Undisturbed(i)'
  BY DEF Sound, Undisturbed, NeverRaced, Wired
<1> QED
  BY <1>1, <1>2, <1>3 DEF Sound

LEMMA OneWritten ==
  ASSUME IInv, NEW id \in Ids, OnlyAbout(id), Shape', Sound(id)'
  PROVE  IInv'
<1>1. ASSUME NEW i \in Ids PROVE Sound(i)'
  <2>1. CASE i = id
    BY <2>1
  <2>2. CASE i # id
    <3>1. Sound(i)
      BY DEF IInv
    <3> QED
      BY <2>2, <3>1, UntouchedSound DEF OnlyAbout
  <2> QED
    BY <2>1, <2>2
<1> QED
  BY <1>1 DEF IInv

Starting(n) == [Fresh EXCEPT !.status = "connecting", !.attempt = n]

LEMMA FreshIsASession ==
  /\ Fresh \in InternalSessions
  /\ \A n \in Nat :
       /\ Starting(n) \in InternalSessions
       /\ Starting(n).status = "connecting" /\ Starting(n).attempt = n
       /\ Starting(n).scpi = NoAttempt /\ Starting(n).poller = NoAttempt
<1>1. Fresh \in InternalSessions
  BY DEF Fresh, InternalSessions, Statuses, MaybeAttempts
<1>2. Fresh.scpi = NoAttempt /\ Fresh.poller = NoAttempt
  BY DEF Fresh
<1> QED
  BY <1>1, <1>2 DEF Starting, InternalSessions, Statuses

\* What close(), the catch block, #establish going live and a lost connection make
\* of a session.
LEMMA UpdatesAreSessions ==
  ASSUME NEW s \in InternalSessions
  PROVE  /\ [s EXCEPT !.listener = NoAttempt, !.poller = NoAttempt] \in InternalSessions
         /\ [s EXCEPT !.scpi = NoAttempt, !.rings = NoAttempt, !.listener = NoAttempt,
                      !.poller = NoAttempt] \in InternalSessions
         /\ [s EXCEPT !.known = TRUE] \in InternalSessions
         /\ \A status \in Statuses : [s EXCEPT !.status = status] \in InternalSessions
         /\ \A n \in Attempts : [s EXCEPT !.scpi = n, !.rings = n] \in InternalSessions
         /\ \A n \in Attempts, known \in BOOLEAN :
              [s EXCEPT !.status = "connected", !.known = known, !.facade = known,
                        !.listener = n, !.poller = IF known THEN n ELSE s.poller]
                \in InternalSessions
         /\ [s EXCEPT !.status = "error", !.facade = FALSE, !.scpi = NoAttempt,
                      !.rings = NoAttempt, !.listener = NoAttempt, !.poller = NoAttempt]
              \in InternalSessions
<1> USE DEF InternalSessions, MaybeAttempts
<1>1. [s EXCEPT !.listener = NoAttempt, !.poller = NoAttempt] \in InternalSessions
  OBVIOUS
<1>2. [s EXCEPT !.scpi = NoAttempt, !.rings = NoAttempt, !.listener = NoAttempt,
                !.poller = NoAttempt] \in InternalSessions
  OBVIOUS
<1>3. /\ [s EXCEPT !.known = TRUE] \in InternalSessions
      /\ \A status \in Statuses : [s EXCEPT !.status = status] \in InternalSessions
  OBVIOUS
<1>4. \A n \in Attempts : [s EXCEPT !.scpi = n, !.rings = n] \in InternalSessions
  OBVIOUS
<1>5. ASSUME NEW n \in Attempts, NEW known \in BOOLEAN
      PROVE  [s EXCEPT !.status = "connected", !.known = known, !.facade = known,
                       !.listener = n, !.poller = IF known THEN n ELSE s.poller] \in InternalSessions
  BY DEF Statuses
<1>6. [s EXCEPT !.status = "error", !.facade = FALSE, !.scpi = NoAttempt,
                !.rings = NoAttempt, !.listener = NoAttempt, !.poller = NoAttempt]
        \in InternalSessions
  BY DEF Statuses
<1> HIDE DEF InternalSessions
<1> QED
  BY <1>1, <1>2, <1>3, <1>4, <1>5, <1>6

LEMMA InitSound == Init => IInv
<1> SUFFICES ASSUME Init PROVE IInv
  OBVIOUS
<1>1. Shape
  <2>1. session \in [Ids -> InternalSessions]
    BY FreshIsASession DEF Init
  <2> QED
    BY <2>1 DEF Init, Shape, Statuses
<1>2. ASSUME NEW id \in Ids PROVE Sound(id)
  <2>1. /\ session[id] = Fresh /\ id \notin table /\ closing[id] = "no" /\ told[id] = "none"
        /\ \A n \in Attempts : pc[id][n] = "idle" /\ conn[id][n] = "none"
    BY DEF Init
  <2>2. /\ Fresh.status = "none" /\ Fresh.scpi = NoAttempt /\ Fresh.poller = NoAttempt
    BY DEF Fresh
  <2>3. Unbegun(id) /\ OneDecides(id) /\ HoldsItsOwn(id) /\ Polls(id) /\ Informed(id)
    BY <2>1, <2>2 DEF Unbegun, OneDecides, HoldsItsOwn, Polls, Informed, Active
  <2>4. Undisturbed(id)
    BY <2>1, <2>2 DEF Undisturbed
  <2> QED
    BY <2>3, <2>4 DEF Sound
<1> QED
  BY <1>1, <1>2 DEF IInv

-----------------------------------------------------------------------------
(* open, reconnect *)

\* A session set connecting by its n-th attempt, after attempts that are over.
LEMMA BegunSound ==
  ASSUME Shape, NEW id \in Ids, NEW n \in Attempts, Sound(id),
         \A m \in Attempts : pc[id][m] \notin Active,
         \A m \in Attempts : m >= n => pc[id][m] = "idle",
         NeverRaced(id)' => \A m \in Attempts : conn[id][m] # "open",
         closing[id] = "no", id \in table',
         session'[id] = Starting(n),
         pc'[id] = [pc[id] EXCEPT ![n] = "connecting"], conn'[id] = conn[id],
         closing'[id] = closing[id], told'[id] = "connecting",
         \A m \in Attempts : pc[id][m] = "catch" => m <= session[id].attempt,
         session[id].attempt <= n
  PROVE  Sound(id)'
<1> n \in Nat /\ n > 0
  BY BoundsArePositive DEF Attempts
<1>1. /\ session'[id].status = "connecting" /\ session'[id].attempt = n
      /\ session'[id].scpi = NoAttempt /\ session'[id].poller = NoAttempt
  BY FreshIsASession
<1>2. /\ pc'[id][n] = "connecting"
      /\ \A m \in Attempts \ {n} : pc'[id][m] = pc[id][m]
  BY DEF Shape
<1>3. Unbegun(id)'
  BY <1>1, <1>2 DEF Unbegun, Attempts
<1>4. OneDecides(id)'
  <2> SUFFICES ASSUME NEW m \in Attempts
               PROVE  /\ pc'[id][m] \in Active => m = n
                      /\ pc'[id][m] = "catch" => id \in Silent /\ m <= n /\ conn[id][m] # "open"
                                                 /\ m # n
    BY <1>1 DEF OneDecides
  <2>1. CASE m = n
    BY <1>2, <2>1
  <2>2. CASE m # n
    <3>1. pc[id][m] = "catch" => id \in Silent /\ m <= session[id].attempt /\ conn[id][m] # "open"
      BY DEF Sound, OneDecides
    <3> QED
      BY <1>2, <2>2, <3>1 DEF Shape, InternalSessions, Attempts
  <2> QED
    BY <2>1, <2>2
<1>5. HoldsItsOwn(id)' /\ Polls(id)' /\ Informed(id)'
  BY <1>1 DEF HoldsItsOwn, Polls, Informed
<1>6. Undisturbed(id)'
  BY <1>1, <1>2 DEF Undisturbed, Active
<1> QED
  BY <1>3, <1>4, <1>5, <1>6 DEF Sound

LEMMA OpenKeeps ==
  ASSUME IInv, NEW id \in Ids, Open(id)
  PROVE  IInv'
<1>1. 1 \in Attempts /\ session[id] \in InternalSessions /\ Sound(id)
  BY BoundsArePositive DEF Attempts, IInv, Shape
<1>2. session[id] = Fresh /\ id \notin table /\ session[id].attempt = 0
  BY <1>1 DEF Open, Sound, Unbegun, Fresh
<1>3. /\ session'[id] = Starting(1) /\ closing'[id] = closing[id] /\ conn'[id] = conn[id]
      /\ pc'[id] = [pc[id] EXCEPT ![1] = "connecting"] /\ told'[id] = "connecting"
      /\ id \in table'
  BY DEF Open, Goto, Emit, Starting, IInv, Shape
<1>4. OnlyAbout(id)
  BY DEF Open, Goto, Emit, OnlyAbout, IInv, Shape
<1>5. Shape'
  <2>1. session' \in [Ids -> InternalSessions]
    BY FreshIsASession DEF Open, Starting, IInv, Shape
  <2>2. pc' \in [Ids -> [Attempts -> Active \cup {"idle", "catch", "done"}]]
    BY <1>1 DEF Open, Goto, IInv, Shape, Active
  <2>3. told' \in [Ids -> Statuses \cup {"removed"}]
    BY DEF Open, Emit, IInv, Shape, Statuses
  <2> QED
    BY <2>1, <2>2, <2>3 DEF Open, IInv, Shape
<1>6. \A m \in Attempts : pc[id][m] = "idle"
  BY <1>1, <1>2 DEF Sound, Unbegun, Attempts
<1>7. closing[id] = "no" /\ (NeverRaced(id)' => \A m \in Attempts : conn[id][m] # "open")
  <2>1. NeverRaced(id)
    BY <1>2 DEF NeverRaced
  <2> QED
    BY <1>1, <1>2, <2>1 DEF Open, Sound, Unbegun, Undisturbed
<1>8. Sound(id)'
  <2>1. \A m \in Attempts : pc[id][m] \notin Active /\ pc[id][m] # "catch"
    BY <1>6 DEF Active
  <2> QED
    BY <1>1, <1>2, <1>3, <1>6, <1>7, <2>1, BegunSound DEF IInv
<1> QED
  BY <1>4, <1>5, <1>8, OneWritten

LEMMA ReconnectKeeps ==
  ASSUME IInv, NEW id \in Ids, Reconnect(id)
  PROVE  IInv'
<1> DEFINE n == session[id].attempt + 1
<1>1. n \in Attempts /\ n \in Nat /\ n > 1 /\ session[id] \in InternalSessions /\ Sound(id)
  <2>1. session[id] \in InternalSessions /\ Sound(id)
    BY DEF IInv, Shape
  <2>2. session[id].attempt \in Nat /\ session[id].attempt > 0
    BY <2>1 DEF InternalSessions, Reconnect, Sound, Unbegun
  <2> QED
    BY <2>1, <2>2, BoundsArePositive DEF Reconnect, Attempts
<1>2. session[id].status = "error" /\ closing[id] = "no"
  BY <1>1 DEF Reconnect, Sound, Unbegun, InternalSessions, Statuses
<1>3. /\ session'[id] = Starting(n) /\ closing'[id] = closing[id] /\ conn'[id] = conn[id]
      /\ pc'[id] = [pc[id] EXCEPT ![n] = "connecting"] /\ told'[id] = "connecting"
      /\ id \in table'
  BY DEF Reconnect, Goto, Emit, Starting, IInv, Shape
<1>4. OnlyAbout(id)
  BY DEF Reconnect, Goto, Emit, OnlyAbout, IInv, Shape
<1>5. Shape'
  <2>1. session' \in [Ids -> InternalSessions]
    BY <1>1, FreshIsASession DEF Reconnect, Starting, IInv, Shape
  <2>2. pc' \in [Ids -> [Attempts -> Active \cup {"idle", "catch", "done"}]]
    BY <1>1 DEF Reconnect, Goto, IInv, Shape, Active
  <2>3. told' \in [Ids -> Statuses \cup {"removed"}]
    BY DEF Reconnect, Emit, IInv, Shape, Statuses
  <2> QED
    BY <2>1, <2>2, <2>3 DEF Reconnect, IInv, Shape
<1>6. \A m \in Attempts : m >= n => pc[id][m] = "idle"
  BY <1>1 DEF Sound, Unbegun, Attempts, InternalSessions
<1>7. \A m \in Attempts : pc[id][m] \notin Active
  BY <1>1, <1>2 DEF Sound, OneDecides
<1>8. \A m \in Attempts : pc[id][m] = "catch" => m <= session[id].attempt
  BY <1>1 DEF Sound, OneDecides
<1>9. ASSUME NeverRaced(id)', NEW m \in Attempts PROVE conn[id][m] # "open"
  <2>1. session'[id].attempt = n
    BY <1>1, <1>3, FreshIsASession
  <2>2. id \notin Silent
    BY <1>1, <1>9, <2>1 DEF NeverRaced
  <2>3. session[id].scpi = NoAttempt
    <3>1. session[id].attempt \in Attempts
      BY <1>1, BoundsArePositive DEF Attempts, InternalSessions
    <3> QED
      BY <1>1, <1>2, <2>2, <3>1 DEF Sound, HoldsItsOwn, OneDecides
  <2>4. m # NoAttempt
    BY BoundsArePositive DEF Attempts, NoAttempt
  <2> QED
    BY <1>1, <2>2, <2>3, <2>4 DEF Sound, Undisturbed, NeverRaced
<1>10. session[id].attempt <= n
  BY <1>1 DEF InternalSessions
<1>11. Sound(id)'
  <2> HIDE DEF n
  <2> QED
    BY <1>1, <1>2, <1>3, <1>6, <1>7, <1>8, <1>9, <1>10, BegunSound DEF IInv
<1> QED
  BY <1>4, <1>5, <1>11, OneWritten

-----------------------------------------------------------------------------
(* close, closeAll *)

LEMMA CloseIdsKeeps ==
  ASSUME IInv, NEW ids \in SUBSET table, CloseIds(ids)
  PROVE  IInv'
<1>1. Shape'
  <2>1. session' \in [Ids -> InternalSessions]
    BY UpdatesAreSessions DEF CloseIds, IInv, Shape
  <2>2. conn' \in [Ids -> [Attempts -> {"none", "open", "lost", "closed"}]]
    BY DEF CloseIds, IInv, Shape
  <2>3. closing' \in [Ids -> {"no", "ending", "done"}]
    BY DEF CloseIds, IInv, Shape
  <2>4. told' \in [Ids -> Statuses \cup {"removed"}]
    BY DEF CloseIds, IInv, Shape
  <2> QED
    BY <2>1, <2>2, <2>3, <2>4 DEF CloseIds, IInv, Shape
<1>2. ASSUME NEW id \in Ids PROVE Sound(id)'
  <2>1. Sound(id)
    BY DEF IInv
  <2>2. CASE id \notin ids
    <3>1. /\ id \in table' <=> id \in table
          /\ session'[id] = session[id] /\ pc'[id] = pc[id] /\ conn'[id] = conn[id]
          /\ closing'[id] = closing[id] /\ told'[id] = told[id]
      BY <2>2 DEF CloseIds
    <3> QED
      BY <2>1, <3>1, UntouchedSound
  <2>3. CASE id \in ids
    <3> DEFINE s == session[id]
               t == session'[id]
    <3>1. /\ t = [s EXCEPT !.listener = NoAttempt, !.poller = NoAttempt]
          /\ id \notin table' /\ pc'[id] = pc[id] /\ closing'[id] # "no"
      BY <2>3 DEF CloseIds
    <3>2. /\ t.status = s.status /\ t.scpi = s.scpi /\ t.rings = s.rings
          /\ t.attempt = s.attempt /\ t.poller = NoAttempt
      BY <3>1 DEF IInv, Shape, InternalSessions
    <3>3. \A n \in Attempts :
            conn'[id][n] = IF HoldsOpen(id) /\ n = s.scpi THEN "closed" ELSE conn[id][n]
      BY <2>3 DEF CloseIds, HoldsOpen, IInv, Shape
    <3>4. s.status # "none"
      BY <2>1, <2>3 DEF Sound, Unbegun
    <3> HIDE DEF s, t
    <3>5. Unbegun(id)'
      BY <2>1, <3>1, <3>2, <3>4 DEF Sound, Unbegun, s, t
    <3>6. OneDecides(id)'
      BY <2>1, <3>1, <3>2, <3>3 DEF Sound, OneDecides, s, t
    <3>7. HoldsItsOwn(id)'
      BY <2>1, <3>1, <3>2 DEF Sound, HoldsItsOwn, s, t
    <3>8. Undisturbed(id)'
      <4>1. SUFFICES ASSUME NeverRaced(id)
                     PROVE  \A n \in Attempts :
                              /\ conn'[id][n] # "open"
                              /\ pc[id][n] = "connecting" => s.scpi = NoAttempt
                              /\ pc[id][n] \in {"idn", "refining"} => s.scpi = n /\ s.rings = n
        BY <3>1, <3>2 DEF Undisturbed, NeverRaced, s, t
      <4>2. \A n \in Attempts : conn[id][n] = "open" => s.scpi = n /\ n # NoAttempt
        BY <2>1, <4>1, BoundsArePositive DEF Sound, Undisturbed, s, Attempts, NoAttempt
      <4>3. \A n \in Attempts : conn'[id][n] # "open"
        BY <3>3, <4>2 DEF HoldsOpen, s
      <4> QED
        BY <2>1, <4>1, <4>3 DEF Sound, Undisturbed, s
    <3>9. Polls(id)' /\ Informed(id)'
      BY <3>1, <3>2 DEF Polls, Informed, t
    <3> QED
      BY <3>5, <3>6, <3>7, <3>8, <3>9 DEF Sound
  <2> QED
    BY <2>2, <2>3
<1> QED
  BY <1>1, <1>2 DEF IInv

LEMMA CloseEndsKeeps ==
  ASSUME IInv, NEW id \in Ids, CloseEnds(id)
  PROVE  IInv'
<1>1. Sound(id) /\ id \notin table
  BY DEF IInv, Sound, Unbegun, CloseEnds
<1>2. OnlyAbout(id)
  BY DEF CloseEnds, Emit, OnlyAbout, IInv, Shape
<1>3. Shape'
  BY DEF CloseEnds, Emit, IInv, Shape, Statuses
<1>4. closing[id] = "ending" /\ UNCHANGED <<table, session, pc, conn>>
  BY DEF CloseEnds
<1>5. Unbegun(id)' /\ OneDecides(id)' /\ HoldsItsOwn(id)' /\ Polls(id)' /\ Informed(id)'
  BY <1>1, <1>4 DEF Sound, Unbegun, OneDecides, HoldsItsOwn, Polls, Informed
<1>6. Undisturbed(id)'
  BY <1>1, <1>4 DEF Sound, Undisturbed, NeverRaced, Wired
<1> QED
  BY <1>2, <1>3, <1>5, <1>6, OneWritten DEF Sound

-----------------------------------------------------------------------------
(* #establish *)

\* A step of one attempt: where it stands, and what it leaves of the rest.
LEMMA AttemptMoves ==
  ASSUME Shape, NEW id \in Ids, NEW n \in Attempts,
         NEW where \in {"idn", "refining", "catch", "done"}, Goto(id, n, where)
  PROVE  /\ pc' \in [Ids -> [Attempts -> Active \cup {"idle", "catch", "done"}]]
         /\ \A i \in Ids \ {id} : pc'[i] = pc[i]
         /\ \A m \in Attempts \ {n} : pc'[id][m] = pc[id][m]
         /\ pc'[id][n] = where
BY DEF Goto, Shape, Active

\* An attempt that is not in its catch block is the newest, and alone.
LEMMA Deciding ==
  ASSUME IInv, NEW id \in Ids, NEW n \in Attempts, pc[id][n] \in Active
  PROVE  /\ Sound(id) /\ session[id] \in InternalSessions /\ n # NoAttempt
         /\ n = session[id].attempt /\ session[id].status = "connecting"
         /\ session[id].poller = NoAttempt
         /\ session[id].scpi \in {NoAttempt, n}
         /\ \A m \in Attempts \ {n} : pc[id][m] \notin Active
         /\ \A m \in Attempts : m > n => pc[id][m] = "idle"
<1>1. Sound(id) /\ session[id] \in InternalSessions /\ n # NoAttempt
  BY BoundsArePositive DEF IInv, Shape, Attempts, NoAttempt
<1>2. n = session[id].attempt /\ session[id].status = "connecting"
      /\ \A m \in Attempts \ {n} : pc[id][m] \notin Active
  BY <1>1 DEF Sound, OneDecides
<1>3. /\ session[id].poller = NoAttempt /\ session[id].scpi \in {NoAttempt, n}
      /\ \A m \in Attempts : m > n => pc[id][m] = "idle"
  BY <1>1, <1>2 DEF Sound, Polls, HoldsItsOwn, Unbegun
<1> QED
  BY <1>1, <1>2, <1>3

\* An attempt gives its connection up and returns.
LEMMA LeaveKeeps ==
  ASSUME IInv, NEW id \in Ids, NEW n \in Attempts, id \notin table, pc[id][n] \in Active,
         Goto(id, n, "done"), UNCHANGED <<table, session, closing, told>>,
         NEW end \in {"lost", "closed", "none"}, conn' = [conn EXCEPT ![id][n] = end]
  PROVE  IInv'
<1>1. Shape'
  BY AttemptMoves DEF IInv, Shape
<1>2. OnlyAbout(id)
  BY AttemptMoves DEF IInv, Shape, OnlyAbout
<1>3. /\ pc'[id][n] = "done" /\ conn'[id][n] # "open"
      /\ \A m \in Attempts \ {n} : pc'[id][m] = pc[id][m] /\ conn'[id][m] = conn[id][m]
  BY AttemptMoves DEF IInv, Shape
<1>4. Unbegun(id)' /\ OneDecides(id)'
  BY <1>3, Deciding DEF Sound, Unbegun, OneDecides, Active
<1>5. HoldsItsOwn(id)' /\ Polls(id)' /\ Informed(id)'
  BY <1>3, Deciding DEF Sound, HoldsItsOwn, Polls, Informed
<1>6. Undisturbed(id)'
  BY <1>3, Deciding DEF Sound, Undisturbed, NeverRaced, Active
<1> QED
  BY <1>1, <1>2, <1>4, <1>5, <1>6, OneWritten DEF Sound

LEMMA ConnectedKeeps ==
  ASSUME IInv, NEW id \in Ids, NEW n \in Attempts, Connected(id, n)
  PROVE  IInv'
<1>1. pc[id][n] = "connecting" /\ pc[id][n] \in Active /\ UNCHANGED <<table, closing, told>>
  BY DEF Connected, Active
<1>2. CASE id \notin table
  BY <1>1, <1>2, LeaveKeeps DEF Connected
<1>3. CASE id \in table
  <2> DEFINE s == session[id]
             t == session'[id]
  <2>1. /\ conn' = [conn EXCEPT ![id][n] = "open"] /\ Goto(id, n, "idn")
        /\ session' = [session EXCEPT ![id] = [s EXCEPT !.scpi = n, !.rings = n]]
    BY <1>3 DEF Connected, IInv, Shape, InternalSessions
  <2>2. [s EXCEPT !.scpi = n, !.rings = n] \in InternalSessions
    BY <1>1, Deciding, UpdatesAreSessions
  <2>3. Shape'
    BY <1>1, <2>1, <2>2, AttemptMoves DEF IInv, Shape
  <2>4. OnlyAbout(id)
    BY <1>1, <2>1, AttemptMoves DEF IInv, Shape, OnlyAbout
  <2>5. /\ t.scpi = n /\ t.rings = n /\ t.status = "connecting" /\ t.attempt = n
        /\ t.poller = NoAttempt
    BY <1>1, <2>1, Deciding DEF IInv, Shape, InternalSessions
  <2>6. /\ pc'[id][n] = "idn" /\ conn'[id][n] = "open"
        /\ \A m \in Attempts \ {n} : pc'[id][m] = pc[id][m] /\ conn'[id][m] = conn[id][m]
    BY <2>1, AttemptMoves DEF IInv, Shape
  <2> HIDE DEF s, t
  <2>7. Unbegun(id)' /\ OneDecides(id)'
    BY <1>1, <1>3, <2>5, <2>6, Deciding DEF Sound, Unbegun, OneDecides, Active, t
  <2>8. HoldsItsOwn(id)' /\ Polls(id)' /\ Informed(id)'
    BY <1>1, <1>3, <2>5, <2>6, Deciding DEF Sound, HoldsItsOwn, Polls, Informed, t
  <2>9. Undisturbed(id)'
    <3>1. NeverRaced(id)' <=> NeverRaced(id)
      BY <1>1, <2>5, Deciding DEF NeverRaced, t
    <3>2. ASSUME NeverRaced(id), NEW m \in Attempts \ {n} PROVE conn'[id][m] # "open"
      BY <1>1, <2>6, <3>2, Deciding, BoundsArePositive
        DEF Sound, Undisturbed, Attempts, NoAttempt
    <3>3. \A m \in Attempts \ {n} : pc'[id][m] \notin Active
      BY <1>1, <2>6, Deciding
    <3> QED
      BY <1>1, <1>3, <2>5, <2>6, <3>1, <3>2, <3>3 DEF Undisturbed, Active, t
  <2> QED
    BY <2>3, <2>4, <2>7, <2>8, <2>9, OneWritten DEF Sound
<1> QED
  BY <1>2, <1>3

\* #establish throws into its catch block.
LEMMA CatchKeeps ==
  ASSUME IInv, NEW id \in Ids, NEW n \in Attempts, Catch(id, n),
         pc[id][n] \in Active, HoldsOpen(id) => id \in Silent,
         UNCHANGED <<table, closing>>
  PROVE  IInv'
<1> DEFINE s == session[id]
           t == session'[id]
           failed == [s EXCEPT !.status = "error"]
<1>1. failed \in InternalSessions
  BY Deciding, UpdatesAreSessions DEF Statuses
<1>2. CASE HoldsOpen(id)
  <2>1. /\ conn' = [conn EXCEPT ![id][s.scpi] = "closed"] /\ s.scpi = n
        /\ session' = [session EXCEPT ![id] = failed]
        /\ Goto(id, n, "catch") /\ told' = told
    BY <1>2, Deciding DEF Catch, HoldsOpen
  <2>2. Shape'
    BY <1>1, <2>1, AttemptMoves DEF IInv, Shape
  <2>3. OnlyAbout(id)
    BY <2>1, AttemptMoves DEF IInv, Shape, OnlyAbout
  <2>4. /\ t.scpi = n /\ t.status = "error" /\ t.attempt = n /\ t.poller = NoAttempt
    BY <2>1, Deciding DEF IInv, Shape, InternalSessions
  <2>5. /\ pc'[id][n] = "catch" /\ conn'[id][n] = "closed"
        /\ \A m \in Attempts \ {n} : pc'[id][m] = pc[id][m] /\ conn'[id][m] = conn[id][m]
    BY <2>1, AttemptMoves DEF IInv, Shape
  <2> HIDE DEF s, t, failed
  <2>6. Unbegun(id)' /\ OneDecides(id)'
    BY <1>2, <2>4, <2>5, Deciding DEF Sound, Unbegun, OneDecides, Active, t, InternalSessions
  <2>7. HoldsItsOwn(id)' /\ Polls(id)' /\ Informed(id)'
    BY <2>4, <2>5, Deciding DEF HoldsItsOwn, Polls, Informed, t
  <2>8. Undisturbed(id)'
    <3>1. NeverRaced(id)' <=> NeverRaced(id)
      BY <2>4, Deciding DEF NeverRaced, t
    <3>2. ASSUME NeverRaced(id), NEW m \in Attempts \ {n} PROVE conn'[id][m] # "open"
      BY <2>1, <2>5, <3>2, Deciding DEF Sound, Undisturbed, s
    <3>3. \A m \in Attempts : pc'[id][m] \notin Active
      BY <2>5, Deciding DEF Active
    <3> QED
      BY <2>4, <2>5, <3>1, <3>2, <3>3 DEF Undisturbed, Active, t
  <2> QED
    BY <2>2, <2>3, <2>6, <2>7, <2>8, OneWritten DEF Sound
<1>3. CASE ~HoldsOpen(id)
  <2> DEFINE given == [failed EXCEPT !.scpi = NoAttempt, !.rings = NoAttempt,
                                     !.listener = NoAttempt, !.poller = NoAttempt]
  <2>1. /\ conn' = conn /\ session' = [session EXCEPT ![id] = given]
        /\ Goto(id, n, "done") /\ told' = [told EXCEPT ![id] = failed.status]
    BY <1>3 DEF Catch, Abandon, Emit
  <2>2. failed.status = "error" /\ failed.attempt = n
    BY Deciding DEF InternalSessions
  <2> HIDE DEF failed
  <2>11. given \in InternalSessions
    BY <1>1, UpdatesAreSessions
  <2>3. given.scpi = NoAttempt /\ given.status = "error" /\ given.attempt = n
        /\ given.poller = NoAttempt
    BY <1>1, <2>2 DEF InternalSessions
  <2> HIDE DEF given
  <2>4. Shape'
    BY <2>1, <2>2, <2>11, AttemptMoves DEF IInv, Shape, Statuses
  <2>5. OnlyAbout(id)
    BY <2>1, AttemptMoves DEF IInv, Shape, OnlyAbout
  <2>6. t = given /\ told'[id] = "error"
    BY <2>1, <2>2 DEF IInv, Shape
  <2>7. /\ pc'[id][n] = "done" /\ conn'[id] = conn[id]
        /\ \A m \in Attempts \ {n} : pc'[id][m] = pc[id][m]
    BY <2>1, AttemptMoves DEF IInv
  <2> HIDE DEF s, t
  <2>8. Unbegun(id)' /\ OneDecides(id)'
    BY <2>3, <2>6, <2>7, Deciding DEF Sound, Unbegun, OneDecides, Active, t
  <2>9. HoldsItsOwn(id)' /\ Polls(id)' /\ Informed(id)'
    BY <2>3, <2>6 DEF HoldsItsOwn, Polls, Informed, t
  <2>10. Undisturbed(id)'
    <3>1. NeverRaced(id)' <=> NeverRaced(id)
      BY <2>3, <2>6, Deciding DEF NeverRaced, t
    <3>2. ASSUME NeverRaced(id), NEW m \in Attempts PROVE conn'[id][m] # "open"
      BY <1>3, <2>7, <3>2, Deciding, BoundsArePositive
        DEF Sound, Undisturbed, HoldsOpen, Attempts, NoAttempt
    <3>3. \A m \in Attempts : pc'[id][m] \notin Active
      BY <2>7, Deciding DEF Active
    <3> QED
      BY <2>3, <2>6, <3>1, <3>2, <3>3 DEF Undisturbed, Active, t
  <2> QED
    BY <2>4, <2>5, <2>8, <2>9, <2>10, OneWritten DEF Sound
<1> QED
  BY <1>2, <1>3

LEMMA ConnectFailsKeeps ==
  ASSUME IInv, NEW id \in Ids, NEW n \in Attempts, ConnectFails(id, n)
  PROVE  IInv'
<1>1. pc[id][n] \in Active /\ Catch(id, n) /\ UNCHANGED <<table, closing>>
  BY DEF ConnectFails, Active
<1>2. HoldsOpen(id) => id \in Silent
  BY <1>1, Deciding DEF ConnectFails, HoldsOpen, Sound, Undisturbed, NeverRaced
<1> QED
  BY <1>1, <1>2, CatchKeeps

LEMMA IdentifyFailsKeeps ==
  ASSUME IInv, NEW id \in Ids, NEW n \in Attempts, IdentifyFails(id, n)
  PROVE  IInv'
<1>1. pc[id][n] \in Active /\ Catch(id, n) /\ UNCHANGED <<table, closing>>
  BY DEF IdentifyFails, Active
<1>2. HoldsOpen(id) => id \in Silent
  BY <1>1, Deciding DEF IdentifyFails, HoldsOpen
<1> QED
  BY <1>1, <1>2, CatchKeeps

\* A session goes live: nobody else decides about it, and what it is wired to is
\* the attempt's own connection.
LEMMA GoLiveKeeps ==
  ASSUME IInv, NEW id \in Ids, NEW n \in Attempts, NEW known \in BOOLEAN,
         pc[id][n] \in {"idn", "refining"}, id \in table, GoLive(id, n, known),
         UNCHANGED <<table, conn, closing>>
  PROVE  IInv'
<1> DEFINE s == session[id]
           t == session'[id]
           live == [s EXCEPT !.status = "connected", !.known = known, !.facade = known,
                             !.listener = n, !.poller = IF known THEN n ELSE s.poller]
<1>1. pc[id][n] \in Active
  BY DEF Active
<1>2. live \in InternalSessions
  BY <1>1, Deciding, UpdatesAreSessions
<1>3. /\ session' = [session EXCEPT ![id] = live] /\ Goto(id, n, "done")
      /\ told' = [told EXCEPT ![id] = "connected"]
  BY DEF GoLive, Emit
<1>4. /\ live.status = "connected" /\ live.attempt = n /\ live.scpi = s.scpi
      /\ live.rings = s.rings /\ live.listener = n /\ live.known = known
      /\ live.poller = IF known THEN n ELSE NoAttempt
  BY <1>1, Deciding DEF InternalSessions
<1> HIDE DEF live
<1>5. Shape'
  BY <1>2, <1>3, AttemptMoves DEF IInv, Shape, Statuses
<1>6. OnlyAbout(id)
  BY <1>3, AttemptMoves DEF IInv, Shape, OnlyAbout
<1>7. /\ t = live /\ told'[id] = "connected" /\ conn'[id] = conn[id]
      /\ pc'[id][n] = "done" /\ \A m \in Attempts \ {n} : pc'[id][m] = pc[id][m]
  BY <1>3, AttemptMoves DEF IInv, Shape
<1> HIDE DEF s, t
<1>8. Unbegun(id)' /\ OneDecides(id)'
  BY <1>1, <1>4, <1>7, Deciding DEF Sound, Unbegun, OneDecides, Active, t
<1>9. HoldsItsOwn(id)' /\ Polls(id)' /\ Informed(id)'
  BY <1>1, <1>4, <1>7, Deciding DEF HoldsItsOwn, Polls, Informed, s, t
<1>10. Undisturbed(id)'
  <2>1. NeverRaced(id)' <=> NeverRaced(id)
    BY <1>1, <1>4, <1>7, Deciding DEF NeverRaced, t
  <2>2. ASSUME NeverRaced(id)
        PROVE  /\ s.scpi = n /\ s.rings = n
               /\ \A m \in Attempts : conn[id][m] = "open" => s.scpi = m
    BY <1>1, <2>2, Deciding DEF Sound, Undisturbed, s
  <2>3. \A m \in Attempts : pc'[id][m] \notin Active
    BY <1>1, <1>7, Deciding DEF Active
  <2>4. n # NoAttempt
    BY <1>1, Deciding
  <2> QED
    BY <1>4, <1>7, <2>1, <2>2, <2>3, <2>4 DEF Undisturbed, Wired, Active, t
<1> QED
  BY <1>5, <1>6, <1>8, <1>9, <1>10, OneWritten DEF Sound

LEMMA IdentifiedKeeps ==
  ASSUME IInv, NEW id \in Ids, NEW n \in Attempts, Identified(id, n)
  PROVE  IInv'
<1>1. /\ pc[id][n] = "idn" /\ pc[id][n] \in Active /\ conn[id][n] = "open"
      /\ UNCHANGED <<table, closing>>
  BY DEF Identified, Active
<1>2. CASE id \notin table /\ Leave(id, n)
  <2>1. conn' = [conn EXCEPT ![id][n] = "closed"]
    BY <1>1, <1>2 DEF Leave, IInv, Shape
  <2> QED
    BY <1>1, <1>2, <2>1, LeaveKeeps DEF Leave
<1>3. CASE id \in table /\ (\E known \in BOOLEAN : GoLive(id, n, known)) /\ UNCHANGED conn
  BY <1>1, <1>3, GoLiveKeeps
<1>4. CASE /\ id \in table
           /\ session' = [session EXCEPT ![id].known = TRUE]
           /\ Goto(id, n, "refining")
           /\ UNCHANGED <<conn, told>>
  <2> DEFINE s == session[id]
             t == session'[id]
  <2>1. Shape'
    <3>1. [s EXCEPT !.known = TRUE] \in InternalSessions
      BY <1>1, Deciding, UpdatesAreSessions
    <3> QED
      BY <1>1, <1>4, <3>1, AttemptMoves DEF IInv, Shape
  <2>2. OnlyAbout(id)
    BY <1>1, <1>4, AttemptMoves DEF IInv, Shape, OnlyAbout
  <2>3. /\ t.scpi = s.scpi /\ t.rings = s.rings /\ t.status = "connecting" /\ t.attempt = n
        /\ t.poller = NoAttempt
    BY <1>1, <1>4, Deciding DEF IInv, Shape, InternalSessions
  <2>4. /\ pc'[id][n] = "refining" /\ conn'[id] = conn[id]
        /\ \A m \in Attempts \ {n} : pc'[id][m] = pc[id][m]
    BY <1>4, AttemptMoves DEF IInv
  <2> HIDE DEF s, t
  <2>5. Unbegun(id)' /\ OneDecides(id)'
    BY <1>1, <1>4, <2>3, <2>4, Deciding DEF Sound, Unbegun, OneDecides, Active, t
  <2>6. HoldsItsOwn(id)' /\ Polls(id)' /\ Informed(id)'
    BY <1>1, <1>4, <2>3, <2>4, Deciding DEF Sound, HoldsItsOwn, Polls, Informed, s, t
  <2>7. Undisturbed(id)'
    <3>1. NeverRaced(id)' <=> NeverRaced(id)
      BY <1>1, <2>3, Deciding DEF NeverRaced, t
    <3>2. \A m \in Attempts \ {n} : pc'[id][m] \notin Active
      BY <1>1, <2>4, Deciding
    <3> QED
      BY <1>1, <1>4, <2>3, <2>4, <3>1, <3>2, Deciding
        DEF Sound, Undisturbed, Active, s, t
  <2> QED
    BY <2>1, <2>2, <2>5, <2>6, <2>7, OneWritten DEF Sound
<1> QED
  BY <1>2, <1>3, <1>4 DEF Identified

LEMMA RefinedKeeps ==
  ASSUME IInv, NEW id \in Ids, NEW n \in Attempts, Refined(id, n)
  PROVE  IInv'
<1>1. pc[id][n] = "refining" /\ pc[id][n] \in Active /\ UNCHANGED <<table, closing>>
  BY DEF Refined, Active
<1>2. CASE id \in table
  BY <1>1, <1>2, GoLiveKeeps DEF Refined
<1>3. CASE id \notin table
  <2> DEFINE end == IF conn[id][n] = "open" THEN "closed" ELSE conn[id][n]
  <2>1. end \in {"lost", "closed", "none"} /\ conn' = [conn EXCEPT ![id][n] = end]
    BY <1>3 DEF Refined, Leave, IInv, Shape
  <2> HIDE DEF end
  <2> QED
    BY <1>1, <1>3, <2>1, LeaveKeeps DEF Refined, Leave
<1> QED
  BY <1>2, <1>3

\* The end of a catch block clears what the session holds, its own or not.
LEMMA CatchEndsKeeps ==
  ASSUME IInv, NEW id \in Ids, NEW n \in Attempts, CatchEnds(id, n)
  PROVE  IInv'
<1> DEFINE s == session[id]
           t == session'[id]
           given == [s EXCEPT !.scpi = NoAttempt, !.rings = NoAttempt,
                              !.listener = NoAttempt, !.poller = NoAttempt]
<1>1. /\ pc[id][n] = "catch" /\ Sound(id) /\ s \in InternalSessions /\ n > 0
      /\ id \in Silent /\ n <= s.attempt /\ conn[id][n] # "open" /\ s.status # "none"
      /\ n = s.attempt => s.status = "error"
  <2>1. pc[id][n] = "catch" /\ Sound(id) /\ s \in InternalSessions /\ n > 0
    BY BoundsArePositive DEF CatchEnds, IInv, Shape, Attempts
  <2>2. /\ id \in Silent /\ n <= s.attempt /\ conn[id][n] # "open"
        /\ n = s.attempt => s.status = "error"
    BY <2>1 DEF Sound, OneDecides
  <2>3. s.status # "none"
    BY <2>1, <2>2 DEF Sound, Unbegun, Fresh, Attempts
  <2> QED
    BY <2>1, <2>2, <2>3
<1>2. given \in InternalSessions
  BY <1>1, UpdatesAreSessions
<1>3. /\ session' = [session EXCEPT ![id] = given] /\ Goto(id, n, "done")
      /\ told' = [told EXCEPT ![id] = s.status] /\ UNCHANGED <<table, conn, closing>>
  BY DEF CatchEnds, Abandon, Emit
<1>4. /\ given.status = s.status /\ given.attempt = s.attempt /\ given.scpi = NoAttempt
      /\ given.poller = NoAttempt
  BY <1>1 DEF InternalSessions
<1> HIDE DEF given
<1>5. Shape'
  BY <1>1, <1>2, <1>3, AttemptMoves DEF IInv, Shape, InternalSessions
<1>6. OnlyAbout(id)
  BY <1>3, AttemptMoves DEF IInv, Shape, OnlyAbout
<1>7. /\ t = given /\ told'[id] = s.status /\ pc'[id][n] = "done"
      /\ \A m \in Attempts \ {n} : pc'[id][m] = pc[id][m]
  BY <1>3, AttemptMoves DEF IInv, Shape
<1> HIDE DEF s, t
<1>8. Unbegun(id)' /\ OneDecides(id)'
  BY <1>1, <1>3, <1>4, <1>7 DEF Sound, Unbegun, OneDecides, Active, s, t,
                                InternalSessions, Attempts
<1>9. HoldsItsOwn(id)' /\ Polls(id)' /\ Informed(id)'
  BY <1>4, <1>7 DEF HoldsItsOwn, Polls, Informed, t
<1>10. Undisturbed(id)'
  <2>1. SUFFICES ASSUME NeverRaced(id) PROVE Undisturbed(id)'
    BY <1>4, <1>7 DEF Undisturbed, NeverRaced, s, t
  <2>2. n = s.attempt /\ s.status = "error"
    BY <1>1, <2>1, BoundsArePositive DEF NeverRaced, s, InternalSessions, Attempts
  <2>3. \A m \in Attempts : pc'[id][m] \notin Active
    BY <1>1, <1>7, <2>2 DEF Sound, OneDecides, Active, s
  <2>4. \A m \in Attempts : conn[id][m] # "open"
    BY <1>1, <2>1, <2>2, BoundsArePositive
      DEF Sound, Undisturbed, HoldsItsOwn, s, Attempts, NoAttempt
  <2> QED
    BY <1>3, <1>4, <1>7, <2>2, <2>3, <2>4 DEF Undisturbed, Active, t
<1> QED
  BY <1>5, <1>6, <1>8, <1>9, <1>10, OneWritten DEF Sound

LEMMA LostKeeps ==
  ASSUME IInv, NEW id \in Ids, NEW n \in Attempts, Lost(id, n)
  PROVE  IInv'
<1> DEFINE s == session[id]
           t == session'[id]
<1>1. /\ conn[id][n] = "open" /\ conn' = [conn EXCEPT ![id][n] = "lost"]
      /\ UNCHANGED <<table, pc, closing>> /\ Sound(id) /\ s \in InternalSessions
  BY DEF Lost, IInv, Shape
<1>2. /\ conn'[id][n] = "lost"
      /\ \A m \in Attempts \ {n} : conn'[id][m] = conn[id][m]
  BY <1>1 DEF IInv, Shape
<1>3. NeverRaced(id) => \A m \in Attempts : conn'[id][m] # "open"
  BY <1>1, <1>2 DEF Sound, Undisturbed
<1>4. CASE UNCHANGED <<session, told>>
  <2>1. Shape' /\ OnlyAbout(id)
    BY <1>1, <1>4 DEF IInv, Shape, OnlyAbout
  <2>2. Unbegun(id)' /\ OneDecides(id)'
    BY <1>1, <1>2, <1>4 DEF Sound, Unbegun, OneDecides
  <2>3. HoldsItsOwn(id)' /\ Polls(id)' /\ Informed(id)'
    BY <1>1, <1>4 DEF Sound, HoldsItsOwn, Polls, Informed
  <2>4. Undisturbed(id)'
    BY <1>1, <1>3, <1>4 DEF Sound, Undisturbed, NeverRaced, Wired
  <2> QED
    BY <2>1, <2>2, <2>3, <2>4, OneWritten DEF Sound
<1>5. CASE id \in table /\ s.status = "connected" /\ UnexpectedClose(id)
  <2> DEFINE over == [s EXCEPT !.status = "error", !.facade = FALSE, !.scpi = NoAttempt,
                               !.rings = NoAttempt, !.listener = NoAttempt,
                               !.poller = NoAttempt]
  <2>1. over \in InternalSessions
    BY <1>1, UpdatesAreSessions
  <2>2. session' = [session EXCEPT ![id] = over] /\ told' = [told EXCEPT ![id] = "error"]
    BY <1>5 DEF UnexpectedClose, Emit
  <2>3. /\ over.status = "error" /\ over.attempt = s.attempt /\ over.scpi = NoAttempt
        /\ over.poller = NoAttempt
    BY <1>1 DEF InternalSessions
  <2> HIDE DEF over
  <2>4. Shape' /\ OnlyAbout(id)
    BY <1>1, <2>1, <2>2 DEF IInv, Shape, OnlyAbout, Statuses
  <2>5. t = over /\ told'[id] = "error"
    BY <2>2 DEF IInv, Shape
  <2> HIDE DEF s, t
  <2>6. \A m \in Attempts : pc[id][m] \notin Active
    BY <1>1, <1>5 DEF Sound, OneDecides, s
  <2>7. Unbegun(id)' /\ OneDecides(id)'
    BY <1>1, <1>2, <1>5, <2>3, <2>5, <2>6 DEF Sound, Unbegun, OneDecides, s, t
  <2>8. HoldsItsOwn(id)' /\ Polls(id)' /\ Informed(id)'
    BY <2>3, <2>5 DEF HoldsItsOwn, Polls, Informed, t
  <2>9. Undisturbed(id)'
    BY <1>1, <1>3, <2>3, <2>5, <2>6 DEF Undisturbed, NeverRaced, Active, s, t
  <2> QED
    BY <2>4, <2>7, <2>8, <2>9, OneWritten DEF Sound
<1> QED
  BY <1>4, <1>5 DEF Lost, UnexpectedClose

-----------------------------------------------------------------------------

\* At every await of open(), #establish, close() and a loss it is settled which attempt
\* decides about a session, and what it holds is that attempt's.
THEOREM IInvHolds == Spec => []IInv
<1>1. Init => IInv
  BY InitSound
<1>2. IInv /\ [Next]_vars => IInv'
  <2> SUFFICES ASSUME IInv, [Next]_vars PROVE IInv'
    OBVIOUS
  <2>1. ASSUME NEW id \in Ids, NEW n \in Attempts, Establish(id, n) PROVE IInv'
    BY <2>1, ConnectedKeeps, ConnectFailsKeeps, IdentifiedKeeps, IdentifyFailsKeeps,
       RefinedKeeps, CatchEndsKeeps DEF Establish
  <2>2. ASSUME NEW id \in Ids, Open(id) \/ Reconnect(id) \/ CloseEnds(id) PROVE IInv'
    BY <2>2, OpenKeeps, ReconnectKeeps, CloseEndsKeeps
  <2>3. ASSUME NEW id \in Ids, Close(id) PROVE IInv'
    BY <2>3, CloseIdsKeeps DEF Close
  <2>4. CASE CloseAll
    BY <2>4, CloseIdsKeeps DEF CloseAll
  <2>5. ASSUME NEW id \in Ids, NEW n \in Attempts, Lost(id, n) PROVE IInv'
    BY <2>5, LostKeeps
  <2>6. CASE UNCHANGED vars
    <3>1. Shape'
      BY <2>6 DEF vars, IInv, Shape
    <3>2. ASSUME NEW id \in Ids PROVE Sound(id)'
      BY <2>6, UntouchedSound DEF vars, IInv
    <3> QED
      BY <3>1, <3>2 DEF IInv
  <2> QED
    BY <2>1, <2>2, <2>3, <2>4, <2>5, <2>6 DEF Next
<1> QED
  BY <1>1, <1>2, PTL DEF Spec

\* Every session is of its record type, stands at a known point of open() and
\* #establish, and names only attempts that exist.
THEOREM TypeCorrect == Spec => []Shape
<1>1. IInv => Shape
  BY DEF IInv
<1> QED
  BY <1>1, IInvHolds, PTL

\* Unless a reconnect meets a catch block that still ends its connection, no
\* connection is left open that close() could not reach: whatever the interleaving
\* of #establish with close, closeAll, reconnect and connections that drop.
THEOREM NothingLeaks == Spec => []NoConnectionLeaked
<1>1. IInv => NoConnectionLeaked
  BY DEF IInv, Sound, Undisturbed, NoConnectionLeaked
<1> QED
  BY <1>1, IInvHolds, PTL

\* A session reported connected has its SCPI session, rings and close listener, all
\* three of the same attempt, with the same exception.
THEOREM ConnectedMeansWired == Spec => []ConnectedIsWired
<1>1. IInv => ConnectedIsWired
  BY DEF IInv, Shape, Sound, Undisturbed, ConnectedIsWired
<1> QED
  BY <1>1, IInvHolds, PTL

\* The error poller is stopped on every way out of "connected": by close, by a lost
\* connection, and by the catch block of an attempt, its own or an older one.
THEOREM ThePollerStops == Spec => []PollerStops
<1>1. IInv => PollerStops
  BY DEF IInv, Sound, Polls, PollerStops
<1> QED
  BY <1>1, IInvHolds, PTL

\* The last event about a session tells its status, except while an attempt is in
\* its catch block.
THEOREM SubscribersAreInformed == Spec => []SubscribersInformed
<1>1. IInv => SubscribersInformed
  BY DEF IInv, Shape, Sound, Informed, SubscribersInformed
<1> QED
  BY <1>1, IInvHolds, PTL
=============================================================================
