--------------------------- MODULE SessionManager ---------------------------
(***************************************************************************)
(* packages/server/src/sessions/manager.ts: the table of instrument        *)
(* sessions and the background coroutine (#establish) that connects,       *)
(* identifies and refines each of them, against reconnect and close        *)
(* requests and connections that drop at any await.                        *)
(*                                                                         *)
(* An attempt is one run of #establish and the ScpiSession it obtains.     *)
(* Each action is what runs between two awaits.  Ending a connection that  *)
(* is open takes time (the FIN has to be flushed); one that is gone ends   *)
(* within the turn.  When a connection goes, the query an attempt waits    *)
(* for is rejected within the same turn: `Quiet' holds between turns.      *)
(***************************************************************************)
EXTENDS Naturals, FiniteSets

CONSTANTS
  Ids,          \* session ids open() may hand out
  MaxSessions,  \* the cap of open()
  MaxAttempts,  \* bound: runs of #establish per session
  Silent        \* ids whose instrument may accept a connection and not identify itself

ASSUME BoundsArePositive == MaxSessions \in Nat \ {0} /\ MaxAttempts \in Nat \ {0}
ASSUME SilentAreIds == Silent \subseteq Ids

Attempts == 1..MaxAttempts
NoAttempt == 0

VARIABLES
  table,    \* the ids in #sessions
  session,  \* the InternalSession of each id
  pc,       \* where each attempt's #establish stands
  conn,     \* each attempt's ScpiSession: "none", "open", "lost" or "closed"
  closing,  \* close(): "no", "ending" (awaits the transport), "done"
  told      \* the last event emitted about the id

vars == <<table, session, pc, conn, closing, told>>

\* `scpi', `rings', `listener' and `poller' name the attempt they belong to;
\* `attempt' counts the runs of #establish.
Fresh == [status |-> "none", scpi |-> NoAttempt, rings |-> NoAttempt, listener |-> NoAttempt,
          poller |-> NoAttempt, facade |-> FALSE, known |-> FALSE, attempt |-> 0]

Init ==
  /\ table = {}
  /\ session = [id \in Ids |-> Fresh]
  /\ pc = [id \in Ids |-> [n \in Attempts |-> "idle"]]
  /\ conn = [id \in Ids |-> [n \in Attempts |-> "none"]]
  /\ closing = [id \in Ids |-> "no"]
  /\ told = [id \in Ids |-> "none"]

Goto(id, n, where) == pc' = [pc EXCEPT ![id][n] = where]
Emit(id, event) == told' = [told EXCEPT ![id] = event]

\* The attempt whose connection `session.scpi' names is still open.
HoldsOpen(id) == session[id].scpi # NoAttempt /\ conn[id][session[id].scpi] = "open"

-----------------------------------------------------------------------------
(* open, reconnect *)

\* open() below the cap; at the cap it throws and changes nothing.
Open(id) ==
  /\ session[id].status = "none"
  /\ Cardinality(table) < MaxSessions
  /\ table' = table \cup {id}
  /\ session' = [session EXCEPT ![id] = [Fresh EXCEPT !.status = "connecting", !.attempt = 1]]
  /\ Goto(id, 1, "connecting")
  /\ Emit(id, "connecting")
  /\ UNCHANGED <<conn, closing>>

\* reconnect(): anything but an errored session is left alone.
Reconnect(id) ==
  /\ id \in table
  /\ session[id].status \notin {"connecting", "connected"}
  /\ session[id].attempt < MaxAttempts
  /\ LET n == session[id].attempt + 1
     IN  /\ session' = [session EXCEPT ![id] =
                          [Fresh EXCEPT !.status = "connecting", !.attempt = n]]
         /\ Goto(id, n, "connecting")
  /\ Emit(id, "connecting")
  /\ UNCHANGED <<table, conn, closing>>

-----------------------------------------------------------------------------
(* close, closeAll *)

\* The synchronous part of close() for each id, and what follows at once when
\* there is no connection to wait for.
CloseIds(ids) ==
  /\ table' = table \ ids
  /\ session' = [id \in Ids |->
                  IF id \in ids
                  THEN [session[id] EXCEPT !.listener = NoAttempt, !.poller = NoAttempt]
                  ELSE session[id]]
  /\ conn' = [id \in Ids |->
               IF id \in ids /\ HoldsOpen(id)
               THEN [conn[id] EXCEPT ![session[id].scpi] = "closed"]
               ELSE conn[id]]
  /\ LET waits == {id \in ids : HoldsOpen(id)}
     IN  /\ closing' = [id \in Ids |-> IF id \in waits THEN "ending"
                                       ELSE IF id \in ids THEN "done" ELSE closing[id]]
         /\ told' = [id \in Ids |-> IF id \in ids \ waits THEN "removed" ELSE told[id]]
  /\ UNCHANGED pc

Close(id) == id \in table /\ CloseIds({id})

CloseAll == table # {} /\ CloseIds(table)

\* close() after `await session.scpi.close()'.
CloseEnds(id) ==
  /\ closing[id] = "ending"
  /\ closing' = [closing EXCEPT ![id] = "done"]
  /\ Emit(id, "removed")
  /\ UNCHANGED <<table, session, pc, conn>>

-----------------------------------------------------------------------------
(* #establish *)

\* The end of the catch block: whatever the session holds by then is dropped
\* and its state, whatever it is by then, is emitted.
Abandon(id, n, s) ==
  /\ session' = [session EXCEPT ![id] =
                   [s EXCEPT !.scpi = NoAttempt, !.rings = NoAttempt,
                             !.listener = NoAttempt, !.poller = NoAttempt]]
  /\ Goto(id, n, "done")
  /\ Emit(id, s.status)

\* The catch block up to its await: the status is already "error" while the
\* connection is being ended.
Catch(id, n) ==
  LET failed == [session[id] EXCEPT !.status = "error"]
  IN  IF HoldsOpen(id)
      THEN /\ conn' = [conn EXCEPT ![id][session[id].scpi] = "closed"]
           /\ session' = [session EXCEPT ![id] = failed]
           /\ Goto(id, n, "catch")
           /\ UNCHANGED told
      ELSE Abandon(id, n, failed) /\ UNCHANGED conn

CatchEnds(id, n) ==
  /\ pc[id][n] = "catch"
  /\ Abandon(id, n, session[id])
  /\ UNCHANGED <<table, conn, closing>>

\* Mutant of Connected: the new connection is adopted by a closed session.
ConnectedUnchecked(id, n) ==
  /\ pc[id][n] = "connecting"
  /\ conn' = [conn EXCEPT ![id][n] = "open"]
  /\ session' = [session EXCEPT ![id].scpi = n, ![id].rings = n]
  /\ Goto(id, n, "idn")
  /\ UNCHANGED <<table, closing, told>>

\* scpiFactory resolves.  A session closed meanwhile gives the connection up;
\* otherwise it is adopted and *IDN? sent.
Connected(id, n) ==
  /\ pc[id][n] = "connecting"
  /\ IF id \in table
     THEN /\ conn' = [conn EXCEPT ![id][n] = "open"]
          /\ session' = [session EXCEPT ![id].scpi = n, ![id].rings = n]
          /\ Goto(id, n, "idn")
     ELSE /\ conn' = [conn EXCEPT ![id][n] = "closed"]
          /\ Goto(id, n, "done")
          /\ UNCHANGED session
  /\ UNCHANGED <<table, closing, told>>

\* Mutant of ConnectFails: the rejection is not caught.
ConnectFailsUncaught(id, n) ==
  /\ pc[id][n] = "connecting"
  /\ Goto(id, n, "done")
  /\ UNCHANGED <<table, session, conn, closing, told>>

ConnectFails(id, n) ==
  /\ pc[id][n] = "connecting"
  /\ Catch(id, n)
  /\ UNCHANGED <<table, closing>>

\* The session goes live: facade, status, close listener (which a connection
\* already gone will never call) and, for a known kind, the error poller.
GoLive(id, n, known) ==
  /\ session' = [session EXCEPT ![id] =
                   [session[id] EXCEPT !.status = "connected", !.known = known,
                                       !.facade = known, !.listener = n,
                                       !.poller = IF known THEN n ELSE session[id].poller]]
  /\ Goto(id, n, "done")
  /\ Emit(id, "connected")

\* An attempt that finds its session gone closes its connection and returns.
Leave(id, n) ==
  /\ conn' = [conn EXCEPT ![id][n] = IF @ = "open" THEN "closed" ELSE @]
  /\ Goto(id, n, "done")
  /\ UNCHANGED <<session, told>>

\* *IDN? is answered; the registry knows no driver, a driver, or a driver whose
\* profile has to be probed first.
Identified(id, n) ==
  /\ pc[id][n] = "idn"
  /\ conn[id][n] = "open"
  /\ \/ id \notin table /\ Leave(id, n)
     \/ id \in table /\ (\E known \in BOOLEAN : GoLive(id, n, known)) /\ UNCHANGED conn
     \/ /\ id \in table
        /\ session' = [session EXCEPT ![id].known = TRUE]
        /\ Goto(id, n, "refining")
        /\ UNCHANGED <<conn, told>>
  /\ UNCHANGED <<table, closing>>

\* *IDN? times out or makes no sense, or the connection is gone.
IdentifyFails(id, n) ==
  /\ pc[id][n] = "idn"
  /\ conn[id][n] = "open" => id \in Silent
  /\ Catch(id, n)
  /\ UNCHANGED <<table, closing>>

\* Mutant of Refined: a session closed while it was refined is brought back.
RefinedUnchecked(id, n) ==
  /\ pc[id][n] = "refining"
  /\ GoLive(id, n, TRUE)
  /\ UNCHANGED <<table, conn, closing>>

\* driver.refine() ends.  Its failure falls back to the driver's defaults, so a
\* connection lost while refining is not noticed here.
Refined(id, n) ==
  /\ pc[id][n] = "refining"
  /\ IF id \in table THEN GoLive(id, n, TRUE) /\ UNCHANGED conn
                     ELSE Leave(id, n)
  /\ UNCHANGED <<table, closing>>

-----------------------------------------------------------------------------
(* Connections that drop *)

\* Mutant of UnexpectedClose: the status stays.
UnexpectedCloseKeepsStatus(id) ==
  /\ session' = [session EXCEPT ![id] =
                   [@ EXCEPT !.facade = FALSE, !.scpi = NoAttempt, !.rings = NoAttempt,
                             !.listener = NoAttempt, !.poller = NoAttempt]]
  /\ UNCHANGED told

\* Mutant of UnexpectedClose: nobody is told.
UnexpectedCloseSilent(id) ==
  /\ session' = [session EXCEPT ![id] =
                   [@ EXCEPT !.status = "error", !.facade = FALSE, !.scpi = NoAttempt,
                             !.rings = NoAttempt, !.listener = NoAttempt, !.poller = NoAttempt]]
  /\ UNCHANGED told

\* #handleUnexpectedClose.
UnexpectedClose(id) ==
  IF id \in table /\ session[id].status = "connected"
  THEN /\ session' = [session EXCEPT ![id] =
                        [@ EXCEPT !.status = "error", !.facade = FALSE, !.scpi = NoAttempt,
                                  !.rings = NoAttempt, !.listener = NoAttempt,
                                  !.poller = NoAttempt]]
       /\ Emit(id, "error")
  ELSE UNCHANGED <<session, told>>

\* The peer drops a connection; a registered close listener is called.
Lost(id, n) ==
  /\ conn[id][n] = "open"
  /\ conn' = [conn EXCEPT ![id][n] = "lost"]
  /\ IF session[id].listener = n THEN UnexpectedClose(id) ELSE UNCHANGED <<session, told>>
  /\ UNCHANGED <<table, pc, closing>>

-----------------------------------------------------------------------------

Establish(id, n) ==
  \/ Connected(id, n) \/ ConnectFails(id, n)
  \/ Identified(id, n) \/ IdentifyFails(id, n)
  \/ Refined(id, n)
  \/ CatchEnds(id, n)

\* The attempt's query has been rejected: it continues before anything else.
Rejected(id, n) == pc[id][n] \in {"idn", "refining"} /\ conn[id][n] # "open"

Quiet == \A id \in Ids, n \in Attempts : ~Rejected(id, n)

Next ==
  \/ \E id \in Ids, n \in Attempts : (Quiet \/ Rejected(id, n)) /\ Establish(id, n)
  \/ /\ Quiet
     /\ \/ \E id \in Ids : Open(id) \/ Reconnect(id) \/ Close(id) \/ CloseEnds(id)
        \/ CloseAll
        \/ \E id \in Ids, n \in Attempts : Lost(id, n)

Spec == Init /\ [][Next]_vars

\* Each await ends: the connect and the queries have timeouts, and a transport
\* being ended calls back.
FairSpec ==
  /\ Spec
  /\ \A id \in Ids : WF_vars(Quiet /\ CloseEnds(id))
  /\ \A id \in Ids, n \in Attempts :
       WF_vars((Quiet \/ Rejected(id, n)) /\ Establish(id, n))

-----------------------------------------------------------------------------
(* Properties *)

\* A reconnect cannot have met a failed attempt that still ends its connection:
\* only an attempt that gives up an open connection waits in its catch block.
NeverRaced(id) == id \notin Silent \/ session[id].attempt <= 1

\* No connection is left open that nobody can close: an open one belongs to a
\* session in the table, or its attempt is still to look.
NoConnectionLeaked ==
  \A id \in Ids, n \in Attempts :
    NeverRaced(id) /\ conn[id][n] = "open" => id \in table /\ session[id].scpi = n

\* An SCPI session to talk through, with its rings and the subscription to its
\* loss.
Wired(id) ==
  /\ session[id].scpi # NoAttempt
  /\ session[id].rings = session[id].scpi
  /\ session[id].listener = session[id].scpi

\* A session reported connected is wired (to an instrument that identifies
\* itself, or at its first attempt).
ConnectedIsWired ==
  \A id \in table : NeverRaced(id) /\ session[id].status = "connected" => Wired(id)

\* The error poller runs only for a session that is connected, of a known kind,
\* and in the table: it is stopped on every way out.
PollerStops ==
  \A id \in Ids : session[id].poller # NoAttempt =>
    id \in table /\ session[id].status = "connected" /\ session[id].known

\* Between turns the last event about a session in the table says what its
\* status is, except while a failed attempt still ends its connection.
SubscribersInformed ==
  \A id \in table :
    (\A n \in Attempts : pc[id][n] # "catch") => told[id] = session[id].status

\* Every session that starts connecting becomes connected, errored or closed.
OpenSettles ==
  \A id \in Ids :
    (id \in table /\ session[id].status = "connecting")
      ~> (id \notin table \/ session[id].status # "connecting")
=============================================================================
