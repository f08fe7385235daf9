----------------------------- MODULE PanicStop ------------------------------
(***************************************************************************)
(* The "all outputs off" button: one SessionManager.panic() (packages/     *)
(* server/src/sessions/manager.ts) and the routines that switch one        *)
(* instrument off (packages/core/src/facades/output-kill.ts).              *)
(*                                                                         *)
(* The panic starts a kill for every session it finds connected and able,  *)
(* each against its own timer; a kill goes on when its timer has fired.    *)
(* A step of a kill is one awaited SCPI operation, carried out or refused. *)
(* What the instrument makes of a command is not read back.  Sessions drop *)
(* and come back, other requests use the instruments, at any time.         *)
(***************************************************************************)
EXTENDS Naturals

CONSTANTS
  Psus, Generators, Loads,  \* sessions by the façade they have
  Others,                   \* sessions without disableAllOutputs
  Tracking,                 \* power supplies that can couple their channels
  Selecting,                \* power supplies whose channel is selected by a command
                            \* of its own (nge.ts, spe.ts, pws.ts, e36.ts)
  Deaf,                     \* instruments that may not obey what they are sent
  Channels                  \* channels of a power supply or a generator

Killable == Psus \cup Generators \cup Loads
Ids == Killable \cup Others

ASSUME KindsDisjoint ==
  /\ Others \cap Killable = {}
  /\ Loads \cap (Psus \cup Generators) = {}
ASSUME SpecialPsus == Tracking \subseteq Psus /\ Selecting \subseteq Psus
ASSUME DeafAreKillable == Deaf \subseteq Killable
ASSUME ChannelsPositive == Channels \in Nat \ {0}

\* A load has one input, switched like a channel.
Outputs(id) == IF id \in Loads THEN 1..1 ELSE 1..Channels

VARIABLES
  connected,  \* sessions whose status is "connected"
  on,         \* the outputs each instrument has on
  coupled,    \* power supplies whose tracking is on
  selected,   \* the channel each instrument applies its next command to
  state,      \* the panic: "idle", "running" or "done"
  skipped,    \* skippedSessions
  kill,       \* each session's disableAllOutputs()
  row,        \* its row in touchedSessions
  enabled     \* history: instruments somebody switched on since the panic began

bench == <<connected, on, coupled, selected>>
vars == <<bench, state, skipped, kill, row, enabled>>

NoKill == [at |-> "none", next |-> 1, touched |-> {}, failed |-> FALSE, linked |-> TRUE]
NoRow == [kind |-> "none", touched |-> {}]
TimeoutRow == [kind |-> "error", touched |-> {}]

Init ==
  /\ connected = Ids
  /\ on = [id \in Ids |-> Outputs(id)]
  /\ coupled = Tracking
  /\ selected = [id \in Ids |-> 1]
  /\ state = "idle"
  /\ skipped = {}
  /\ kill = [id \in Ids |-> NoKill]
  /\ row = [id \in Ids |-> NoRow]
  /\ enabled = {}

-----------------------------------------------------------------------------
(* panic() *)

NextChannel(id) == IF id \in Selecting THEN "select" ELSE "channel"

FirstStep(id) ==
  IF id \in Tracking THEN "tracking" ELSE IF id \in Loads THEN "channel" ELSE "list"

\* The request: the sessions are sorted out and the kills started, all at once.
Panic ==
  LET chosen == connected \cap Killable
  IN  /\ state = "idle"
      /\ state' = "running"
      /\ skipped' = Ids \ chosen
      /\ kill' = [id \in Ids |-> IF id \in chosen THEN [NoKill EXCEPT !.at = FirstStep(id)]
                                                  ELSE NoKill]
      /\ UNCHANGED <<bench, row, enabled>>

Started == {id \in Ids : kill[id].at # "none"}

\* withTimeout's timer: the row is an error, the kill goes on.
TimerFires(id) ==
  /\ id \in Started
  /\ row[id] = NoRow
  /\ row' = [row EXCEPT ![id] = TimeoutRow]
  /\ UNCHANGED <<bench, state, skipped, kill, enabled>>

\* Mutant of PanicEnds: the first result answers the request.
PanicEndsEarly ==
  /\ state = "running"
  /\ Started # {} => \E id \in Started : row[id] # NoRow
  /\ state' = "done"
  /\ UNCHANGED <<bench, skipped, kill, row, enabled>>

\* Mutant of PanicEnds: the kills are waited for as well.
PanicEndsAfterKills ==
  /\ state = "running"
  /\ \A id \in Started : row[id] # NoRow /\ kill[id].at = "done"
  /\ state' = "done"
  /\ UNCHANGED <<bench, skipped, kill, row, enabled>>

\* Promise.all over the kills is fulfilled; the result is sent and broadcast.
PanicEnds ==
  /\ state = "running"
  /\ \A id \in Started : row[id] # NoRow
  /\ state' = "done"
  /\ UNCHANGED <<bench, skipped, kill, row, enabled>>

-----------------------------------------------------------------------------
(* One instrument: runPsuDisableAll, runSgDisableAll, runEloadDisableAll *)

\* Mutant of Outcome: a failure does not count when something was switched off.
OutcomeOptimistic(k) ==
  [kind |-> IF ~k.failed \/ k.touched # {} THEN "ok" ELSE "error", touched |-> k.touched]

Outcome(k) ==
  [kind |-> IF ~k.failed THEN "ok" ELSE IF k.touched # {} THEN "partial" ELSE "error",
   touched |-> k.touched]

\* Mutant of Settle: a late result replaces the timeout's.
SettleLate(id, k) ==
  /\ kill' = [kill EXCEPT ![id] = k]
  /\ row' = IF k.at = "done" THEN [row EXCEPT ![id] = Outcome(k)] ELSE row
  /\ UNCHANGED <<state, skipped, enabled>>

\* The kill continues as `k'.  At its end its result is the row, unless the timer
\* was faster.
Settle(id, k) ==
  /\ kill' = [kill EXCEPT ![id] = k]
  /\ row' = IF k.at = "done" /\ row[id] = NoRow THEN [row EXCEPT ![id] = Outcome(k)] ELSE row
  /\ UNCHANGED <<state, skipped, enabled>>

TrackingRead(id) ==
  LET k == kill[id]
  IN  /\ k.at = "tracking"
      /\ \/ k.linked /\ Settle(id, [k EXCEPT !.at = IF id \in coupled THEN "untrack" ELSE "list"])
         \/ Settle(id, [k EXCEPT !.at = "list", !.failed = TRUE])
      /\ UNCHANGED bench

TrackingCleared(id) ==
  LET k == kill[id]
  IN  /\ k.at = "untrack"
      /\ \/ /\ k.linked
            /\ \/ coupled' = coupled \ {id}
               \/ id \in Deaf /\ UNCHANGED coupled
            /\ Settle(id, [k EXCEPT !.at = "list"])
         \/ /\ UNCHANGED coupled
            /\ Settle(id, [k EXCEPT !.at = "list", !.failed = TRUE])
      /\ UNCHANGED <<connected, on, selected>>

\* Mutant of ChannelsListed: no list, nothing to do.
ChannelsListedOrNot(id) ==
  LET k == kill[id]
  IN  /\ k.at = "list"
      /\ \/ k.linked /\ Settle(id, [k EXCEPT !.at = NextChannel(id)])
         \/ Settle(id, [k EXCEPT !.at = "done"])
      /\ UNCHANGED bench

\* getChannels(): without the list no channel is written.
ChannelsListed(id) ==
  LET k == kill[id]
  IN  /\ k.at = "list"
      /\ \/ k.linked /\ Settle(id, [k EXCEPT !.at = NextChannel(id)])
         \/ Settle(id, [k EXCEPT !.at = "done", !.failed = TRUE])
      /\ UNCHANGED bench

AfterChannel(id, k) ==
  IF k.next + 1 \in Outputs(id) THEN [k EXCEPT !.next = @ + 1, !.at = NextChannel(id)]
                                ELSE [k EXCEPT !.at = "done"]

\* #select() of drivers that have one; the command that switches comes after it.
ChannelSelected(id) ==
  LET k == kill[id]
  IN  /\ k.at = "select"
      /\ \/ /\ k.linked
            /\ selected' = [selected EXCEPT ![id] = k.next]
            /\ Settle(id, [k EXCEPT !.at = "channel"])
         \/ /\ UNCHANGED selected
            /\ Settle(id, AfterChannel(id, [k EXCEPT !.failed = TRUE]))
      /\ UNCHANGED <<connected, on, coupled>>

Target(id) == IF id \in Selecting THEN selected[id] ELSE kill[id].next

\* A channel that fails does not keep the next one from being tried.
ChannelOff(id) ==
  LET k == kill[id]
  IN  /\ k.at = "channel"
      /\ \/ /\ k.linked
            /\ \/ on' = [on EXCEPT ![id] = @ \ {Target(id)}]
               \/ id \in Deaf /\ UNCHANGED on
            /\ Settle(id, AfterChannel(id, [k EXCEPT !.touched = @ \cup {k.next}]))
         \/ /\ UNCHANGED on
            /\ Settle(id, AfterChannel(id, [k EXCEPT !.failed = TRUE]))
      /\ UNCHANGED <<connected, coupled, selected>>

KillStep(id) ==
  \/ TrackingRead(id) \/ TrackingCleared(id)
  \/ ChannelsListed(id) \/ ChannelSelected(id) \/ ChannelOff(id)

-----------------------------------------------------------------------------
(* The rest of the bench *)

\* A connection is lost: the kill keeps the session's old façade, so every
\* operation it has left is rejected, also when the session is back.
Drop(id) ==
  /\ id \in connected
  /\ connected' = connected \ {id}
  /\ kill' = [kill EXCEPT ![id].linked = (@ /\ kill[id].at \in {"none", "done"})]
  /\ UNCHANGED <<on, coupled, selected, state, skipped, row, enabled>>

Reconnect(id) ==
  /\ id \notin connected
  /\ connected' = connected \cup {id}
  /\ UNCHANGED <<on, coupled, selected, state, skipped, kill, row, enabled>>

\* A request of another client, or the front panel.
Enable(id, ch) ==
  /\ ch \in Outputs(id)
  /\ ch \notin on[id]
  /\ on' = [on EXCEPT ![id] = @ \cup {ch}]
  /\ enabled' = IF state = "idle" THEN enabled ELSE enabled \cup {id}
  /\ UNCHANGED <<connected, coupled, selected, state, skipped, kill, row>>

\* A reading or a request of another client selects the channel it is about: its
\* command and a kill's are sent in any order.
OtherSelects(id, ch) ==
  /\ id \in Selecting
  /\ ch \in Outputs(id) \ {selected[id]}
  /\ selected' = [selected EXCEPT ![id] = ch]
  /\ UNCHANGED <<connected, on, coupled, state, skipped, kill, row, enabled>>

-----------------------------------------------------------------------------

Next ==
  \/ Panic \/ PanicEnds
  \/ \E id \in Killable : TimerFires(id) \/ KillStep(id)
  \/ \E id \in Ids : Drop(id) \/ Reconnect(id)
  \/ \E id \in Killable, ch \in 1..Channels : Enable(id, ch) \/ OtherSelects(id, ch)

Spec == Init /\ [][Next]_vars

\* Timers fire and promise continuations run; instruments may hang.
FairSpec ==
  /\ Spec
  /\ WF_vars(PanicEnds)
  /\ \A id \in Killable : WF_vars(TimerFires(id))

-----------------------------------------------------------------------------
(* Properties *)

\* The bench, the kills and the rows have their types; a kill's position is one
\* of the instrument's outputs.
TypeOK ==
  /\ connected \subseteq Ids
  /\ \A id \in Ids : on[id] \subseteq Outputs(id)
  /\ coupled \subseteq Tracking
  /\ \A id \in Ids : selected[id] \in Outputs(id)
  /\ state \in {"idle", "running", "done"}
  /\ skipped \subseteq Ids
  /\ \A id \in Ids :
       /\ kill[id].at \in {"none", "tracking", "untrack", "list", "select", "channel", "done"}
       /\ kill[id].next \in Outputs(id)
       /\ kill[id].touched \subseteq Outputs(id)
       /\ kill[id].failed \in BOOLEAN /\ kill[id].linked \in BOOLEAN
       /\ row[id].kind \in {"none", "ok", "partial", "error"}
       /\ row[id].touched \subseteq Outputs(id)
  /\ enabled \subseteq Killable

\* Instruments whose switching nobody can divert and that obey.
Steady == Killable \ (Selecting \cup Deaf)

\* A steady instrument that is reported "ok" has no output on and no channels
\* coupled, unless somebody switched an output on since the panic began.
OkMeansOff ==
  \A id \in Steady : row[id].kind = "ok" =>
    /\ id \notin enabled => on[id] = {}
    /\ id \notin coupled

\* Reported "ok", an instrument is off (docs/steps/5-2-panic-stop.md:46-47:
\* "Return `ok` only if every channel reports disabled").
OkMeansDisabled ==
  \A id \in Killable \ enabled : row[id].kind = "ok" => on[id] = {}

\* Every output the result does not list as switched off is accounted for: the
\* row is "partial" or "error"; and none lists an output of a steady instrument that
\* is still on.
RowsAreHonest ==
  \A id \in Started : row[id] # NoRow =>
    /\ id \in Steady \ enabled => row[id].touched \cap on[id] = {}
    /\ row[id].touched # Outputs(id) => row[id].kind \in {"partial", "error"}

\* Once the request is answered every session is accounted for, in a row or as
\* skipped, and those rows are all the kills that run.
ResultIsComplete ==
  state = "done" => \A id \in Ids : (id \in skipped) # (row[id] # NoRow)

\* A row is settled once: an answer that comes after the timeout changes nothing.
RowsAreFinal ==
  [][\A id \in Ids : row[id] # NoRow => row'[id] = row[id]]_vars

\* The operator gets an answer whatever instruments hang: nothing is assumed of
\* the kills.
PanicCompletes == state = "running" ~> state = "done"
=============================================================================
