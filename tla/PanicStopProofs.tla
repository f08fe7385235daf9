-------------------------- MODULE PanicStopProofs --------------------------
(***************************************************************************)
(* What a panic reports is true for every bench: proofs about PanicStop.   *)
(*                                                                         *)
(* A row is written from the kill's own account, so the invariant says     *)
(* that the account is right: what a kill has touched are the channels     *)
(* before its next one unless something failed, nothing it touched is on,  *)
(* and a row that is not the timer's is the outcome of a finished kill.    *)
(***************************************************************************)
EXTENDS PanicStop, TLAPS

Kills ==
  [at : {"none", "tracking", "untrack", "list", "select", "channel", "done"},
   next : Nat, touched : SUBSET Nat, failed : BOOLEAN, linked : BOOLEAN]

Rows == [kind : {"none", "ok", "partial", "error"}, touched : SUBSET Nat]

Shape ==
  /\ connected \subseteq Ids
  /\ on \in [Ids -> SUBSET Nat]
  /\ coupled \subseteq Tracking
  /\ selected \in [Ids -> Nat]
  /\ state \in {"idle", "running", "done"}
  /\ skipped \subseteq Ids
  /\ kill \in [Ids -> Kills]
  /\ row \in [Ids -> Rows]
  /\ enabled \subseteq Killable

\* A kill's account of itself.
AccountOK(id, k) ==
  /\ k.next \in Outputs(id)
  /\ k.touched \subseteq Outputs(id)
  /\ k.at \in {"none", "tracking", "untrack", "list"} => k.next = 1 /\ k.touched = {}
  /\ k.at \in {"select", "channel"} /\ ~k.failed => k.touched = 1..(k.next - 1)
  /\ k.at = "done" /\ ~k.failed => k.touched = Outputs(id)

\* The account against the bench.
BenchOK(id) ==
  /\ on[id] \subseteq Outputs(id)
  /\ selected[id] \in Outputs(id)
  /\ id \in Steady =>
       /\ id \notin enabled => kill[id].touched \cap on[id] = {}
       /\ kill[id].at \in {"list", "select", "channel", "done"} /\ ~kill[id].failed
            => id \notin coupled

\* The row against the account.
RowOK(id) ==
  \/ row[id] = NoRow
  \/ row[id] = TimeoutRow /\ kill[id].at # "none"
  \/ row[id] = Outcome(kill[id]) /\ kill[id].at = "done"

\* The panic against the kills and the rows.
PhaseOK(id) ==
  /\ state = "idle" => kill[id].at = "none" /\ enabled = {}
  /\ state # "idle" => (id \in skipped <=> kill[id].at = "none")
  /\ state = "done" /\ kill[id].at # "none" => row[id] # NoRow

IInv ==
  /\ Shape
  /\ \A id \in Ids : AccountOK(id, kill[id]) /\ BenchOK(id) /\ RowOK(id) /\ PhaseOK(id)

-----------------------------------------------------------------------------

LEMMA OutputsCounted ==
  ASSUME NEW id \in Ids
  PROVE  /\ 1 \in Outputs(id) /\ Outputs(id) \subseteq Nat
         /\ \E n \in Nat \ {0} : Outputs(id) = 1..n
<1>1. CASE id \in Loads
  <2>1. Outputs(id) = 1..1
    BY <1>1 DEF Outputs
  <2> QED
    BY <2>1
<1>2. CASE id \notin Loads
  <2>1. Outputs(id) = 1..Channels
    BY <1>2 DEF Outputs
  <2> QED
    BY <2>1, ChannelsPositive
<1> QED
  BY <1>1, <1>2

\* A channel done with moves the account to the next one, or ends it.
LEMMA AfterChannelOK ==
  ASSUME NEW id \in Ids, NEW k \in Kills,
         k.next \in Outputs(id), k.touched \subseteq Outputs(id),
         ~k.failed => k.touched = 1..k.next
  PROVE  /\ AfterChannel(id, k) \in Kills
         /\ AccountOK(id, AfterChannel(id, k))
         /\ AfterChannel(id, k).at \in {"select", "channel", "done"}
         /\ AfterChannel(id, k).touched = k.touched
         /\ AfterChannel(id, k).failed = k.failed
<1>1. PICK n \in Nat \ {0} : Outputs(id) = 1..n
  BY OutputsCounted
<1>2. k.next \in 1..n
  BY <1>1
<1>3. CASE k.next + 1 \in Outputs(id)
  <2>1. AfterChannel(id, k) = [k EXCEPT !.next = @ + 1, !.at = NextChannel(id)]
    BY <1>3 DEF AfterChannel
  <2>2. NextChannel(id) \in {"select", "channel"}
    BY DEF NextChannel
  <2> DEFINE m == AfterChannel(id, k)
  <2>3. /\ m \in Kills /\ m.next = k.next + 1 /\ m.at \in {"select", "channel"}
        /\ m.touched = k.touched /\ m.failed = k.failed
    <3>1. m = [at |-> NextChannel(id), next |-> k.next + 1, touched |-> k.touched,
               failed |-> k.failed, linked |-> k.linked]
      BY <2>1 DEF Kills
    <3>2. k.next + 1 \in Nat
      BY <1>2
    <3> HIDE DEF m
    <3>3. m.next = k.next + 1 /\ m.at = NextChannel(id) /\ m.touched = k.touched
          /\ m.failed = k.failed
      BY <3>1
    <3>4. m \in Kills
      BY <2>2, <3>1, <3>2 DEF Kills
    <3> QED
      BY <2>2, <3>3, <3>4
  <2>4. (k.next + 1) - 1 = k.next
    BY <1>2
  <2> HIDE DEF m
  <2>5. AccountOK(id, m)
    BY <1>3, <2>3, <2>4 DEF AccountOK
  <2> QED
    BY <2>3, <2>5 DEF m
<1>4. CASE k.next + 1 \notin Outputs(id)
  <2>1. AfterChannel(id, k) = [k EXCEPT !.at = "done"]
    BY <1>4 DEF AfterChannel
  <2>2. k.next = n
    BY <1>1, <1>2, <1>4
  <2> QED
    BY <1>1, <2>1, <2>2 DEF Kills, AccountOK
<1> QED
  BY <1>3, <1>4

\* A step of a kill that keeps its account right keeps the invariant.
LEMMA SettleOK ==
  ASSUME IInv, NEW id \in Killable, NEW k \in Kills, Settle(id, k),
         kill[id].at \notin {"none", "done"}, k.at # "none",
         AccountOK(id, k),
         connected' = connected,
         on' \in [Ids -> SUBSET Nat], coupled' \subseteq coupled,
         selected' \in [Ids -> Nat],
         \A o \in Ids \ {id} : on'[o] = on[o] /\ selected'[o] = selected[o],
         on'[id] \subseteq on[id], selected'[id] \in Outputs(id),
         id \in Steady =>
           /\ id \notin enabled => k.touched \cap on'[id] = {}
           /\ k.at \in {"list", "select", "channel", "done"} /\ ~k.failed
                => id \notin coupled'
  PROVE  IInv'
<1>1. id \in Ids /\ UNCHANGED <<state, skipped, enabled>>
  BY DEF Ids, Settle
<1>2. kill' = [kill EXCEPT ![id] = k] /\ kill'[id] = k
  BY <1>1 DEF Settle, IInv, Shape
<1>3. Outcome(k) \in Rows
  BY DEF Outcome, Rows, Kills
<1>4. row' \in [Ids -> Rows] /\ \A o \in Ids \ {id} : row'[o] = row[o]
  BY <1>1, <1>3 DEF Settle, IInv, Shape
<1>5. Shape'
  BY <1>1, <1>2, <1>4 DEF IInv, Shape
<1>6. ASSUME NEW o \in Ids
      PROVE  (AccountOK(o, kill[o]) /\ BenchOK(o) /\ RowOK(o) /\ PhaseOK(o))'
  <2>0. AccountOK(o, kill[o]) /\ BenchOK(o) /\ RowOK(o) /\ PhaseOK(o)
    BY DEF IInv
  <2>1. CASE o # id
    <3>1. kill'[o] = kill[o] /\ row'[o] = row[o] /\ on'[o] = on[o] /\ selected'[o] = selected[o]
      BY <1>1, <1>2, <1>4, <2>1 DEF IInv, Shape
    <3> QED
      BY <1>1, <2>0, <3>1 DEF AccountOK, BenchOK, RowOK, PhaseOK, Outputs, Outcome
  <2>2. CASE o = id
    <3>1. AccountOK(o, kill'[o])
      BY <1>2, <2>2
    <3>2. BenchOK(o)'
      BY <1>1, <1>2, <2>0, <2>2 DEF BenchOK
    <3>3. row[id] = NoRow \/ row[id] = TimeoutRow
      BY <2>0, <2>2 DEF RowOK
    <3>4. row'[id] = IF k.at = "done" /\ row[id] = NoRow THEN Outcome(k) ELSE row[id]
      BY <1>1 DEF Settle, IInv, Shape
    <3>5. RowOK(o)'
      BY <1>2, <2>2, <3>3, <3>4 DEF RowOK
    <3>6. row[id] # NoRow => row'[id] # NoRow
      BY <3>4
    <3>7. PhaseOK(o)'
      BY <1>1, <1>2, <2>0, <2>2, <3>6 DEF PhaseOK
    <3> QED
      BY <3>1, <3>2, <3>5, <3>7 DEF AccountOK, Outputs
  <2> QED
    BY <2>1, <2>2
<1> QED
  BY <1>5, <1>6 DEF IInv

-----------------------------------------------------------------------------
(* The inductive invariant *)

LEMMA NoKillTyped == NoKill \in Kills /\ NoRow \in Rows /\ TimeoutRow \in Rows
BY DEF NoKill, Kills, NoRow, TimeoutRow, Rows

\* Before the panic there is nothing to account for.
LEMMA InitOK == Init => IInv
<1> SUFFICES ASSUME Init PROVE IInv
  OBVIOUS
<1>1. Shape
  BY NoKillTyped, OutputsCounted DEF Init, Shape
<1>2. ASSUME NEW id \in Ids
      PROVE  AccountOK(id, kill[id]) /\ BenchOK(id) /\ RowOK(id) /\ PhaseOK(id)
  <2>1. kill[id] = NoKill /\ row[id] = NoRow /\ on[id] = Outputs(id) /\ selected[id] = 1
    BY DEF Init
  <2>2. NoKill.at = "none" /\ NoKill.next = 1 /\ NoKill.touched = {}
    BY DEF NoKill
  <2> QED
    BY <2>1, <2>2, OutputsCounted DEF Init, AccountOK, BenchOK, RowOK, PhaseOK
<1> QED
  BY <1>1, <1>2 DEF IInv

\* The kills start with nothing touched; one that skips the tracking step is of
\* an instrument that has none.
LEMMA PanicOK == IInv /\ Panic => IInv'
<1> SUFFICES ASSUME IInv, Panic PROVE IInv'
  OBVIOUS
<1> DEFINE start(id) == [NoKill EXCEPT !.at = FirstStep(id)]
<1>1. ASSUME NEW id \in Ids
      PROVE  /\ start(id) \in Kills
             /\ start(id).at = FirstStep(id) /\ start(id).next = 1 /\ start(id).touched = {}
             /\ FirstStep(id) \in {"tracking", "channel", "list"}
  <2>1. FirstStep(id) \in {"tracking", "channel", "list"}
    BY DEF FirstStep
  <2>2. /\ NoKill \in Kills /\ NoKill.next = 1 /\ NoKill.touched = {}
        /\ NoKill.failed = FALSE /\ NoKill.linked = TRUE
    BY NoKillTyped DEF NoKill
  <2>3. start(id) = [at |-> FirstStep(id), next |-> NoKill.next, touched |-> NoKill.touched,
                     failed |-> NoKill.failed, linked |-> NoKill.linked]
    BY <2>2 DEF Kills
  <2> HIDE DEF start
  <2>4. start(id).at = FirstStep(id) /\ start(id).next = 1 /\ start(id).touched = {}
    BY <2>2, <2>3
  <2>5. start(id) \in Kills
    BY <2>1, <2>2, <2>3 DEF Kills
  <2> QED
    BY <2>1, <2>4, <2>5
<1> HIDE DEF start
<1>2. /\ state = "idle" /\ state' = "running"
      /\ skipped' = Ids \ (connected \cap Killable)
      /\ kill' = [id \in Ids |-> IF id \in connected \cap Killable THEN start(id) ELSE NoKill]
      /\ UNCHANGED <<bench, row, enabled>>
  BY DEF Panic, start
<1>3. Shape'
  BY <1>1, <1>2, NoKillTyped DEF IInv, Shape, bench
<1>4. ASSUME NEW id \in Ids
      PROVE  (AccountOK(id, kill[id]) /\ BenchOK(id) /\ RowOK(id) /\ PhaseOK(id))'
  <2>0. AccountOK(id, kill[id]) /\ BenchOK(id) /\ RowOK(id) /\ PhaseOK(id)
    BY DEF IInv
  <2>1. NoKill.at = "none" /\ NoKill.next = 1 /\ NoKill.touched = {}
    BY DEF NoKill
  <2>2. row[id] = NoRow /\ row'[id] = NoRow
    BY <1>2, <2>0 DEF RowOK, PhaseOK, Outcome
  <2>3. kill'[id].next = 1 /\ kill'[id].touched = {}
    BY <1>1, <1>2, <2>1
  <2>4. AccountOK(id, kill'[id])
    <3>1. kill'[id].at # "done"
      BY <1>1, <1>2, <2>1
    <3> QED
      BY <2>3, <3>1, OutputsCounted DEF AccountOK
  <2>5. BenchOK(id)'
    <3>1. ASSUME kill'[id].at \in {"list", "channel"}
          PROVE  id \notin coupled
      BY <1>1, <1>2, <2>1, <3>1, KindsDisjoint, SpecialPsus DEF FirstStep, IInv, Shape
    <3>2. kill'[id].at # "select" /\ kill'[id].at # "done"
      BY <1>1, <1>2, <2>1
    <3> QED
      BY <1>2, <2>0, <2>3, <3>1, <3>2 DEF BenchOK, bench, Outputs, Steady, Killable
  <2>6. PhaseOK(id)'
    BY <1>1, <1>2, <2>1 DEF PhaseOK
  <2> QED
    BY <2>2, <2>4, <2>5, <2>6 DEF RowOK, AccountOK, Outputs
<1> QED
  BY <1>3, <1>4 DEF IInv

LEMMA PanicEndsOK == IInv /\ PanicEnds => IInv'
<1> SUFFICES ASSUME IInv, PanicEnds PROVE IInv'
  OBVIOUS
<1>1. Shape'
  BY DEF IInv, Shape, PanicEnds, bench
<1>2. ASSUME NEW id \in Ids
      PROVE  (AccountOK(id, kill[id]) /\ BenchOK(id) /\ RowOK(id) /\ PhaseOK(id))'
  <2>0. AccountOK(id, kill[id]) /\ BenchOK(id) /\ RowOK(id) /\ PhaseOK(id)
    BY DEF IInv
  <2> QED
    BY <2>0 DEF PanicEnds, bench, Started, AccountOK, BenchOK, RowOK, PhaseOK, Outputs, Outcome
<1> QED
  BY <1>1, <1>2 DEF IInv

LEMMA TimerFiresOK ==
  ASSUME IInv, NEW id \in Killable, TimerFires(id)
  PROVE  IInv'
<1>1. /\ id \in Ids /\ kill[id].at # "none" /\ row[id] = NoRow
      /\ row' = [row EXCEPT ![id] = TimeoutRow]
      /\ UNCHANGED <<bench, state, skipped, kill, enabled>>
  BY DEF TimerFires, Started
<1>2. Shape'
  BY <1>1, NoKillTyped DEF IInv, Shape, bench
<1>3. ASSUME NEW o \in Ids
      PROVE  (AccountOK(o, kill[o]) /\ BenchOK(o) /\ RowOK(o) /\ PhaseOK(o))'
  <2>0. AccountOK(o, kill[o]) /\ BenchOK(o) /\ RowOK(o) /\ PhaseOK(o)
    BY DEF IInv
  <2>1. row'[o] = IF o = id THEN TimeoutRow ELSE row[o]
    BY <1>1 DEF IInv, Shape
  <2>2. TimeoutRow # NoRow
    BY DEF TimeoutRow, NoRow
  <2> QED
    BY <1>1, <2>0, <2>1, <2>2 DEF bench, AccountOK, BenchOK, RowOK, PhaseOK, Outputs, Outcome
<1> QED
  BY <1>2, <1>3 DEF IInv

\* What SettleOK asks of a step that leaves the bench as it is and touches
\* nothing new.
LEMMA QuietStepOK ==
  ASSUME IInv, NEW id \in Killable, NEW k \in Kills, Settle(id, k),
         kill[id].at \notin {"none", "done"}, k.at # "none",
         AccountOK(id, k), k.touched \subseteq kill[id].touched,
         k.at \in {"list", "select", "channel", "done"} /\ ~k.failed
           => \/ id \notin coupled
              \/ kill[id].at \in {"list", "select", "channel"} /\ ~kill[id].failed,
         UNCHANGED <<connected, on, coupled>>,
         selected' \in [Ids -> Nat], selected'[id] \in Outputs(id),
         \A o \in Ids \ {id} : selected'[o] = selected[o]
  PROVE  IInv'
<1>1. id \in Ids
  BY DEF Ids
<1>2. BenchOK(id)
  BY <1>1 DEF IInv
<1>3. on \in [Ids -> SUBSET Nat]
  BY DEF IInv, Shape
<1>4. id \in Steady =>
        /\ id \notin enabled => k.touched \cap on[id] = {}
        /\ k.at \in {"list", "select", "channel", "done"} /\ ~k.failed => id \notin coupled
  BY <1>2 DEF BenchOK
<1> QED
  BY <1>3, <1>4, SettleOK

LEMMA TrackingReadOK ==
  ASSUME IInv, NEW id \in Killable, TrackingRead(id)
  PROVE  IInv'
<1>1. /\ id \in Ids /\ kill[id] \in Kills /\ AccountOK(id, kill[id]) /\ BenchOK(id)
      /\ kill[id].at = "tracking" /\ selected \in [Ids -> Nat]
      /\ UNCHANGED <<connected, on, coupled, selected>>
  BY DEF IInv, Shape, Ids, TrackingRead, bench
<1>2. ASSUME NEW k \in Kills, Settle(id, k), k.at \in {"untrack", "list"},
             k.at = "list" /\ ~k.failed => id \notin coupled,
             k.next = kill[id].next, k.touched = kill[id].touched
      PROVE  IInv'
  <2>1. AccountOK(id, k)
    BY <1>1, <1>2 DEF AccountOK
  <2> QED
    BY <1>1, <1>2, <2>1, QuietStepOK DEF BenchOK
<1>3. CASE Settle(id, [kill[id] EXCEPT !.at = IF id \in coupled THEN "untrack" ELSE "list"])
  <2> DEFINE k == [kill[id] EXCEPT !.at = IF id \in coupled THEN "untrack" ELSE "list"]
  <2>1. /\ k \in Kills /\ k.next = kill[id].next /\ k.touched = kill[id].touched
        /\ k.at = IF id \in coupled THEN "untrack" ELSE "list"
    BY <1>1 DEF Kills
  <2>2. k.at \in {"untrack", "list"} /\ (k.at = "list" => id \notin coupled)
    BY <2>1
  <2> HIDE DEF k
  <2> QED
    BY <1>2, <1>3, <2>1, <2>2 DEF k
<1>4. CASE Settle(id, [kill[id] EXCEPT !.at = "list", !.failed = TRUE])
  <2> DEFINE k == [kill[id] EXCEPT !.at = "list", !.failed = TRUE]
  <2>1. /\ k \in Kills /\ k.next = kill[id].next /\ k.touched = kill[id].touched
        /\ k.at = "list" /\ k.failed = TRUE
    BY <1>1 DEF Kills
  <2> HIDE DEF k
  <2> QED
    BY <1>2, <1>4, <2>1 DEF k
<1> QED
  BY <1>3, <1>4 DEF TrackingRead

LEMMA TrackingClearedOK ==
  ASSUME IInv, NEW id \in Killable, TrackingCleared(id)
  PROVE  IInv'
<1>1. /\ id \in Ids /\ kill[id] \in Kills /\ AccountOK(id, kill[id]) /\ BenchOK(id)
      /\ kill[id].at = "untrack" /\ selected \in [Ids -> Nat] /\ on \in [Ids -> SUBSET Nat]
      /\ UNCHANGED <<connected, on, selected>>
  BY DEF IInv, Shape, Ids, TrackingCleared
<1>2. ASSUME NEW k \in Kills, Settle(id, k), k.at = "list",
             coupled' \subseteq coupled,
             id \in Steady /\ ~k.failed => id \notin coupled',
             k.next = kill[id].next, k.touched = kill[id].touched
      PROVE  IInv'
  <2>1. AccountOK(id, k)
    BY <1>1, <1>2 DEF AccountOK
  <2>2. id \in Steady => k.touched \cap on'[id] = {}
    BY <1>1, <1>2 DEF AccountOK
  <2> QED
    BY <1>1, <1>2, <2>1, <2>2, SettleOK DEF BenchOK
<1>3. CASE /\ \/ coupled' = coupled \ {id}
              \/ id \in Deaf /\ UNCHANGED coupled
           /\ Settle(id, [kill[id] EXCEPT !.at = "list"])
  <2> DEFINE k == [kill[id] EXCEPT !.at = "list"]
  <2>1. k \in Kills /\ k.next = kill[id].next /\ k.touched = kill[id].touched /\ k.at = "list"
    BY <1>1 DEF Kills
  <2>2. coupled' \subseteq coupled /\ (id \in Steady => id \notin coupled')
    BY <1>3 DEF Steady
  <2> HIDE DEF k
  <2> QED
    BY <1>2, <1>3, <2>1, <2>2 DEF k
<1>4. CASE UNCHANGED coupled /\ Settle(id, [kill[id] EXCEPT !.at = "list", !.failed = TRUE])
  <2> DEFINE k == [kill[id] EXCEPT !.at = "list", !.failed = TRUE]
  <2>1. /\ k \in Kills /\ k.next = kill[id].next /\ k.touched = kill[id].touched
        /\ k.at = "list" /\ k.failed = TRUE
    BY <1>1 DEF Kills
  <2> HIDE DEF k
  <2> QED
    BY <1>2, <1>4, <2>1 DEF k
<1> QED
  BY <1>3, <1>4 DEF TrackingCleared

LEMMA ChannelsListedOK ==
  ASSUME IInv, NEW id \in Killable, ChannelsListed(id)
  PROVE  IInv'
<1>1. /\ id \in Ids /\ kill[id] \in Kills /\ AccountOK(id, kill[id]) /\ BenchOK(id)
      /\ kill[id].at = "list" /\ selected \in [Ids -> Nat]
      /\ UNCHANGED <<connected, on, coupled, selected>>
  BY DEF IInv, Shape, Ids, ChannelsListed, bench
<1>2. ASSUME NEW k \in Kills, Settle(id, k),
             \/ k.at \in {"select", "channel"} /\ k.failed = kill[id].failed
             \/ k.at = "done" /\ k.failed,
             k.next = kill[id].next, k.touched = kill[id].touched
      PROVE  IInv'
  <2>1. k.next = 1 /\ k.touched = {} /\ 1..(1 - 1) = {}
    BY <1>1, <1>2 DEF AccountOK
  <2>2. AccountOK(id, k)
    BY <1>2, <2>1, OutputsCounted, <1>1 DEF AccountOK
  <2> QED
    BY <1>1, <1>2, <2>2, QuietStepOK DEF BenchOK
<1>3. CASE Settle(id, [kill[id] EXCEPT !.at = NextChannel(id)])
  <2> DEFINE k == [kill[id] EXCEPT !.at = NextChannel(id)]
  <2>1. NextChannel(id) \in {"select", "channel"}
    BY DEF NextChannel
  <2>2. /\ k \in Kills /\ k.next = kill[id].next /\ k.touched = kill[id].touched
        /\ k.at \in {"select", "channel"} /\ k.failed = kill[id].failed
    BY <1>1, <2>1 DEF Kills
  <2> HIDE DEF k
  <2> QED
    BY <1>2, <1>3, <2>2 DEF k
<1>4. CASE Settle(id, [kill[id] EXCEPT !.at = "done", !.failed = TRUE])
  <2> DEFINE k == [kill[id] EXCEPT !.at = "done", !.failed = TRUE]
  <2>1. /\ k \in Kills /\ k.next = kill[id].next /\ k.touched = kill[id].touched
        /\ k.at = "done" /\ k.failed = TRUE
    BY <1>1 DEF Kills
  <2> HIDE DEF k
  <2> QED
    BY <1>2, <1>4, <2>1 DEF k
<1> QED
  BY <1>3, <1>4 DEF ChannelsListed

\* Selecting diverts only instruments that select.
LEMMA ChannelSelectedOK ==
  ASSUME IInv, NEW id \in Killable, ChannelSelected(id)
  PROVE  IInv'
<1>1. /\ id \in Ids /\ kill[id] \in Kills /\ AccountOK(id, kill[id]) /\ BenchOK(id)
      /\ kill[id].at = "select" /\ selected \in [Ids -> Nat]
      /\ UNCHANGED <<connected, on, coupled>>
  BY DEF IInv, Shape, Ids, ChannelSelected
<1>2. CASE /\ selected' = [selected EXCEPT ![id] = kill[id].next]
           /\ Settle(id, [kill[id] EXCEPT !.at = "channel"])
  <2> DEFINE k == [kill[id] EXCEPT !.at = "channel"]
  <2>1. /\ k \in Kills /\ k.next = kill[id].next /\ k.touched = kill[id].touched
        /\ k.at = "channel" /\ k.failed = kill[id].failed
    BY <1>1 DEF Kills
  <2> HIDE DEF k
  <2>2. AccountOK(id, k)
    BY <1>1, <2>1 DEF AccountOK
  <2>3. /\ selected' \in [Ids -> Nat] /\ selected'[id] \in Outputs(id)
        /\ \A o \in Ids \ {id} : selected'[o] = selected[o]
    BY <1>1, <1>2 DEF AccountOK, Kills
  <2>4. Settle(id, k)
    BY <1>2 DEF k
  <2> QED
    BY <1>1, <2>1, <2>2, <2>3, <2>4, QuietStepOK
<1>3. CASE /\ UNCHANGED selected
           /\ Settle(id, AfterChannel(id, [kill[id] EXCEPT !.failed = TRUE]))
  <2> DEFINE f == [kill[id] EXCEPT !.failed = TRUE]
             k == AfterChannel(id, f)
  <2>1. f \in Kills /\ f.next = kill[id].next /\ f.touched = kill[id].touched /\ f.failed = TRUE
    BY <1>1 DEF Kills
  <2>2. f.next \in Outputs(id) /\ f.touched \subseteq Outputs(id)
    BY <1>1, <2>1 DEF AccountOK
  <2>3. Settle(id, k)
    BY <1>3
  <2> HIDE DEF f
  <2>4. /\ k \in Kills /\ AccountOK(id, k) /\ k.at \in {"select", "channel", "done"}
        /\ k.touched = f.touched /\ k.failed = f.failed
    BY <1>1, <2>1, <2>2, AfterChannelOK
  <2> HIDE DEF k
  <2> QED
    BY <1>1, <1>3, <2>1, <2>3, <2>4, QuietStepOK DEF BenchOK
<1> QED
  BY <1>2, <1>3 DEF ChannelSelected

\* A command that got through touches the next channel and, on a steady
\* instrument, switches that one off.
LEMMA ChannelOffOK ==
  ASSUME IInv, NEW id \in Killable, ChannelOff(id)
  PROVE  IInv'
<1>1. /\ id \in Ids /\ kill[id] \in Kills /\ AccountOK(id, kill[id]) /\ BenchOK(id)
      /\ kill[id].at = "channel" /\ selected \in [Ids -> Nat] /\ on \in [Ids -> SUBSET Nat]
      /\ UNCHANGED <<connected, coupled, selected>>
  BY DEF IInv, Shape, Ids, ChannelOff
<1>2. CASE /\ \/ on' = [on EXCEPT ![id] = @ \ {Target(id)}]
              \/ id \in Deaf /\ UNCHANGED on
           /\ Settle(id, AfterChannel(id, [kill[id] EXCEPT !.touched = @ \cup {kill[id].next}]))
  <2> DEFINE f == [kill[id] EXCEPT !.touched = @ \cup {kill[id].next}]
             k == AfterChannel(id, f)
  <2>1. /\ f \in Kills /\ f.next = kill[id].next /\ f.failed = kill[id].failed
        /\ f.touched = kill[id].touched \cup {kill[id].next}
    BY <1>1 DEF Kills
  <2>2. f.next \in Outputs(id) /\ f.touched \subseteq Outputs(id)
    BY <1>1, <2>1 DEF AccountOK
  <2>3. Settle(id, k)
    BY <1>2
  <2> HIDE DEF f
  <2>4. ~f.failed => f.touched = 1..f.next
    <3>1. kill[id].next \in Nat \ {0}
      BY <1>1, OutputsCounted DEF AccountOK
    <3>2. ~f.failed => kill[id].touched = 1..(kill[id].next - 1)
      BY <1>1, <2>1 DEF AccountOK
    <3>3. (1..(kill[id].next - 1)) \cup {kill[id].next} = 1..kill[id].next
      BY <3>1
    <3> QED
      BY <2>1, <3>2, <3>3
  <2>5. /\ k \in Kills /\ AccountOK(id, k) /\ k.at \in {"select", "channel", "done"}
        /\ k.touched = f.touched /\ k.failed = f.failed
    BY <1>1, <2>1, <2>2, <2>4, AfterChannelOK
  <2> HIDE DEF k
  <2>6. /\ on' \in [Ids -> SUBSET Nat] /\ on'[id] \subseteq on[id]
        /\ \A o \in Ids \ {id} : on'[o] = on[o]
    BY <1>1, <1>2
  <2>7. id \in Steady => on'[id] = on[id] \ {kill[id].next}
    BY <1>1, <1>2 DEF Steady, Target
  <2>8. id \in Steady =>
          /\ id \notin enabled => k.touched \cap on'[id] = {}
          /\ k.at \in {"list", "select", "channel", "done"} /\ ~k.failed => id \notin coupled'
    BY <1>1, <2>1, <2>5, <2>7 DEF BenchOK
  <2>9. selected'[id] \in Outputs(id) /\ coupled' \subseteq coupled /\ k.at # "none"
        /\ \A o \in Ids \ {id} : on'[o] = on[o] /\ selected'[o] = selected[o]
    BY <1>1, <2>5, <2>6 DEF BenchOK
  <2> QED
    BY <1>1, <2>3, <2>5, <2>6, <2>8, <2>9, SettleOK
<1>3. CASE UNCHANGED on /\ Settle(id, AfterChannel(id, [kill[id] EXCEPT !.failed = TRUE]))
  <2> DEFINE f == [kill[id] EXCEPT !.failed = TRUE]
             k == AfterChannel(id, f)
  <2>1. f \in Kills /\ f.next = kill[id].next /\ f.touched = kill[id].touched /\ f.failed = TRUE
    BY <1>1 DEF Kills
  <2>2. f.next \in Outputs(id) /\ f.touched \subseteq Outputs(id)
    BY <1>1, <2>1 DEF AccountOK
  <2>3. Settle(id, k)
    BY <1>3
  <2> HIDE DEF f
  <2>4. /\ k \in Kills /\ AccountOK(id, k) /\ k.at \in {"select", "channel", "done"}
        /\ k.touched = f.touched /\ k.failed = f.failed
    BY <1>1, <2>1, <2>2, AfterChannelOK
  <2> HIDE DEF k
  <2> QED
    BY <1>1, <1>3, <2>1, <2>3, <2>4, QuietStepOK DEF BenchOK
<1> QED
  BY <1>2, <1>3 DEF ChannelOff

\* Dropping cuts a kill off and changes nothing it says.
LEMMA DropOK ==
  ASSUME IInv, NEW id \in Ids, Drop(id)
  PROVE  IInv'
<1>1. /\ connected' \subseteq connected
      /\ kill' = [kill EXCEPT ![id].linked = (@ /\ kill[id].at \in {"none", "done"})]
      /\ kill \in [Ids -> Kills]
      /\ UNCHANGED <<on, coupled, selected, state, skipped, row, enabled>>
  BY DEF Drop, IInv, Shape
<1>2. ASSUME NEW o \in Ids
      PROVE  /\ kill'[o] \in Kills /\ kill'[o].at = kill[o].at /\ kill'[o].next = kill[o].next
             /\ kill'[o].touched = kill[o].touched /\ kill'[o].failed = kill[o].failed
  <2>1. CASE o # id
    BY <1>1, <2>1
  <2>2. CASE o = id
    <3>1. kill[id].linked \in BOOLEAN
      BY <1>1 DEF Kills
    <3>2. kill'[id] = [kill[id] EXCEPT !.linked = (@ /\ kill[id].at \in {"none", "done"})]
      BY <1>1
    <3> QED
      BY <1>1, <2>2, <3>1, <3>2 DEF Kills
  <2> QED
    BY <2>1, <2>2
<1>3. kill' \in [Ids -> Kills]
  BY <1>1, <1>2
<1>4. Shape'
  BY <1>1, <1>3 DEF IInv, Shape
<1>5. ASSUME NEW o \in Ids
      PROVE  (AccountOK(o, kill[o]) /\ BenchOK(o) /\ RowOK(o) /\ PhaseOK(o))'
  <2>0. AccountOK(o, kill[o]) /\ BenchOK(o) /\ RowOK(o) /\ PhaseOK(o)
    BY DEF IInv
  <2>1. Outcome(kill'[o]) = Outcome(kill[o])
    BY <1>2 DEF Outcome
  <2>2. RowOK(o)'
    BY <1>1, <1>2, <2>0, <2>1 DEF RowOK
  <2>3. BenchOK(o)' /\ PhaseOK(o)'
    BY <1>1, <1>2, <2>0 DEF BenchOK, PhaseOK, Outputs, Steady
  <2>4. AccountOK(o, kill'[o])
    BY <1>2, <2>0 DEF AccountOK
  <2> QED
    BY <2>2, <2>3, <2>4 DEF AccountOK, Outputs
<1> QED
  BY <1>4, <1>5 DEF IInv

\* Nobody but Enable switches an output on, and it says so.
LEMMA OthersOK ==
  ASSUME IInv,
         \/ \E id \in Ids : Reconnect(id)
         \/ \E id \in Killable, ch \in 1..Channels : Enable(id, ch) \/ OtherSelects(id, ch)
  PROVE  IInv'
<1>1. UNCHANGED <<coupled, state, skipped, kill, row>>
  BY DEF Reconnect, Enable, OtherSelects
<1> DEFINE Harmless ==
      /\ connected' \subseteq Ids /\ on' \in [Ids -> SUBSET Nat] /\ selected' \in [Ids -> Nat]
      /\ enabled \subseteq enabled' /\ enabled' \subseteq Killable
      /\ state = "idle" => enabled' = enabled
      /\ \A o \in Ids : /\ on'[o] \subseteq Outputs(o) /\ selected'[o] \in Outputs(o)
                        /\ on'[o] = on[o] \/ o \in enabled' \/ state = "idle"
<1>2. Harmless
  <2>1. /\ \A o \in Ids : on[o] \subseteq Outputs(o) /\ selected[o] \in Outputs(o)
        /\ connected \subseteq Ids /\ on \in [Ids -> SUBSET Nat] /\ selected \in [Ids -> Nat]
        /\ enabled \subseteq Killable
    BY DEF IInv, BenchOK, Shape
  <2>2. CASE \E id \in Ids : Reconnect(id)
    BY <2>1, <2>2 DEF Reconnect
  <2>3. ASSUME NEW id \in Killable, NEW ch \in 1..Channels, Enable(id, ch)
        PROVE  Harmless
    BY <2>1, <2>3 DEF Enable, Ids
  <2>4. ASSUME NEW id \in Killable, NEW ch \in 1..Channels, OtherSelects(id, ch)
        PROVE  Harmless
    BY <2>1, <2>4 DEF OtherSelects, Ids
  <2> HIDE DEF Harmless
  <2> QED
    BY <2>2, <2>3, <2>4
<1>3. Shape'
  BY <1>1, <1>2 DEF IInv, Shape
<1>4. ASSUME NEW o \in Ids
      PROVE  (AccountOK(o, kill[o]) /\ BenchOK(o) /\ RowOK(o) /\ PhaseOK(o))'
  <2>0. AccountOK(o, kill[o]) /\ BenchOK(o) /\ RowOK(o) /\ PhaseOK(o)
    BY DEF IInv
  <2>1. state = "idle" => kill[o].touched = {}
    BY <2>0 DEF PhaseOK, AccountOK
  <2>2. BenchOK(o)'
    BY <1>1, <1>2, <2>0, <2>1 DEF BenchOK, Outputs, Steady, Killable
  <2>3. PhaseOK(o)' /\ RowOK(o)' /\ AccountOK(o, kill[o])'
    BY <1>1, <1>2, <2>0 DEF PhaseOK, RowOK, AccountOK, Outputs
  <2> QED
    BY <2>2, <2>3
<1> QED
  BY <1>3, <1>4 DEF IInv

LEMMA NextOK == IInv /\ [Next]_vars => IInv'
<1> SUFFICES ASSUME IInv, [Next]_vars PROVE IInv'
  OBVIOUS
<1>1. CASE Panic
  BY <1>1, PanicOK
<1>2. CASE PanicEnds
  BY <1>2, PanicEndsOK
<1>3. ASSUME NEW id \in Killable, TimerFires(id) PROVE IInv'
  BY <1>3, TimerFiresOK
<1>4. ASSUME NEW id \in Killable, KillStep(id) PROVE IInv'
  BY <1>4, TrackingReadOK, TrackingClearedOK, ChannelsListedOK, ChannelSelectedOK, ChannelOffOK
     DEF KillStep
<1>5. ASSUME NEW id \in Ids, Drop(id) PROVE IInv'
  BY <1>5, DropOK
<1>6. ASSUME \/ \E id \in Ids : Reconnect(id)
             \/ \E id \in Killable, ch \in 1..Channels : Enable(id, ch) \/ OtherSelects(id, ch)
      PROVE  IInv'
  BY <1>6, OthersOK
<1>7. CASE UNCHANGED vars
  <2>1. Shape'
    BY <1>7 DEF vars, bench, IInv, Shape
  <2>2. ASSUME NEW o \in Ids
        PROVE  (AccountOK(o, kill[o]) /\ BenchOK(o) /\ RowOK(o) /\ PhaseOK(o))'
    BY <1>7 DEF vars, bench, IInv, AccountOK, BenchOK, RowOK, PhaseOK, Outputs, Outcome
  <2> QED
    BY <2>1, <2>2 DEF IInv
<1> QED
  BY <1>1, <1>2, <1>3, <1>4, <1>5, <1>6, <1>7 DEF Next

LEMMA IInvHolds == Spec => []IInv
BY InitOK, NextOK, PTL DEF Spec

-----------------------------------------------------------------------------
(* What the operator may rely on *)

\* Positions, rows and outputs keep their types (TypeOK).
THEOREM TypeCorrect == Spec => []TypeOK
<1>1. IInv => TypeOK
  <2> SUFFICES ASSUME IInv PROVE TypeOK
    OBVIOUS
  <2>1. ASSUME NEW id \in Ids
        PROVE  /\ kill[id] \in Kills /\ row[id] \in Rows
               /\ on[id] \subseteq Outputs(id) /\ selected[id] \in Outputs(id)
               /\ kill[id].next \in Outputs(id) /\ kill[id].touched \subseteq Outputs(id)
               /\ row[id].touched \subseteq Outputs(id)
    <3>1. /\ kill[id] \in Kills /\ row[id] \in Rows
          /\ AccountOK(id, kill[id]) /\ BenchOK(id) /\ RowOK(id)
      BY DEF IInv, Shape
    <3>2. row[id].touched = {} \/ row[id].touched = kill[id].touched
      BY <3>1 DEF RowOK, NoRow, TimeoutRow, Outcome
    <3> QED
      BY <3>1, <3>2 DEF AccountOK, BenchOK
  <2> QED
    BY <2>1 DEF TypeOK, IInv, Shape, Kills, Rows
<1> QED
  BY <1>1, IInvHolds, PTL

\* A row "ok" of an instrument that obeys and selects nothing means off
\* (runPsuDisableAll, runEloadDisableAll, runSgDisableAll).
THEOREM OkIsTrue == Spec => []OkMeansOff
<1>1. IInv => OkMeansOff
  <2> SUFFICES ASSUME IInv, NEW id \in Steady, row[id].kind = "ok"
               PROVE  (id \notin enabled => on[id] = {}) /\ id \notin coupled
    BY DEF OkMeansOff
  <2>1. id \in Ids
    BY DEF Steady, Ids
  <2>2. AccountOK(id, kill[id]) /\ BenchOK(id) /\ RowOK(id)
    BY <2>1 DEF IInv
  <2>3. row[id] = Outcome(kill[id]) /\ kill[id].at = "done"
    BY <2>2 DEF RowOK, NoRow, TimeoutRow
  <2>4. ~kill[id].failed
    BY <2>3 DEF Outcome
  <2>5. kill[id].touched = Outputs(id)
    BY <2>2, <2>3, <2>4 DEF AccountOK
  <2> QED
    BY <2>2, <2>3, <2>4, <2>5 DEF BenchOK
<1> QED
  BY <1>1, IInvHolds, PTL

\* No row claims an output that is on, and none that leaves one out says "ok".
THEOREM RowsTellTheTruth == Spec => []RowsAreHonest
<1>1. IInv => RowsAreHonest
  <2> SUFFICES ASSUME IInv, NEW id \in Started, row[id] # NoRow
               PROVE  /\ id \in Steady \ enabled => row[id].touched \cap on[id] = {}
                      /\ row[id].touched # Outputs(id) => row[id].kind \in {"partial", "error"}
    BY DEF RowsAreHonest
  <2>1. id \in Ids /\ AccountOK(id, kill[id]) /\ BenchOK(id) /\ RowOK(id)
    BY DEF Started, IInv
  <2>2. CASE row[id] = TimeoutRow
    BY <2>2 DEF TimeoutRow
  <2>3. CASE row[id] = Outcome(kill[id]) /\ kill[id].at = "done"
    <3>1. row[id].touched = kill[id].touched
      BY <2>3 DEF Outcome
    <3>2. kill[id].failed => row[id].kind \in {"partial", "error"}
      BY <2>3 DEF Outcome
    <3> QED
      BY <2>1, <2>3, <3>1, <3>2 DEF AccountOK, BenchOK
  <2> QED
    BY <2>1, <2>2, <2>3 DEF RowOK
<1> QED
  BY <1>1, IInvHolds, PTL

\* panic() accounts for every session exactly once.
THEOREM EverySessionAccounted == Spec => []ResultIsComplete
<1>1. IInv => ResultIsComplete
  <2> SUFFICES ASSUME IInv, state = "done", NEW id \in Ids
               PROVE  (id \in skipped) # (row[id] # NoRow)
    BY DEF ResultIsComplete
  <2>1. RowOK(id) /\ PhaseOK(id)
    BY DEF IInv
  <2>2. id \in skipped <=> kill[id].at = "none"
    BY <2>1 DEF PhaseOK
  <2>3. row[id] # NoRow <=> kill[id].at # "none"
    BY <2>1 DEF PhaseOK, RowOK
  <2> QED
    BY <2>2, <2>3
<1> QED
  BY <1>1, IInvHolds, PTL

\* An answer that comes after the timer changes no row (withTimeout).
THEOREM RowsStay == Spec => RowsAreFinal
<1>1. IInv /\ [Next]_vars => [\A id \in Ids : row[id] # NoRow => row'[id] = row[id]]_vars
  <2> SUFFICES ASSUME IInv, Next, NEW o \in Ids, row[o] # NoRow
               PROVE  row'[o] = row[o]
    BY Zenon
  <2>1. row \in [Ids -> Rows]
    BY DEF IInv, Shape
  <2>2. ASSUME NEW id \in Killable, NEW k, Settle(id, k) PROVE row'[o] = row[o]
    BY <2>1, <2>2 DEF Settle, Ids
  <2>3. ASSUME NEW id \in Killable, KillStep(id) PROVE row'[o] = row[o]
    BY <2>2, <2>3, Zenon DEF KillStep, TrackingRead, TrackingCleared, ChannelsListed,
       ChannelSelected, ChannelOff
  <2>4. ASSUME NEW id \in Killable, TimerFires(id) PROVE row'[o] = row[o]
    BY <2>1, <2>4 DEF TimerFires, Started
  <2>5. CASE \/ Panic \/ PanicEnds
             \/ \E id \in Ids : Drop(id) \/ Reconnect(id)
             \/ \E id \in Killable, ch \in 1..Channels : Enable(id, ch) \/ OtherSelects(id, ch)
    BY <2>5 DEF Panic, PanicEnds, Drop, Reconnect, Enable, OtherSelects
  <2> QED
    BY <2>3, <2>4, <2>5 DEF Next
<1> QED
  BY <1>1, IInvHolds, PTL DEF Spec, RowsAreFinal
=============================================================================
