----------------------------- MODULE SerialPort -----------------------------
(***************************************************************************)
(* What ScpiSession promises its callers, with the wire left out: requests *)
(* are accepted in some order, wait in one line, and are settled from the  *)
(* head of that line, each at most once; when the port is shut everything  *)
(* still waiting is refused.  ScpiSession.tla implements this module.      *)
(***************************************************************************)
EXTENDS Naturals, Sequences

CONSTANT Jobs

VARIABLES
  waiting,   \* the accepted requests that are not settled, oldest first
  outcome,   \* what each caller's promise says
  open       \* the port still takes requests

vars == <<waiting, outcome, open>>

Outcomes == {"none", "pending", "ok", "failed"}

Init ==
  /\ waiting = <<>>
  /\ outcome = [j \in Jobs |-> "none"]
  /\ open = TRUE

Submit(j) ==
  /\ open
  /\ outcome[j] = "none"
  /\ waiting' = Append(waiting, j)
  /\ outcome' = [outcome EXCEPT ![j] = "pending"]
  /\ UNCHANGED open

Refuse(j) ==
  /\ ~open
  /\ outcome[j] = "none"
  /\ outcome' = [outcome EXCEPT ![j] = "failed"]
  /\ UNCHANGED <<waiting, open>>

SettleHead(result) ==
  /\ open
  /\ waiting # <<>>
  /\ outcome' = [outcome EXCEPT ![Head(waiting)] = result]
  /\ waiting' = Tail(waiting)
  /\ UNCHANGED open

Shut ==
  /\ open
  /\ open' = FALSE
  /\ waiting' = <<>>
  /\ outcome' = [j \in Jobs |-> IF outcome[j] = "pending" THEN "failed" ELSE outcome[j]]

Next ==
  \/ \E j \in Jobs : Submit(j) \/ Refuse(j)
  \/ \E result \in {"ok", "failed"} : SettleHead(result)
  \/ Shut

Spec == Init /\ [][Next]_vars

TypeOK ==
  /\ waiting \in Seq(Jobs)
  /\ outcome \in [Jobs -> Outcomes]
  /\ open \in BOOLEAN

\* Every pending caller stands in the line exactly once, and nobody else does.
EachWaitsOnce ==
  /\ \A i, k \in DOMAIN waiting : i # k => waiting[i] # waiting[k]
  /\ \A j \in Jobs : outcome[j] = "pending" <=> \E i \in DOMAIN waiting : waiting[i] = j
=============================================================================
