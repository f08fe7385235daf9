------------------------------- MODULE Calls -------------------------------
(***************************************************************************)
(* Calls on one driver object by requests, polling loops and panels that   *)
(* know nothing of each other.  There is no lock: every await of a method  *)
(* lets another call put its next line into the port's queue.  The port    *)
(* keeps its promise (module SerialPort): lines are answered one by one,   *)
(* in the order in which they were queued.                                 *)
(*                                                                         *)
(* Values are the names of the callers that wrote them, or Nobody: what    *)
(* was there before.  A selector therefore holds the caller whose channel  *)
(* is selected.                                                            *)
(***************************************************************************)
EXTENDS Scripts, FiniteSetsExt

CONSTANTS
  Callers,        \* who calls
  Nobody,         \* not a caller: the value of what no call has set
  Plans,          \* the scripts that the callers follow, one function for each case
  MaxTimeouts     \* bound: queries that the instrument leaves unanswered

VARIABLES
  plan,      \* the script of each caller
  at,        \* the step whose lines are with the port; past the end when done
  line,      \* the port's queue: whose line, of which step, about which register
  reg,       \* the instrument's settings
  field,     \* the driver's private fields
  status,    \* how each call stands
  seen,      \* what each call has read
  reached,   \* history: the selections through which a call has had effects
  met,       \* history: the callers that were at work while a call was
  lost,      \* the connection is gone
  timeouts

vars == <<plan, at, line, reg, field, status, seen, reached, met, lost, timeouts>>
----------------------------------------------------------------------------
Registers(p) == UNION {Sets(p[c]) \union Reads(p[c]) \union Selectors(p[c]) : c \in Callers}

Fields(p) == UNION {Assigns(p[c]) : c \in Callers}

Values == Callers \union {Nobody}

Length(c) == Len(plan[c].steps)

StepOf(c, i) == plan[c].steps[i]

\* Mutant: a query that has failed teaches the default.
AssignedDefault(c, i, s) ==
  LET step == StepOf(c, i)
  IN  CASE step.do = "keep" -> c
        [] step.do = "learn" -> IF step.on[2] \in DOMAIN s THEN s[step.on[2]] ELSE Nobody
        [] step.do = "forget" -> Nobody

\* The field after step i of call c, which has read s; a query that has failed teaches
\* nothing.
Assigned(c, i, s) ==
  LET step == StepOf(c, i)
  IN  CASE step.do = "keep" -> c
        [] step.do = "learn" -> IF step.on[2] \in DOMAIN s THEN s[step.on[2]] ELSE field[step.on[1]]
        [] step.do = "forget" -> Nobody

\* The fields after the assignments among the steps from i up to j.
Kept(c, i, j, s) ==
  [f \in DOMAIN field |->
    LET mine == {k \in i..(j - 1) : StepOf(c, k).do \in {"keep", "learn", "forget"} /\ StepOf(c, k).on[1] = f}
    IN  IF mine = {} THEN field[f] ELSE Assigned(c, Max(mine), s)]

\* Mutant: any selection that the driver remembers will do.
GoesOutOnce(c, j) ==
  /\ StepOf(c, j).do \in {"put", "putback", "get"}
  /\ StepOf(c, j).unless \in DOMAIN field => field[StepOf(c, j).unless] = Nobody

\* Whether step j goes to the port.  A selection that the driver believes to be in
\* place is left out.
GoesOut(c, j) ==
  /\ StepOf(c, j).do \in {"put", "putback", "get"}
  /\ StepOf(c, j).unless \in DOMAIN field => field[StepOf(c, j).unless] # c

\* The next step from i on that goes to the port.
NextStop(c, i) ==
  LET stops == {j \in i..Length(c) : GoesOut(c, j)}
  IN  IF stops = {} THEN Length(c) + 1 ELSE Min(stops)

\* The lines of a step: a command is one line, queries are a line each.
Lines(c, i) ==
  [n \in IF StepOf(c, i).do = "get" THEN DOMAIN StepOf(c, i).on ELSE {1} |->
    [by |-> c, step |-> i, pos |-> n]]

\* Mutant: a call that has begun goes before the others.
ContinueFirst(c, i, q, s) ==
  LET j == NextStop(c, i)
  IN  /\ at' = [at EXCEPT ![c] = j]
      /\ field' = Kept(c, i, j, s)
      /\ line' = IF j > Length(c) THEN q ELSE Lines(c, j) \o q
      /\ status' = [status EXCEPT ![c] = IF j > Length(c) THEN plan[c].end ELSE "running"]

\* What call c does in one turn, from its step i to its next line or its end, when
\* the queue is q and it has read s.
Continue(c, i, q, s) ==
  LET j == NextStop(c, i)
  IN  /\ at' = [at EXCEPT ![c] = j]
      /\ field' = Kept(c, i, j, s)
      /\ line' = IF j > Length(c) THEN q ELSE q \o Lines(c, j)
      /\ status' = [status EXCEPT ![c] = IF j > Length(c) THEN plan[c].end ELSE "running"]

\* A call whose step has failed: it throws, or answers a default where a try is
\* around the whole; what it has queued stays queued.
Abandon(c, q) ==
  /\ at' = [at EXCEPT ![c] = Length(c) + 1]
  /\ status' = [status EXCEPT ![c] = IF StepOf(c, at[c]).rescued THEN "ok" ELSE "failed"]
  /\ line' = q
  /\ UNCHANGED field

\* Plans are scripts: steps in a row, and a batch of queries asks something, whatever
\* the driver remembers.
PlansAreScripts ==
  \A p \in Plans : \A c \in Callers :
    /\ p[c].end \in {"ok", "refused"}
    /\ p[c].steps \in Seq(Range(p[c].steps))
    /\ \A i \in DOMAIN p[c].steps : p[c].steps[i].do = "get" =>
         /\ p[c].steps[i].on \in Seq(Range(p[c].steps[i].on)) \ {<<>>}
         /\ p[c].steps[i].unless \notin Fields(p)

AtPort == {"put", "putback", "get"}

Assigning == {"keep", "learn", "forget"}

\* Steps k and i of a script are of one turn, and k is the one that was awaited.
InTurnOf(steps, k, i) == k < i /\ \A j \in (k + 1)..(i - 1) : steps[j].do \notin AtPort

\* A selection that may be left out is the first step and is remembered at once; what
\* goes through a register that the script sets comes after that, and nothing puts the
\* register back.
SelectsFirst(p) ==
  \A c \in Callers : LET s == p[c].steps IN
    /\ "none" \notin Fields(p)
    /\ \A i \in DOMAIN s : s[i].unless # "none" =>
         /\ i = 1 /\ s[1].do = "put" /\ 2 \in DOMAIN s
         /\ s[2].do = "keep" /\ s[2].mirror
         /\ s[2].on[1] = s[1].unless /\ s[1].on = <<s[2].on[2]>>
    /\ \A i \in DOMAIN s : s[i].do \in AtPort => \A r \in s[i].via \intersect Sets(p[c]) :
         /\ \E k \in 1..(i - 1) : s[k].do = "put" /\ r \in Range(s[k].on)
         /\ \A j \in DOMAIN s : s[j].do = "putback" => r \notin Range(s[j].on)

\* A field that stands for a register is assigned in the turn in which the register was
\* set or asked for, and only then; whoever sets a register that a field of its stands
\* for assigns the field, and so does whoever sets one that another call remembers.
MirrorsAtOnce(p) ==
  \A c, d \in Callers : LET s == p[c].steps IN
    /\ \A i \in DOMAIN s : s[i].do \in {"keep", "learn"} /\ s[i].mirror =>
         \E k \in 1..(i - 1) :
           /\ s[k].do = (IF s[i].do = "keep" THEN "put" ELSE "get") /\ s[k].on = <<s[i].on[2]>>
           /\ InTurnOf(s, k, i)
           /\ s[i].do = "learn" =>
                \A j \in 1..(k - 1) : s[j].do = "get" => s[i].on[2] \notin Range(s[j].on)
    /\ \A m \in Mirrors(p[d]), i \in DOMAIN s :
         /\ s[i].do \in Assigning /\ s[i].on[1] = m[1] => s[i].do # "forget" /\ s[i].mirror /\ s[i].on[2] = m[2]
         /\ s[i].do = "putback" => m[2] \notin Range(s[i].on)
    /\ \A m \in Mirrors(p[c]), k \in DOMAIN s : s[k].do = "put" /\ m[2] \in Range(s[k].on) =>
         \E i \in DOMAIN s : InTurnOf(s, k, i) /\ s[i].do = "keep" /\ s[i].mirror /\ s[i].on[1] = m[1]
    /\ \A g \in Memories(p[d]) :
         /\ g[2] \in Sets(p[c]) => g \in Mirrors(p[c])
         /\ \A m \in Mirrors(p[c]) : m[2] = g[2] => m = g

\* What a script keeps it does not learn or forget as well.
KeepsOnly(p) ==
  \A c \in Callers : \A i, j \in DOMAIN p[c].steps :
    p[c].steps[i].do = "keep" /\ p[c].steps[j].do \in {"learn", "forget"} =>
      p[c].steps[i].on[1] # p[c].steps[j].on[1]

ASSUME CallersAssumption == Nobody \notin Callers /\ Callers # {}
ASSUME TimeoutsAssumption == MaxTimeouts \in Nat
ASSUME PlansAssumption == PlansAreScripts
ASSUME SelectionsAssumption == \A p \in Plans : SelectsFirst(p)
ASSUME MirrorsAssumption == \A p \in Plans : MirrorsAtOnce(p)
ASSUME KeepsAssumption == \A p \in Plans : KeepsOnly(p)

\* A driver that remembers its selection may have been used before, by any of the
\* callers.
Init ==
  /\ plan \in Plans
  /\ \E v \in Values :
       LET memories == UNION {Memories(plan[c]) : c \in Callers}
       IN  /\ field = [f \in Fields(plan) |-> IF \E m \in memories : m[1] = f THEN v ELSE Nobody]
           /\ reg = [r \in Registers(plan) |-> IF \E m \in memories : m[2] = r THEN v ELSE Nobody]
           /\ memories = {} => v = Nobody
  /\ at = [c \in Callers |-> 0]
  /\ line = <<>>
  /\ status = [c \in Callers |-> "idle"]
  /\ seen = [c \in Callers |-> <<>>]
  /\ reached = [c \in Callers |-> {}]
  /\ met = [c \in Callers |-> {}]
  /\ lost = FALSE
  /\ timeouts = 0

Running == {c \in Callers : status[c] = "running"}

Start(c) ==
  /\ status[c] = "idle"
  /\ ~lost
  /\ Continue(c, 1, line, seen[c])
  /\ met' = [d \in Callers |->
       IF d = c THEN Running ELSE IF d \in Running THEN met[d] \union {c} ELSE met[d]]
  /\ UNCHANGED <<plan, reg, seen, reached, lost, timeouts>>

----------------------------------------------------------------------------
\* The line that the instrument answers next, whose it is, its step and register.
Front == Head(line)
Owner == Front.by
Current == StepOf(Owner, Front.step)
Register == Current.on[Front.pos]

\* The call still waits for this line, and for no other line of the step.
Awaited == status[Owner] = "running" /\ at[Owner] = Front.step

LastOfStep == \A n \in DOMAIN Tail(line) : Tail(line)[n].by # Owner

\* The rest of the turn in which the line was answered.
Resume(s) ==
  IF Awaited /\ LastOfStep
  THEN Continue(Owner, Front.step + 1, Tail(line), s)
  ELSE line' = Tail(line) /\ UNCHANGED <<at, field, status>>

GoneThrough == reached' = [reached EXCEPT ![Owner] = @ \union {<<r, reg[r]>> : r \in Current.via}]

AnswerCommand ==
  /\ line # <<>> /\ ~lost
  /\ Current.do \in {"put", "putback"}
  /\ reg' = [r \in DOMAIN reg |->
       IF r \notin Range(Current.on) THEN reg[r]
       ELSE IF Current.do = "putback" /\ r \in DOMAIN seen[Owner] THEN seen[Owner][r] ELSE Owner]
  /\ GoneThrough
  /\ Resume(seen[Owner])
  /\ UNCHANGED <<plan, seen, met, lost, timeouts>>

\* What the call has read, with this answer.
Heard == [r \in DOMAIN seen[Owner] \union {Register} |-> IF r = Register THEN reg[r] ELSE seen[Owner][r]]

AnswerQuery ==
  /\ line # <<>> /\ ~lost
  /\ Current.do = "get"
  /\ seen' = [seen EXCEPT ![Owner] = Heard]
  /\ GoneThrough
  /\ Resume(Heard)
  /\ UNCHANGED <<plan, reg, met, lost, timeouts>>

\* Mutant: a line that fails goes, and its promise is not settled.
FailLineUnsettled == line' = Tail(line) /\ UNCHANGED <<at, field, status>>

\* A line that fails: caught where the driver has a default for it.
FailLine ==
  IF Awaited /\ Register \notin Current.soft THEN Abandon(Owner, Tail(line)) ELSE Resume(seen[Owner])

\* The deadline of a query.
QueryTimesOut ==
  /\ line # <<>> /\ ~lost
  /\ timeouts < MaxTimeouts
  /\ Current.do = "get"
  /\ timeouts' = timeouts + 1
  /\ FailLine
  /\ UNCHANGED <<plan, reg, seen, reached, met, lost>>

\* The connection goes; what is queued and what is still to come is refused.
Lose ==
  /\ ~lost
  /\ \E c \in Callers : status[c] = "running"
  /\ lost' = TRUE
  /\ UNCHANGED <<plan, at, line, reg, field, status, seen, reached, met, timeouts>>

RefuseLine ==
  /\ line # <<>> /\ lost
  /\ FailLine
  /\ UNCHANGED <<plan, reg, seen, reached, met, lost, timeouts>>

Serve == AnswerCommand \/ AnswerQuery \/ QueryTimesOut \/ RefuseLine

Next == (\E c \in Callers : Start(c)) \/ Serve \/ Lose

Spec == Init /\ [][Next]_vars
----------------------------------------------------------------------------
\* Nobody waits for an answer that will not come: a running call has a line of its
\* current step in the port's queue, whatever has timed out, failed or been left out.
NobodyStranded ==
  \A c \in Running : \E n \in DOMAIN line : line[n].by = c /\ line[n].step = at[c]

\* Calls of one method with the same parts may overlap: when all have ended well the
\* instrument has the settings of one of them whole, and so have the driver's fields.
LastCallWinsWhole ==
  (~lost /\ \A c, d \in Callers : status[c] = "ok" /\ plan[c] = plan[d])
  => \E w \in Callers : \A c \in Callers :
       (\A i \in 1..Length(c) : ~StepOf(c, i).rescued /\ StepOf(c, i).do # "putback") =>
         (\A r \in Sets(plan[c]) : reg[r] = w) /\ (\A f \in Keeps(plan[c]) : field[f] = w)

\* A call that met no other has commanded and read its own channel.
SelectionHolds ==
  \A c \in Callers : \A x \in reached[c] :
    met[c] = {} /\ x[1] \in Sets(plan[c]) => x[2] = c

\* What is read under a setting that is read as well is labelled with the right one:
\* always when the queries go out together, and when no call intervened otherwise.
LabelledReads ==
  \A c \in Callers : \A x \in reached[c] :
    (status[c] = "ok" /\ timeouts = 0 /\ ~lost /\ x[1] \in Reads(plan[c]) \ Sets(plan[c])
      /\ (met[c] = {} \/ Length(c) = 1))
    => x[2] = seen[c][x[1]]

\* A state that is asked for in one batch is the state of one moment, whoever else is
\* setting it.
SnapshotReads ==
  [][\A c \in Callers :
       (/\ status[c] = "running" /\ status'[c] = "ok" /\ timeouts' = 0 /\ ~lost
        /\ Length(c) = 1 /\ StepOf(c, 1).do = "get")
       => \A r \in Reads(plan[c]) : seen'[c][r] = reg[r]]_vars

\* When nobody is at work and the driver was the last to set a register that one of its
\* fields stands for, the field is right.
CacheAgrees ==
  \A c, d \in Callers : \A m \in Mirrors(plan[c]) \intersect Mirrors(plan[d]) :
    (Running = {} /\ ~lost /\ m[2] \in DOMAIN reg /\ reg[m[2]] \in {c, d}) => field[m[1]] = reg[m[2]]
============================================================================
