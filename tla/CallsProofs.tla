----------------------------- MODULE CallsProofs ------------------------------
(***************************************************************************)
(* What calls are promised: those that a driver makes of its instrument,   *)
(* for any callers and any scripts of the form that TLC finds every driver *)
(* and route to have (the assumptions of Calls), and those that the REST   *)
(* client makes of the server, for any number of connections.              *)
(*                                                                         *)
(* Two things carry the proofs about the instrument.  The port's queue     *)
(* consists of whole batches, apart from the one that is being answered,   *)
(* and every line in it belongs to the step at which its caller stands     *)
(* (QInv).  And as long as nothing has failed, what the current batch has  *)
(* read so far is what the instrument still says, since nobody's line      *)
(* comes between (RInv).                                                   *)
(*                                                                         *)
(* What the scripts of all drivers have in common carries the rest.  A     *)
(* selection that a call has made, or that its driver remembers, is the    *)
(* instrument's when its lines are answered (SInv); and calls of one       *)
(* script do not overtake, so that what they set is that of the hindmost,  *)
(* and in the end of one of them whole (WInv).                             *)
(*                                                                         *)
(* The proofs about the client follow the handler of a request: behind it  *)
(* everything took effect or has a default, and all of it on the           *)
(* connection that it looked up (ApiInv).                                  *)
(***************************************************************************)
EXTENDS Calls, RestApi, SequenceTheorems, WellFoundedInduction, TLAPS

Width(c, i) == IF StepOf(c, i).do = "get" THEN Len(StepOf(c, i).on) ELSE 1

\* What PlansAssumption says of the plan in use.
Scripted ==
  \A c \in Callers :
    /\ plan[c].end \in {"ok", "refused"}
    /\ Length(c) \in Nat /\ DOMAIN plan[c].steps = 1..Length(c)
    /\ \A i \in 1..Length(c) :
         /\ Width(c, i) \in Nat \ {0}
         /\ StepOf(c, i).do = "get" =>
              DOMAIN StepOf(c, i).on = 1..Width(c, i) /\ StepOf(c, i).unless \notin Fields(plan)

Typed ==
  /\ plan \in Plans /\ Scripted
  /\ at \in [Callers -> Nat]
  /\ status \in [Callers -> {"idle", "running", "ok", "refused", "failed"}]
  /\ DOMAIN field = Fields(plan) /\ DOMAIN reg = Registers(plan)
  /\ DOMAIN seen = Callers /\ DOMAIN reached = Callers /\ DOMAIN met = Callers
  /\ timeouts \in Nat /\ lost \in BOOLEAN
-----------------------------------------------------------------------------
(* The queue *)

Line == [by : Callers, step : Nat, pos : Nat]

\* A line is about a step of its caller that goes to the port.
Fits(l) ==
  /\ l.step \in 1..Length(l.by)
  /\ StepOf(l.by, l.step).do \in {"put", "putback", "get"}
  /\ l.pos \in 1..Width(l.by, l.step)

Follows(l, m) == m.by = l.by /\ m.step = l.step /\ m.pos = l.pos + 1

\* Batches are whole but for the one in front, which may have been begun, and no step has
\* two of them.
Batched(q) ==
  /\ q \in Seq(Line)
  /\ \A n \in 1..Len(q) : Fits(q[n])
  /\ \A n \in 1..Len(q) : q[n].pos < Width(q[n].by, q[n].step) => n + 1 <= Len(q) /\ Follows(q[n], q[n + 1])
  /\ \A n \in 1..Len(q) : q[n].pos > 1 /\ n > 1 => Follows(q[n - 1], q[n])
  /\ \A m, n \in 1..Len(q) :
       q[m].by = q[n].by /\ q[m].step = q[n].step => q[n].pos - q[m].pos = n - m

\* Nothing has failed so far.
Quiet == timeouts = 0 /\ ~lost

\* A line is of the step at which its caller stands, if it still runs.
Waits ==
  \A n \in 1..Len(line) :
    /\ status[line[n].by] # "idle"
    /\ status[line[n].by] = "running" => line[n].step = at[line[n].by]
    /\ Quiet => status[line[n].by] = "running"

\* Whoever is at work has met whoever else is.
Meets == \A c \in Running : Running \ {c} \subseteq met[c]

QInv == Typed /\ Batched(line) /\ Waits /\ NobodyStranded /\ Meets
-----------------------------------------------------------------------------
(* What is read *)

Fresh ==
  \A c \in Callers : status[c] = "idle" =>
    at[c] = 0 /\ seen[c] = <<>> /\ reached[c] = {} /\ met[c] = {}

Named ==
  \A c \in Callers : DOMAIN seen[c] \subseteq DOMAIN reg /\ \A x \in reached[c] : x[1] \in DOMAIN reg

\* What the batch in front has read is what the instrument says.
HalfRead ==
  LET c == line[1].by
      on == StepOf(c, line[1].step).on
  IN  Quiet /\ Len(line) > 0 /\ StepOf(c, line[1].step).do = "get" =>
        \A k \in 1..(line[1].pos - 1) : on[k] \in DOMAIN seen[c] /\ seen[c][on[k]] = reg[on[k]]

\* What a call has passed it has asked.
Asked ==
  Quiet => \A c \in Callers : \A i \in 1..Length(c) :
    i < at[c] /\ StepOf(c, i).do = "get" => Range(StepOf(c, i).on) \subseteq DOMAIN seen[c]

\* What a call that met nobody has found is still so, if it did not set it itself.
Alone ==
  Quiet => \A c \in Running : met[c] = {} =>
    /\ \A x \in reached[c] : x[1] \notin Sets(plan[c]) => x[2] = reg[x[1]]
    /\ \A r \in DOMAIN seen[c] \ Sets(plan[c]) : seen[c][r] = reg[r]

\* So is what a call of one batch has found, whomever it met, until the batch is done.
InOneGo ==
  Quiet => \A c \in Running : Length(c) = 1 /\ StepOf(c, 1).do = "get" /\ reached[c] # {} =>
    line[1].by = c /\ line[1].pos > 1 /\ \A x \in reached[c] : x[2] = reg[x[1]]

RInv == Fresh /\ Named /\ HalfRead /\ Asked /\ Alone /\ InOneGo /\ LabelledReads
-----------------------------------------------------------------------------

LEMMA PlansScripted == plan \in Plans => Scripted
<1> SUFFICES ASSUME plan \in Plans, NEW c \in Callers
             PROVE  /\ plan[c].end \in {"ok", "refused"}
                    /\ Length(c) \in Nat /\ DOMAIN plan[c].steps = 1..Length(c)
                    /\ \A i \in 1..Length(c) :
                         /\ Width(c, i) \in Nat \ {0}
                         /\ StepOf(c, i).do = "get" =>
                              DOMAIN StepOf(c, i).on = 1..Width(c, i) /\ StepOf(c, i).unless \notin Fields(plan)
  BY DEF Scripted
<1>1. plan[c].end \in {"ok", "refused"} /\ plan[c].steps \in Seq(Range(plan[c].steps))
  BY PlansAssumption DEF PlansAreScripts
<1>2. Length(c) \in Nat /\ DOMAIN plan[c].steps = 1..Length(c)
  BY <1>1, LenProperties DEF Length
<1>3. ASSUME NEW i \in 1..Length(c), StepOf(c, i).do = "get"
      PROVE  /\ Width(c, i) \in Nat \ {0} /\ DOMAIN StepOf(c, i).on = 1..Width(c, i)
             /\ StepOf(c, i).unless \notin Fields(plan)
  <2>1. /\ StepOf(c, i).on \in Seq(Range(StepOf(c, i).on)) /\ StepOf(c, i).on # <<>>
        /\ StepOf(c, i).unless \notin Fields(plan)
    BY <1>2, <1>3, PlansAssumption DEF PlansAreScripts, StepOf
  <2>2. Len(StepOf(c, i).on) \in Nat /\ DOMAIN StepOf(c, i).on = 1..Len(StepOf(c, i).on)
    BY <2>1, LenProperties
  <2>3. Len(StepOf(c, i).on) # 0
    BY <2>1, EmptySeq
  <2> QED
    BY <1>3, <2>1, <2>2, <2>3 DEF Width
<1>4. ASSUME NEW i \in 1..Length(c), StepOf(c, i).do # "get" PROVE Width(c, i) \in Nat \ {0}
  BY <1>4 DEF Width
<1> QED
  BY <1>1, <1>2, <1>3, <1>4

\* The next stop is the first step from i on that goes out.
LEMMA NextStopIsFirst ==
  ASSUME NEW c \in Callers, Length(c) \in Nat, NEW i \in Nat, i <= Length(c) + 1
  PROVE  /\ NextStop(c, i) \in i..(Length(c) + 1)
         /\ NextStop(c, i) <= Length(c) => GoesOut(c, NextStop(c, i))
         /\ \A k \in i..(NextStop(c, i) - 1) : k <= Length(c) => ~GoesOut(c, k)
<1> DEFINE stops == {j \in i..Length(c) : GoesOut(c, j)}
<1>1. NextStop(c, i) = IF stops = {} THEN Length(c) + 1 ELSE Min(stops)
  BY DEF NextStop
<1>2. CASE stops = {}
  BY <1>1, <1>2
<1>3. CASE stops # {}
  <2>1. stops \subseteq Nat
    OBVIOUS
  <2>2. PICK x \in stops : \A y \in stops : ~(<<y, x>> \in OpToRel(<, Nat))
    BY <1>3, <2>1, WFMin, NatLessThanWellFounded
  <2>3. ASSUME NEW y \in stops PROVE x <= y
    <3>1. x \in Nat /\ y \in Nat
      BY <2>1
    <3>2. y < x => <<y, x>> \in {ss \in Nat \X Nat : ss[1] < ss[2]}
      BY <3>1
    <3> QED
      BY <2>2, <3>1, <3>2 DEF OpToRel
  <2> DEFINE m == Min(stops)
  <2>4. m \in stops /\ \A y \in stops : m <= y
    BY <2>3 DEF Min
  <2>5. NextStop(c, i) = m
    BY <1>1, <1>3
  <2> HIDE DEF m
  <2>6. m \in i..Length(c) /\ GoesOut(c, m)
    BY <2>4
  <2>7. ASSUME NEW k \in i..(m - 1), k <= Length(c) PROVE ~GoesOut(c, k)
    BY <2>4, <2>6, <2>7
  <2> QED
    BY <2>5, <2>6, <2>7
<1> QED
  BY <1>2, <1>3
-----------------------------------------------------------------------------
(* What a turn does to the queue *)

LEMMA LineTyped ==
  ASSUME NEW q, Batched(q), NEW n \in 1..Len(q)
  PROVE  q[n].by \in Callers /\ q[n].pos \in Nat
<1>1. q \in Seq(Line)
  BY DEF Batched
<1>2. q[n] \in Line
  BY <1>1, ElementOfSeq
<1> QED
  BY <1>2 DEF Line

LEMMA LineWhole ==
  ASSUME Typed, Batched(line), line # <<>>
  PROVE  /\ Len(line) \in Nat \ {0} /\ Front = line[1] /\ Owner \in Callers /\ Fits(Front)
         /\ Front.pos \in Nat \ {0} /\ line[1] \in Line /\ DOMAIN line = 1..Len(line)
<1>1. /\ line \in Seq(Line) /\ Len(line) \in Nat /\ DOMAIN line = 1..Len(line)
      /\ \A n \in 1..Len(line) : line[n] \in Line
  BY LenProperties, ElementOfSeq DEF Batched
<1>2. Len(line) # 0 /\ Front = line[1]
  BY <1>1, EmptySeq DEF Front
<1>3. line[1] \in Line /\ Fits(line[1])
  BY <1>1, <1>2 DEF Batched
<1>4. line[1].by \in Callers /\ line[1].pos \in Nat
  BY <1>3 DEF Line
<1>5. line[1].pos # 0
  <2>1. Width(line[1].by, line[1].step) \in Nat
    BY <1>3, <1>4 DEF Fits, Typed, Scripted
  <2> QED
    BY <1>3, <2>1 DEF Fits
<1> QED
  BY <1>1, <1>2, <1>3, <1>4, <1>5 DEF Owner

\* Taking the front line leaves batches whole.
LEMMA TailBatched ==
  ASSUME Batched(line), line # <<>>
  PROVE  /\ Batched(Tail(line)) /\ Len(Tail(line)) = Len(line) - 1
         /\ \A n \in 1..Len(Tail(line)) : Tail(line)[n] = line[n + 1]
         /\ DOMAIN Tail(line) = 1..Len(Tail(line))
<1> DEFINE q == Tail(line)
<1>1. line \in Seq(Line) /\ Len(line) \in Nat
  BY LenProperties DEF Batched
<1>2. q \in Seq(Line) /\ Len(q) = Len(line) - 1 /\ \A n \in 1..Len(q) : q[n] = line[n + 1]
  BY <1>1, HeadTailProperties
<1>3. Len(q) \in Nat /\ DOMAIN q = 1..Len(q)
  BY <1>2, LenProperties
<1> HIDE DEF q
<1>4. ASSUME NEW n \in 1..Len(q) PROVE n + 1 \in 1..Len(line) /\ q[n] = line[n + 1]
  BY <1>1, <1>2, <1>3
<1>5. \A n \in 1..Len(q) : Fits(q[n])
  BY <1>4 DEF Batched
<1>6. ASSUME NEW n \in 1..Len(q), q[n].pos < Width(q[n].by, q[n].step)
      PROVE  n + 1 <= Len(q) /\ Follows(q[n], q[n + 1])
  <2>1. n + 1 + 1 <= Len(line) /\ Follows(line[n + 1], line[n + 1 + 1])
    BY <1>4, <1>6 DEF Batched
  <2>2. n + 1 \in 1..Len(q)
    BY <1>1, <1>2, <1>3, <2>1
  <2> QED
    BY <1>4, <2>1, <2>2
<1>7. ASSUME NEW n \in 1..Len(q), q[n].pos > 1, n > 1 PROVE Follows(q[n - 1], q[n])
  <2>1. Follows(line[n + 1 - 1], line[n + 1])
    <3>1. n + 1 \in 1..Len(line) /\ line[n + 1].pos > 1 /\ n + 1 > 1
      BY <1>3, <1>4, <1>7
    <3>2. \A k \in 1..Len(line) : line[k].pos > 1 /\ k > 1 => Follows(line[k - 1], line[k])
      BY DEF Batched
    <3> QED
      BY <3>1, <3>2
  <2>2. n - 1 \in 1..Len(q) /\ n - 1 + 1 = n /\ n + 1 - 1 = n
    BY <1>3, <1>7
  <2>3. q[n - 1] = line[n]
    BY <1>2, <2>2
  <2> QED
    BY <1>4, <2>1, <2>2, <2>3
<1>8. ASSUME NEW m \in 1..Len(q), NEW n \in 1..Len(q), q[m].by = q[n].by, q[m].step = q[n].step
      PROVE  q[n].pos - q[m].pos = n - m
  <2>1. line[n + 1].pos - line[m + 1].pos = (n + 1) - (m + 1)
    BY <1>4, <1>8 DEF Batched
  <2>2. (n + 1) - (m + 1) = n - m
    BY <1>3
  <2> QED
    BY <1>4, <2>1, <2>2
<1> QED
  BY <1>2, <1>3, <1>5, <1>6, <1>7, <1>8 DEF Batched, q

\* The lines of a step are a batch.
LEMMA LinesBatched ==
  ASSUME Scripted, NEW c \in Callers, NEW i \in 1..Length(c), GoesOut(c, i)
  PROVE  /\ Batched(Lines(c, i)) /\ Len(Lines(c, i)) = Width(c, i) /\ Width(c, i) \in Nat \ {0}
         /\ \A n \in 1..Width(c, i) : Lines(c, i)[n] = [by |-> c, step |-> i, pos |-> n]
<1>1. Length(c) \in Nat /\ Width(c, i) \in Nat \ {0} /\ i \in Nat
  BY DEF Scripted
<1>2. (IF StepOf(c, i).do = "get" THEN DOMAIN StepOf(c, i).on ELSE {1}) = 1..Width(c, i)
  <2>1. CASE StepOf(c, i).do = "get"
    BY <2>1 DEF Scripted
  <2>2. CASE StepOf(c, i).do # "get"
    BY <2>2 DEF Width
  <2> QED
    BY <2>1, <2>2
<1> DEFINE q == [n \in 1..Width(c, i) |-> [by |-> c, step |-> i, pos |-> n]]
<1>3. Lines(c, i) = q
  BY <1>2 DEF Lines
<1>4. \A n \in 1..Width(c, i) : [by |-> c, step |-> i, pos |-> n] \in Line
  BY <1>1 DEF Line
<1>5. q \in [1..Width(c, i) -> Line]
  BY <1>4
<1>6. q \in Seq(Line) /\ Len(q) = Width(c, i)
  BY <1>1, <1>5, SeqDef, LenProperties
<1>7. \A n \in 1..Width(c, i) : q[n].by = c /\ q[n].step = i /\ q[n].pos = n
  OBVIOUS
<1> HIDE DEF q
<1>8. StepOf(c, i).do \in {"put", "putback", "get"}
  BY DEF GoesOut
<1>9. Batched(q)
  BY <1>1, <1>6, <1>7, <1>8 DEF Batched, Fits, Follows
<1> QED
  BY <1>1, <1>3, <1>6, <1>9 DEF q

\* So is a queue with such a batch behind it.
LEMMA BatchesJoin ==
  ASSUME NEW q, NEW r, Batched(q), Batched(r), Len(r) = 0 \/ r[1].pos = 1,
         \A m \in 1..Len(q) : \A n \in 1..Len(r) : q[m].by # r[n].by
  PROVE  /\ Batched(q \o r) /\ Len(q \o r) = Len(q) + Len(r)
         /\ \A n \in 1..Len(q) : (q \o r)[n] = q[n]
         /\ \A n \in 1..Len(r) : (q \o r)[Len(q) + n] = r[n]
<1>1. q \in Seq(Line) /\ r \in Seq(Line) /\ Len(q) \in Nat /\ Len(r) \in Nat
  BY LenProperties DEF Batched
<1> DEFINE z == q \o r
<1>2. /\ z \in Seq(Line) /\ Len(z) = Len(q) + Len(r)
      /\ \A n \in 1..(Len(q) + Len(r)) : z[n] = IF n <= Len(q) THEN q[n] ELSE r[n - Len(q)]
  BY <1>1, ConcatProperties
<1> HIDE DEF z
<1>3. \A n \in 1..Len(q) : z[n] = q[n]
  BY <1>1, <1>2
<1>4. ASSUME NEW n \in 1..Len(r) PROVE z[Len(q) + n] = r[n]
  <2>1. /\ Len(q) + n \in 1..(Len(q) + Len(r)) /\ ~(Len(q) + n <= Len(q))
        /\ (Len(q) + n) - Len(q) = n
    BY <1>1
  <2> QED
    BY <1>2, <2>1
<1>5. ASSUME NEW n \in 1..Len(z), n \notin 1..Len(q)
      PROVE  n - Len(q) \in 1..Len(r) /\ z[n] = r[n - Len(q)]
  BY <1>1, <1>2, <1>5
<1>6. \A n \in 1..Len(z) : Fits(z[n])
  BY <1>3, <1>5 DEF Batched
<1>7. ASSUME NEW n \in 1..Len(z), z[n].pos < Width(z[n].by, z[n].step)
      PROVE  n + 1 <= Len(z) /\ Follows(z[n], z[n + 1])
  <2>1. CASE n \in 1..Len(q)
    <3>1. n + 1 <= Len(q) /\ Follows(q[n], q[n + 1])
      BY <1>3, <1>7, <2>1 DEF Batched
    <3>2. n + 1 \in 1..Len(q) /\ n + 1 <= Len(z)
      BY <1>1, <1>2, <2>1, <3>1
    <3> QED
      BY <1>3, <2>1, <3>1, <3>2
  <2>2. CASE n \notin 1..Len(q)
    <3> DEFINE k == n - Len(q)
    <3>1. k \in 1..Len(r) /\ z[n] = r[k]
      BY <1>5, <2>2
    <3>2. k + 1 <= Len(r) /\ Follows(r[k], r[k + 1])
      BY <1>7, <3>1 DEF Batched
    <3>3. k + 1 \in 1..Len(r) /\ Len(q) + (k + 1) = n + 1 /\ n + 1 <= Len(z)
      <4>1. n \in Nat /\ k \in Nat /\ Len(z) = Len(q) + Len(r) /\ k + 1 <= Len(r)
        BY <1>1, <1>2, <3>1, <3>2
      <4> QED
        BY <1>1, <4>1
    <3>4. z[n + 1] = r[k + 1]
      BY <1>4, <3>3
    <3> QED
      BY <3>1, <3>2, <3>3, <3>4
  <2> QED
    BY <2>1, <2>2
<1>8. ASSUME NEW n \in 1..Len(z), z[n].pos > 1, n > 1 PROVE Follows(z[n - 1], z[n])
  <2>1. CASE n \in 1..Len(q)
    <3>1. Follows(q[n - 1], q[n])
      BY <1>3, <1>8, <2>1 DEF Batched
    <3>2. n - 1 \in 1..Len(q)
      BY <1>1, <1>8, <2>1
    <3> QED
      BY <1>3, <2>1, <3>1, <3>2
  <2>2. CASE n \notin 1..Len(q)
    <3> DEFINE k == n - Len(q)
    <3>1. k \in 1..Len(r) /\ z[n] = r[k]
      BY <1>5, <2>2
    <3>2. k # 1
      <4>1. Len(r) # 0 /\ r[k].pos # 1
        <5>1. r[k].pos > 1 /\ k \in 1..Len(r)
          BY <1>8, <3>1
        <5>2. r[k] \in Line
          BY <1>1, <5>1, ElementOfSeq
        <5>3. r[k].pos \in Nat
          BY <5>2 DEF Line
        <5> QED
          BY <1>1, <5>1, <5>3
      <4> QED
        BY <4>1
    <3>3. k > 1 /\ Follows(r[k - 1], r[k])
      <4>1. k > 1
        BY <1>1, <3>1, <3>2
      <4> QED
        BY <1>8, <3>1, <4>1 DEF Batched
    <3>4. k - 1 \in 1..Len(r) /\ Len(q) + (k - 1) = n - 1
      BY <1>1, <3>1, <3>3
    <3>5. z[n - 1] = r[k - 1]
      BY <1>4, <3>4
    <3> QED
      BY <3>1, <3>3, <3>5
  <2> QED
    BY <2>1, <2>2
<1>9. ASSUME NEW m \in 1..Len(z), NEW n \in 1..Len(z), z[m].by = z[n].by, z[m].step = z[n].step
      PROVE  z[n].pos - z[m].pos = n - m
  <2>1. CASE m \in 1..Len(q) /\ n \in 1..Len(q)
    BY <1>3, <1>9, <2>1 DEF Batched
  <2>2. CASE m \notin 1..Len(q) /\ n \notin 1..Len(q)
    <3> DEFINE k == m - Len(q)
               l == n - Len(q)
    <3>1. k \in 1..Len(r) /\ z[m] = r[k] /\ l \in 1..Len(r) /\ z[n] = r[l]
      BY <1>5, <2>2
    <3>2. l - k = n - m
      BY <1>1, <1>2
    <3> HIDE DEF k, l
    <3>3. r[l].pos - r[k].pos = l - k
      BY <1>9, <3>1 DEF Batched
    <3> QED
      BY <3>1, <3>2, <3>3
  <2>3. CASE m \in 1..Len(q) /\ n \notin 1..Len(q)
    <3>1. PICK l \in 1..Len(r) : z[n] = r[l]
      BY <1>5, <2>3
    <3>2. z[m] = q[m]
      BY <1>3, <2>3
    <3> QED
      BY <1>9, <2>3, <3>1, <3>2
  <2>4. CASE m \notin 1..Len(q) /\ n \in 1..Len(q)
    <3>1. PICK k \in 1..Len(r) : z[m] = r[k]
      BY <1>5, <2>4
    <3>2. z[n] = q[n]
      BY <1>3, <2>4
    <3> QED
      BY <1>9, <2>4, <3>1, <3>2
  <2> QED
    BY <2>1, <2>2, <2>3, <2>4
<1> QED
  BY <1>2, <1>3, <1>4, <1>6, <1>7, <1>8, <1>9 DEF Batched, z

\* A turn of call c: from step i on to its next stop, whose lines come last in the queue.
LEMMA ContinueQueues ==
  ASSUME Typed, NEW c \in Callers, NEW i \in Nat \ {0}, i <= Length(c) + 1, NEW q, Batched(q),
         \A n \in 1..Len(q) : q[n].by # c, NEW s, Continue(c, i, q, s)
  PROVE  /\ at' = [at EXCEPT ![c] = NextStop(c, i)] /\ NextStop(c, i) \in i..(Length(c) + 1)
         /\ status' = [status EXCEPT ![c] = IF NextStop(c, i) > Length(c) THEN plan[c].end ELSE "running"]
         /\ DOMAIN field' = DOMAIN field
         /\ Batched(line') /\ Len(line') >= Len(q)
         /\ \A n \in 1..Len(q) : line'[n] = q[n]
         /\ \A n \in 1..Len(line') : n > Len(q) =>
              /\ line'[n].by = c /\ line'[n].step = NextStop(c, i) /\ NextStop(c, i) <= Length(c)
              /\ line'[n].pos = n - Len(q)
         /\ NextStop(c, i) <= Length(c) => Len(line') > Len(q)
<1> DEFINE j == NextStop(c, i)
<1>1. /\ at' = [at EXCEPT ![c] = j]
      /\ status' = [status EXCEPT ![c] = IF j > Length(c) THEN plan[c].end ELSE "running"]
      /\ line' = IF j > Length(c) THEN q ELSE q \o Lines(c, j)
      /\ DOMAIN field' = DOMAIN field
  BY DEF Continue, Kept
<1>2. Length(c) \in Nat
  BY DEF Typed, Scripted
<1>3. j \in i..(Length(c) + 1) /\ (j <= Length(c) => GoesOut(c, j))
  BY <1>2, NextStopIsFirst
<1> HIDE DEF j
<1>4. Len(q) \in Nat
  BY LenProperties DEF Batched
<1>5. CASE j > Length(c)
  BY <1>1, <1>2, <1>3, <1>4, <1>5 DEF j
<1>6. CASE j <= Length(c)
  <2>1. j \in 1..Length(c)
    BY <1>2, <1>3, <1>6
  <2> DEFINE r == Lines(c, j)
  <2>2. /\ Batched(r) /\ Len(r) \in Nat \ {0}
        /\ \A n \in 1..Len(r) : r[n].by = c /\ r[n].step = j /\ r[n].pos = n
    <3>1. Scripted /\ GoesOut(c, j)
      BY <1>3, <1>6 DEF Typed
    <3>2. /\ Batched(r) /\ Len(r) = Width(c, j) /\ Width(c, j) \in Nat \ {0}
          /\ \A n \in 1..Width(c, j) : r[n] = [by |-> c, step |-> j, pos |-> n]
      BY <2>1, <3>1, LinesBatched
    <3> HIDE DEF r
    <3> QED
      BY <3>2
  <2>3. line' = q \o r
    BY <1>1, <1>2, <1>6, <2>1
  <2> HIDE DEF r
  <2>4. r[1].pos = 1
    BY <2>2
  <2>5. /\ Batched(line') /\ Len(line') = Len(q) + Len(r)
        /\ \A n \in 1..Len(q) : line'[n] = q[n]
        /\ \A n \in 1..Len(r) : line'[Len(q) + n] = r[n]
    <3>1. \A m \in 1..Len(q) : \A n \in 1..Len(r) : q[m].by # r[n].by
      BY <2>2
    <3>2. Batched(q) /\ Batched(r) /\ r[1].pos = 1
      BY <2>2, <2>4
    <3>3. /\ Batched(q \o r) /\ Len(q \o r) = Len(q) + Len(r)
          /\ \A n \in 1..Len(q) : (q \o r)[n] = q[n]
          /\ \A n \in 1..Len(r) : (q \o r)[Len(q) + n] = r[n]
      BY <3>1, <3>2, BatchesJoin
    <3> QED
      BY <2>3, <3>3
  <2>6. ASSUME NEW n \in 1..Len(line'), n > Len(q)
        PROVE  line'[n].by = c /\ line'[n].step = j /\ line'[n].pos = n - Len(q)
    <3>1. n - Len(q) \in 1..Len(r) /\ Len(q) + (n - Len(q)) = n
      <4>1. n \in 1..(Len(q) + Len(r)) /\ n > Len(q) /\ Len(r) \in Nat
        BY <2>2, <2>5, <2>6
      <4> QED
        BY <1>4, <4>1
    <3>2. PICK k \in 1..Len(r) : k = n - Len(q) /\ Len(q) + k = n
      BY <3>1
    <3>3. line'[n] = r[k]
      BY <2>5, <3>2
    <3> QED
      BY <2>2, <3>2, <3>3
  <2> QED
    BY <1>1, <1>3, <1>4, <1>6, <2>2, <2>5, <2>6 DEF j
<1> QED
  BY <1>2, <1>3, <1>5, <1>6
-----------------------------------------------------------------------------
(* The queue discipline is kept *)

LEMMA InitQueues == Init => QInv /\ Fresh
<1> SUFFICES ASSUME Init PROVE QInv /\ Fresh
  OBVIOUS
<1>1. Typed
  BY PlansScripted DEF Init, Typed
<1>2. line = <<>> /\ Len(line) = 0 /\ line \in Seq(Line)
  BY DEF Init
<1>3. Batched(line) /\ Waits
  BY <1>2 DEF Batched, Waits
<1>4. Running = {}
  BY DEF Init, Running
<1>5. NobodyStranded /\ Meets
  BY <1>4 DEF NobodyStranded, Meets
<1>6. Fresh
  BY DEF Init, Fresh
<1> QED
  BY <1>1, <1>3, <1>5, <1>6 DEF QInv

\* What is typed but for the turn of one call.
LEMMA TypedKept ==
  ASSUME Typed, UNCHANGED plan,
         at' \in [Callers -> Nat],
         status' \in [Callers -> {"idle", "running", "ok", "refused", "failed"}],
         DOMAIN field' = DOMAIN field, DOMAIN reg' = DOMAIN reg,
         DOMAIN seen' = Callers, DOMAIN reached' = Callers, DOMAIN met' = Callers,
         timeouts' \in Nat, lost' \in BOOLEAN
  PROVE  Typed'
<1>1. Scripted'
  BY DEF Typed, Scripted, Length, Width, StepOf
<1> QED
  BY <1>1 DEF Typed

LEMMA BatchedKept == ASSUME UNCHANGED plan, Batched(line') PROVE Batched(line)'
BY DEF Batched, Fits, Follows, Width, StepOf, Length

\* Call c goes on from step i; no line of q is its own, and what was in the queue of the
\* others is in q.
LEMMA ContinueKeeps ==
  ASSUME QInv, UNCHANGED plan, NEW c \in Callers,
         NEW i \in Nat \ {0}, i <= Length(c) + 1, NEW q, Batched(q), NEW s, Continue(c, i, q, s),
         \A n \in 1..Len(q) : q[n].by # c /\ \E k \in 1..Len(line) : line[k] = q[n],
         \A k \in 1..Len(line) : line[k].by # c => \E n \in 1..Len(q) : q[n] = line[k],
         Quiet' => Quiet
  PROVE  Batched(line)' /\ Waits' /\ NobodyStranded'
<1> DEFINE j == NextStop(c, i)
<1>1. /\ Typed /\ Batched(line) /\ Waits /\ NobodyStranded
      /\ at \in [Callers -> Nat]
      /\ status \in [Callers -> {"idle", "running", "ok", "refused", "failed"}]
      /\ plan[c].end \in {"ok", "refused"} /\ Length(c) \in Nat
  BY DEF QInv, Typed, Scripted
<1>2. /\ at' = [at EXCEPT ![c] = j] /\ j \in i..(Length(c) + 1)
      /\ status' = [status EXCEPT ![c] = IF j > Length(c) THEN plan[c].end ELSE "running"]
      /\ Batched(line') /\ Len(line') >= Len(q)
      /\ \A n \in 1..Len(q) : line'[n] = q[n]
      /\ \A n \in 1..Len(line') : n > Len(q) =>
           line'[n].by = c /\ line'[n].step = j /\ j <= Length(c)
      /\ j <= Length(c) => Len(line') > Len(q)
  BY <1>1, ContinueQueues
<1> HIDE DEF j
<1>3. Len(q) \in Nat /\ Len(line') \in Nat /\ Len(line) \in Nat
      /\ DOMAIN line' = 1..Len(line') /\ DOMAIN line = 1..Len(line)
  BY <1>1, <1>2, LenProperties DEF Batched
<1>4. /\ \A d \in Callers : d # c => at'[d] = at[d] /\ status'[d] = status[d]
      /\ at'[c] = j /\ status'[c] # "idle" /\ (status'[c] = "running" <=> j <= Length(c))
  BY <1>1, <1>2
<1>5. Batched(line)'
  BY <1>2, BatchedKept
<1>6. ASSUME NEW n \in 1..Len(line')
      PROVE  /\ status'[line'[n].by] # "idle"
             /\ status'[line'[n].by] = "running" => line'[n].step = at'[line'[n].by]
             /\ Quiet' => status'[line'[n].by] = "running"
  <2>1. CASE n <= Len(q)
    <3>0. n \in 1..Len(q)
      BY <1>3, <2>1
    <3>1. line'[n] = q[n] /\ q[n].by # c
      BY <1>2, <3>0
    <3>2. PICK k \in 1..Len(line) : line[k] = q[n]
      BY <3>0
    <3>3. q[n].by \in Callers
      BY <3>0, LineTyped
    <3>4. /\ status[q[n].by] # "idle" /\ (status[q[n].by] = "running" => q[n].step = at[q[n].by])
          /\ (Quiet => status[q[n].by] = "running")
      BY <1>1, <3>2 DEF Waits
    <3> QED
      BY <1>4, <3>1, <3>3, <3>4
  <2>2. CASE n > Len(q)
    BY <1>2, <1>4, <2>2
  <2> QED
    BY <1>3, <2>1, <2>2
<1>7. ASSUME NEW d \in Callers, status'[d] = "running"
      PROVE  \E n \in DOMAIN line' : line'[n].by = d /\ line'[n].step = at'[d]
  <2>1. CASE d = c
    <3>1. Len(q) + 1 \in 1..Len(line') /\ Len(q) + 1 > Len(q)
      BY <1>2, <1>3, <1>4, <1>7, <2>1
    <3> QED
      BY <1>2, <1>3, <1>4, <2>1, <3>1
  <2>2. CASE d # c
    <3>1. status[d] = "running" /\ at'[d] = at[d]
      BY <1>4, <1>7, <2>2
    <3>2. PICK k \in 1..Len(line) : line[k].by = d /\ line[k].step = at[d]
      BY <1>1, <1>3, <3>1 DEF NobodyStranded, Running
    <3>3. PICK n \in 1..Len(q) : q[n] = line[k]
      BY <2>2, <3>2
    <3>4. n \in DOMAIN line' /\ line'[n] = q[n]
      BY <1>2, <1>3
    <3> QED
      BY <3>1, <3>2, <3>3, <3>4
  <2> QED
    BY <2>1, <2>2
<1> QED
  BY <1>3, <1>5, <1>6, <1>7 DEF Waits, NobodyStranded, Running

\* The front line goes.  Who stays at work was at work.
LEMMA FrontGoes ==
  ASSUME QInv, line # <<>>
  PROVE  /\ Owner \in Callers /\ Front = line[1] /\ Fits(Front) /\ Front.pos \in Nat \ {0}
         /\ status[Owner] # "idle"
         /\ status[Owner] = "running" => Awaited /\ at[Owner] \in 1..Length(Owner)
         /\ Len(line) \in Nat \ {0} /\ Batched(Tail(line)) /\ Len(Tail(line)) = Len(line) - 1
         /\ \A n \in 1..Len(Tail(line)) : Tail(line)[n] = line[n + 1]
         /\ DOMAIN Tail(line) = 1..Len(Tail(line))
         /\ DOMAIN line = 1..Len(line)
         /\ \A n \in 1..Len(line) : line[n].by \in Callers
<1>1. Typed /\ Batched(line) /\ Waits
  BY DEF QInv
<1>2. /\ Len(line) \in Nat \ {0} /\ Front = line[1] /\ Owner \in Callers /\ Fits(Front)
      /\ Front.pos \in Nat \ {0} /\ DOMAIN line = 1..Len(line)
  BY <1>1, LineWhole
<1>3. /\ status[Owner] # "idle"
      /\ status[Owner] = "running" => Front.step = at[Owner]
  BY <1>1, <1>2 DEF Waits, Owner
<1>4. \A n \in 1..Len(line) : line[n].by \in Callers
  BY <1>1, LineTyped
<1>5. Front.step \in 1..Length(Owner)
  BY <1>2 DEF Fits, Owner
<1> QED
  BY <1>1, <1>2, <1>3, <1>4, <1>5, TailBatched DEF Awaited

LEMMA TailKeeps ==
  ASSUME QInv, UNCHANGED plan, line # <<>>, line' = Tail(line),
         Quiet' => Quiet,
         \A d \in Callers : status'[d] = "running" => at'[d] = at[d],
         \A d \in Callers : status'[d] = status[d]
           \/ (status'[d] \in {"ok", "failed"} /\ status[d] = "running" /\ ~Quiet'),
         \/ ~Awaited \/ ~LastOfStep \/ status'[Owner] # "running"
  PROVE  Batched(line)' /\ Waits' /\ NobodyStranded'
<1>1. /\ Owner \in Callers /\ Front = line[1] /\ Len(line) \in Nat \ {0} /\ Batched(line')
      /\ Len(line') = Len(line) - 1 /\ DOMAIN line' = 1..Len(line') /\ DOMAIN line = 1..Len(line)
      /\ \A n \in 1..Len(line') : line'[n] = line[n + 1]
      /\ \A n \in 1..Len(line) : line[n].by \in Callers
      /\ Waits /\ NobodyStranded
      /\ status[Owner] = "running" => Awaited
  BY FrontGoes DEF QInv
<1>2. ASSUME NEW n \in 1..Len(line')
      PROVE  n + 1 \in 1..Len(line) /\ line'[n] = line[n + 1] /\ line'[n].by \in Callers
  <2>1. n + 1 \in 1..Len(line)
    BY <1>1
  <2> QED
    BY <1>1, <2>1
<1>3. Waits'
  <2> SUFFICES ASSUME NEW n \in 1..Len(line')
               PROVE  /\ status'[line'[n].by] # "idle"
                      /\ status'[line'[n].by] = "running" => line'[n].step = at'[line'[n].by]
                      /\ Quiet' => status'[line'[n].by] = "running"
    BY DEF Waits
  <2>1. /\ status[line'[n].by] # "idle"
        /\ status[line'[n].by] = "running" => line'[n].step = at[line'[n].by]
        /\ Quiet => status[line'[n].by] = "running"
    BY <1>1, <1>2 DEF Waits
  <2> QED
    BY <1>2, <2>1
<1>4. ASSUME NEW d \in Callers, status'[d] = "running"
      PROVE  \E n \in DOMAIN line' : line'[n].by = d /\ line'[n].step = at'[d]
  <2>1. status[d] = "running"
    BY <1>4
  <2>2. CASE d = Owner
    <3>1. PICK n \in DOMAIN line' : line'[n].by = Owner
      BY <1>1, <1>4, <2>1, <2>2 DEF LastOfStep
    <3>2. line'[n].step = at'[line'[n].by]
      BY <1>1, <1>3, <1>4, <2>2, <3>1 DEF Waits
    <3> QED
      BY <2>2, <3>1, <3>2
  <2>3. CASE d # Owner
    <3>1. PICK k \in 1..Len(line) : line[k].by = d /\ line[k].step = at[d]
      BY <1>1, <2>1 DEF NobodyStranded, Running
    <3>2. k # 1
      BY <1>1, <2>3, <3>1 DEF Owner
    <3>3. k - 1 \in 1..Len(line') /\ (k - 1) + 1 = k
      BY <1>1, <3>2
    <3>4. line'[k - 1] = line[k]
      BY <1>1, <3>3
    <3>5. k - 1 \in DOMAIN line' /\ at'[d] = at[d]
      BY <1>1, <1>4, <3>3
    <3> QED
      BY <3>1, <3>4, <3>5
  <2> QED
    BY <2>2, <2>3
<1>5. Batched(line)'
  BY <1>1, BatchedKept
<1> QED
  BY <1>3, <1>4, <1>5 DEF NobodyStranded, Running

LEMMA ResumeKeeps ==
  ASSUME QInv, UNCHANGED plan, line # <<>>, NEW s, Resume(s), Quiet' => Quiet
  PROVE  /\ Batched(line)' /\ Waits' /\ NobodyStranded'
         /\ at' \in [Callers -> Nat]
         /\ status' \in [Callers -> {"idle", "running", "ok", "refused", "failed"}]
         /\ DOMAIN field' = DOMAIN field
         /\ \A d \in Callers : status'[d] = "running" => status[d] = "running"
<1>1. /\ Owner \in Callers /\ Front = line[1] /\ Len(line) \in Nat \ {0} /\ Batched(Tail(line))
      /\ Len(Tail(line)) = Len(line) - 1 /\ DOMAIN Tail(line) = 1..Len(Tail(line))
      /\ \A n \in 1..Len(Tail(line)) : Tail(line)[n] = line[n + 1]
      /\ status[Owner] = "running" => at[Owner] \in 1..Length(Owner)
  BY FrontGoes
<1>2. /\ at \in [Callers -> Nat] /\ Typed
      /\ status \in [Callers -> {"idle", "running", "ok", "refused", "failed"}]
      /\ \A c \in Callers : plan[c].end \in {"ok", "refused"} /\ Length(c) \in Nat
  BY DEF QInv, Typed, Scripted
<1>3. CASE Awaited /\ LastOfStep
  <2> DEFINE q == Tail(line)
             i == Front.step + 1
  <2>1. Continue(Owner, i, q, s) /\ status[Owner] = "running" /\ at[Owner] = Front.step
    BY <1>3 DEF Resume, Awaited
  <2>2. i \in Nat \ {0} /\ i <= Length(Owner) + 1
    BY <1>1, <1>2, <2>1
  <2>3. ASSUME NEW n \in 1..Len(q)
        PROVE  q[n].by # Owner /\ \E k \in 1..Len(line) : line[k] = q[n]
    <3>1. n + 1 \in 1..Len(line) /\ q[n] = line[n + 1]
      BY <1>1
    <3> QED
      BY <1>1, <1>3, <3>1 DEF LastOfStep
  <2>4. ASSUME NEW k \in 1..Len(line), line[k].by # Owner
        PROVE  \E n \in 1..Len(q) : q[n] = line[k]
    <3>1. k # 1
      BY <1>1, <2>4 DEF Owner
    <3>2. k - 1 \in 1..Len(q) /\ (k - 1) + 1 = k
      BY <1>1, <3>1
    <3>3. q[k - 1] = line[k]
      BY <1>1, <3>2
    <3> QED
      BY <3>2, <3>3
  <2>5. Batched(q)
    BY <1>1
  <2> HIDE DEF q, i
  <2>6. Batched(line)' /\ Waits' /\ NobodyStranded'
    BY <1>1, <2>1, <2>2, <2>3, <2>4, <2>5, ContinueKeeps
  <2>7. /\ at' = [at EXCEPT ![Owner] = NextStop(Owner, i)] /\ NextStop(Owner, i) \in i..(Length(Owner) + 1)
        /\ status' = [status EXCEPT ![Owner] = IF NextStop(Owner, i) > Length(Owner) THEN plan[Owner].end ELSE "running"]
        /\ DOMAIN field' = DOMAIN field
    BY <1>1, <1>2, <2>1, <2>2, <2>3, <2>5, ContinueQueues
  <2>8. NextStop(Owner, i) \in Nat
    BY <1>1, <1>2, <2>2, <2>7
  <2> QED
    BY <1>1, <1>2, <2>1, <2>6, <2>7, <2>8
<1>4. CASE ~(Awaited /\ LastOfStep)
  <2>1. line' = Tail(line) /\ UNCHANGED <<at, field, status>>
    BY <1>4 DEF Resume
  <2> QED
    BY <1>2, <1>4, <2>1, TailKeeps
<1> QED
  BY <1>3, <1>4

LEMMA AbandonKeeps ==
  ASSUME QInv, UNCHANGED plan, line # <<>>, Awaited, Abandon(Owner, Tail(line)), ~Quiet'
  PROVE  /\ Batched(line)' /\ Waits' /\ NobodyStranded'
         /\ at' \in [Callers -> Nat]
         /\ status' \in [Callers -> {"idle", "running", "ok", "refused", "failed"}]
         /\ DOMAIN field' = DOMAIN field
         /\ \A d \in Callers : status'[d] = "running" => status[d] = "running"
<1>1. /\ Owner \in Callers
      /\ at \in [Callers -> Nat] /\ Length(Owner) \in Nat
      /\ status \in [Callers -> {"idle", "running", "ok", "refused", "failed"}]
  BY FrontGoes DEF QInv, Typed, Scripted
<1>2. /\ at' = [at EXCEPT ![Owner] = Length(Owner) + 1] /\ line' = Tail(line) /\ UNCHANGED field
      /\ \E v \in {"ok", "failed"} : status' = [status EXCEPT ![Owner] = v]
  BY DEF Abandon
<1>3. /\ at' \in [Callers -> Nat]
      /\ status' \in [Callers -> {"idle", "running", "ok", "refused", "failed"}]
      /\ status'[Owner] \in {"ok", "failed"} /\ status[Owner] = "running"
      /\ \A d \in Callers : d # Owner => status'[d] = status[d] /\ at'[d] = at[d]
  BY <1>1, <1>2 DEF Awaited
<1>4. Batched(line)' /\ Waits' /\ NobodyStranded'
  BY <1>1, <1>2, <1>3, TailKeeps
<1> QED
  BY <1>1, <1>2, <1>3, <1>4

LEMMA MeetsKept ==
  ASSUME Meets, UNCHANGED met, \A d \in Callers : status'[d] = "running" => status[d] = "running"
  PROVE  Meets'
BY DEF Meets, Running

LEMMA StartQueues == ASSUME QInv, Fresh, NEW c \in Callers, Start(c) PROVE QInv'
<1>1. /\ status[c] = "idle" /\ Continue(c, 1, line, seen[c]) /\ Batched(line) /\ Typed /\ Waits
      /\ met' = [d \in Callers |->
           IF d = c THEN Running ELSE IF d \in Running THEN met[d] \union {c} ELSE met[d]]
      /\ UNCHANGED <<plan, reg, seen, reached, lost, timeouts>>
      /\ at \in [Callers -> Nat] /\ Length(c) \in Nat /\ plan[c].end \in {"ok", "refused"}
      /\ status \in [Callers -> {"idle", "running", "ok", "refused", "failed"}]
  BY DEF Start, QInv, Typed, Scripted
<1>2. Len(line) \in Nat /\ \A n \in 1..Len(line) : line[n].by # c
  BY <1>1, LenProperties DEF Waits, Batched
<1>3. 1 \in Nat \ {0} /\ 1 <= Length(c) + 1 /\ (Quiet' => Quiet)
  BY <1>1 DEF Quiet
<1>4. Batched(line)' /\ Waits' /\ NobodyStranded'
  BY <1>1, <1>2, <1>3, ContinueKeeps
<1>5. /\ at' = [at EXCEPT ![c] = NextStop(c, 1)] /\ NextStop(c, 1) \in 1..(Length(c) + 1)
      /\ status' = [status EXCEPT ![c] = IF NextStop(c, 1) > Length(c) THEN plan[c].end ELSE "running"]
      /\ DOMAIN field' = DOMAIN field
  BY <1>1, <1>2, <1>3, ContinueQueues
<1>6. /\ at' \in [Callers -> Nat]
      /\ status' \in [Callers -> {"idle", "running", "ok", "refused", "failed"}]
      /\ \A d \in Callers : d # c => status'[d] = status[d]
  BY <1>1, <1>5
<1>7. Typed'
  BY <1>1, <1>5, <1>6, TypedKept DEF Typed
<1>8. Meets'
  BY <1>1, <1>6 DEF QInv, Meets, Running
<1> QED
  BY <1>4, <1>7, <1>8 DEF QInv

LEMMA ServeQueues == ASSUME QInv, Serve PROVE QInv'
<1>1. Typed /\ line # <<>> /\ UNCHANGED <<plan, met>>
  BY DEF QInv, Serve, AnswerCommand, AnswerQuery, QueryTimesOut, RefuseLine
<1>2. /\ DOMAIN reg' = DOMAIN reg /\ DOMAIN seen' = Callers /\ DOMAIN reached' = Callers
      /\ timeouts' \in Nat /\ lost' \in BOOLEAN /\ (Quiet' => Quiet)
  BY DEF QInv, Typed, Serve, AnswerCommand, AnswerQuery, QueryTimesOut, RefuseLine, GoneThrough, Quiet
<1>3. \/ \E s : Resume(s)
      \/ Awaited /\ Abandon(Owner, Tail(line)) /\ ~Quiet'
  <2>1. CASE AnswerCommand
    BY <2>1 DEF AnswerCommand
  <2>2. CASE AnswerQuery
    BY <2>2 DEF AnswerQuery
  <2>3. CASE QueryTimesOut \/ RefuseLine
    <3>1. FailLine /\ ~Quiet'
      BY <1>1, <2>3 DEF QueryTimesOut, RefuseLine, Typed, Quiet
    <3> QED
      BY <3>1 DEF FailLine
  <2> QED
    BY <2>1, <2>2, <2>3 DEF Serve
<1>4. /\ Batched(line)' /\ Waits' /\ NobodyStranded'
      /\ at' \in [Callers -> Nat]
      /\ status' \in [Callers -> {"idle", "running", "ok", "refused", "failed"}]
      /\ DOMAIN field' = DOMAIN field
      /\ \A d \in Callers : status'[d] = "running" => status[d] = "running"
  BY <1>1, <1>2, <1>3, ResumeKeeps, AbandonKeeps
<1>5. Typed'
  BY <1>1, <1>2, <1>4, TypedKept DEF Typed
<1>6. Meets'
  BY <1>1, <1>4, MeetsKept DEF QInv
<1> QED
  BY <1>4, <1>5, <1>6 DEF QInv

\* A state that agrees in everything that QInv speaks of.
LEMMA QueuesElsewhere ==
  ASSUME QInv, UNCHANGED <<plan, at, line, reg, field, status, seen, reached, met, timeouts>>,
         lost' \in BOOLEAN, lost => lost'
  PROVE  QInv'
<1>1. Typed' /\ Batched(line)'
  BY TypedKept, BatchedKept DEF QInv, Typed
<1>2. Waits'
  BY DEF QInv, Waits, Quiet, Typed
<1>3. NobodyStranded' /\ Meets'
  BY DEF QInv, NobodyStranded, Meets, Running
<1> QED
  BY <1>1, <1>2, <1>3 DEF QInv
-----------------------------------------------------------------------------
(* What has been read is kept *)

\* What a step is about is among the registers of its script.
LEMMA StepRegisters ==
  ASSUME Typed, NEW c \in Callers, NEW i \in 1..Length(c), StepOf(c, i).do \in {"put", "putback", "get"}
  PROVE  /\ StepOf(c, i).via \subseteq DOMAIN reg
         /\ StepOf(c, i).do = "get" =>
              Range(StepOf(c, i).on) \subseteq Reads(plan[c]) /\ Range(StepOf(c, i).on) \subseteq DOMAIN reg
         /\ StepOf(c, i).do # "get" => Range(StepOf(c, i).on) \subseteq Sets(plan[c])
<1>1. i \in DOMAIN plan[c].steps /\ DOMAIN reg = Registers(plan)
  BY DEF Typed, Scripted
<1>2. \A kinds : StepOf(c, i).do \in kinds => StepOf(c, i) \in StepsOf(plan[c], kinds)
  BY <1>1 DEF StepsOf, StepOf
<1>3. StepOf(c, i).via \subseteq Selectors(plan[c])
  BY <1>2 DEF Selectors
<1>4. StepOf(c, i).do = "get" => Range(StepOf(c, i).on) \subseteq Reads(plan[c])
  BY <1>2 DEF Reads
<1>5. StepOf(c, i).do # "get" => Range(StepOf(c, i).on) \subseteq Sets(plan[c])
  BY <1>2 DEF Sets
<1>6. Selectors(plan[c]) \subseteq Registers(plan) /\ Reads(plan[c]) \subseteq Registers(plan)
  BY DEF Registers
<1> QED
  BY <1>1, <1>3, <1>4, <1>5, <1>6

\* Going on to the next stop, a call passes no query.
LEMMA NoQuerySkipped ==
  ASSUME Typed, NEW c \in Callers, NEW i \in Nat \ {0}, i <= Length(c) + 1,
         NEW k \in i..(NextStop(c, i) - 1), k \in 1..Length(c)
  PROVE  StepOf(c, k).do # "get"
<1>1. Length(c) \in Nat
  BY DEF Typed, Scripted
<1>2. ~GoesOut(c, k)
  BY <1>1, NextStopIsFirst
<1>3. StepOf(c, k).do = "get" => StepOf(c, k).unless \notin DOMAIN field
  BY DEF Typed, Scripted
<1> QED
  BY <1>2, <1>3 DEF GoesOut

\* A running caller has a line in the queue, so that there is a front.
LEMMA RunningHasFront == ASSUME QInv, NEW c \in Running PROVE Len(line) \in Nat \ {0}
<1>1. PICK n \in DOMAIN line : line[n].by = c
  BY DEF QInv, NobodyStranded
<1>2. Len(line) \in Nat /\ DOMAIN line = 1..Len(line)
  BY LenProperties DEF QInv, Batched
<1> QED
  BY <1>1, <1>2

LEMMA InitReads == Init => RInv
<1> SUFFICES ASSUME Init PROVE RInv
  OBVIOUS
<1>1. Fresh
  BY InitQueues
<1>2. /\ Len(line) = 0 /\ Running = {} /\ reached = [c \in Callers |-> {}]
      /\ seen = [c \in Callers |-> <<>>] /\ at = [c \in Callers |-> 0] /\ DOMAIN <<>> = {}
  BY DEF Init, Running
<1>3. Named
  BY <1>2 DEF Named
<1>4. HalfRead /\ Alone /\ InOneGo /\ LabelledReads
  BY <1>2 DEF HalfRead, Alone, InOneGo, LabelledReads
<1>5. Asked
  <2> SUFFICES ASSUME NEW c \in Callers, NEW i \in 1..Length(c), i < at[c] PROVE FALSE
    BY DEF Asked
  <2> QED
    BY <1>2
<1> QED
  BY <1>1, <1>3, <1>4, <1>5 DEF RInv

LEMMA StartReads == ASSUME QInv, RInv, NEW c \in Callers, Start(c) PROVE RInv'
<1>1. /\ status[c] = "idle" /\ Continue(c, 1, line, seen[c]) /\ Batched(line) /\ Typed /\ Waits
      /\ met' = [d \in Callers |->
           IF d = c THEN Running ELSE IF d \in Running THEN met[d] \union {c} ELSE met[d]]
      /\ UNCHANGED <<plan, reg, seen, reached, lost, timeouts>>
      /\ at \in [Callers -> Nat] /\ Length(c) \in Nat /\ plan[c].end \in {"ok", "refused"}
      /\ status \in [Callers -> {"idle", "running", "ok", "refused", "failed"}]
  BY DEF Start, QInv, Typed, Scripted
<1>2. /\ Len(line) \in Nat /\ \A n \in 1..Len(line) : line[n].by # c
      /\ reached[c] = {} /\ seen[c] = <<>> /\ DOMAIN seen[c] = {} /\ DOMAIN met = Callers
  BY <1>1, LenProperties DEF Waits, Batched, RInv, Fresh, Typed
<1>3. 1 \in Nat \ {0} /\ 1 <= Length(c) + 1 /\ (Quiet' <=> Quiet)
  BY <1>1 DEF Quiet
<1> DEFINE j == NextStop(c, 1)
<1>4. /\ at' = [at EXCEPT ![c] = j] /\ j \in 1..(Length(c) + 1)
      /\ status' = [status EXCEPT ![c] = IF j > Length(c) THEN plan[c].end ELSE "running"]
      /\ Batched(line') /\ Len(line') >= Len(line)
      /\ \A n \in 1..Len(line) : line'[n] = line[n]
      /\ \A n \in 1..Len(line') : n > Len(line) => line'[n].pos = n - Len(line)
  <2>1. /\ Typed /\ 1 \in Nat \ {0} /\ 1 <= Length(c) + 1 /\ Batched(line)
        /\ \A n \in 1..Len(line) : line[n].by # c
        /\ Continue(c, 1, line, seen[c])
    BY <1>1, <1>2, <1>3
  <2> QED
    BY <2>1, ContinueQueues
<1>5. ASSUME NEW k \in 1..Length(c), k < j PROVE StepOf(c, k).do # "get"
  BY <1>1, <1>3, <1>4, <1>5, NoQuerySkipped
<1> HIDE DEF j
<1>6. /\ \A d \in Callers : d # c => status'[d] = status[d] /\ at'[d] = at[d]
      /\ at'[c] = j /\ status'[c] # "idle"
      /\ \A d \in Callers : d \notin Running /\ d # c => met'[d] = met[d]
      /\ \A d \in Running : d # c => met'[d] # {}
      /\ \A d \in Running' : d = c \/ d \in Running
  BY <1>1, <1>4 DEF Running
<1>7. Fresh' /\ Named'
  BY <1>1, <1>6 DEF RInv, Fresh, Named, Running
<1>8. \/ Len(line') = 0
      \/ Len(line) > 0 /\ line'[1] = line[1]
      \/ line'[1].pos = 1
  <2>1. Len(line') \in Nat
    BY <1>4, LenProperties DEF Batched
  <2>2. CASE Len(line) > 0
    BY <1>2, <1>4, <2>2
  <2>3. CASE Len(line) = 0 /\ Len(line') > 0
    BY <1>4, <2>1, <2>3
  <2> QED
    BY <1>2, <2>1, <2>2, <2>3
<1>9. HalfRead'
  <2>1. CASE Len(line') = 0
    BY <2>1 DEF HalfRead
  <2>2. CASE Len(line) > 0 /\ line'[1] = line[1]
    BY <1>1, <1>3, <2>2 DEF RInv, HalfRead, StepOf
  <2>3. CASE line'[1].pos = 1
    BY <2>3 DEF HalfRead
  <2> QED
    BY <1>8, <2>1, <2>2, <2>3
<1>10. Asked'
  <2> SUFFICES ASSUME Quiet, NEW d \in Callers, NEW i \in 1..Length(d), i < at'[d], StepOf(d, i).do = "get"
               PROVE  Range(StepOf(d, i).on) \subseteq DOMAIN seen[d]
    BY <1>1, <1>3 DEF Asked, Length, StepOf
  <2>1. d # c
    BY <1>5, <1>6
  <2> QED
    BY <1>6, <2>1 DEF RInv, Asked
<1>11. Alone'
  <2> SUFFICES ASSUME Quiet, NEW d \in Running', met'[d] = {}
               PROVE  /\ \A x \in reached[d] : x[1] \notin Sets(plan[d]) => x[2] = reg[x[1]]
                      /\ \A r \in DOMAIN seen[d] \ Sets(plan[d]) : seen[d][r] = reg[r]
    BY <1>1, <1>3 DEF Alone
  <2>1. d = c
    BY <1>6
  <2> QED
    BY <1>2, <2>1
<1>12. InOneGo'
  <2> SUFFICES ASSUME Quiet, NEW d \in Running', Length(d) = 1, StepOf(d, 1).do = "get", reached[d] # {}
               PROVE  line'[1].by = d /\ line'[1].pos > 1 /\ \A x \in reached[d] : x[2] = reg[x[1]]
    BY <1>1, <1>3 DEF InOneGo, Length, StepOf
  <2>1. d \in Running
    BY <1>2, <1>6
  <2>2. line[1].by = d /\ line[1].pos > 1 /\ \A x \in reached[d] : x[2] = reg[x[1]]
    BY <2>1 DEF RInv, InOneGo
  <2>3. 1 \in 1..Len(line)
    BY <2>1, RunningHasFront
  <2> QED
    BY <1>4, <2>2, <2>3
<1>13. LabelledReads'
  <2> SUFFICES ASSUME NEW d \in Callers, NEW x \in reached[d], status'[d] = "ok", timeouts = 0, ~lost,
                      x[1] \in Reads(plan[d]) \ Sets(plan[d]), met'[d] = {} \/ Length(d) = 1
               PROVE  x[2] = seen[d][x[1]]
    BY <1>1 DEF LabelledReads, Length
  <2>1. d # c
    BY <1>2
  <2>2. status[d] = "ok" /\ met'[d] = met[d]
    BY <1>6, <2>1 DEF Running
  <2> QED
    BY <2>2 DEF RInv, LabelledReads
<1> QED
  BY <1>7, <1>9, <1>10, <1>11, <1>12, <1>13 DEF RInv

\* When something has failed nothing is promised of readings any more.
LEMMA FailedReads == ASSUME ~Quiet', Fresh', Named' PROVE RInv'
<1>1. LabelledReads'
  BY DEF Quiet, LabelledReads
<1> QED
  BY <1>1 DEF RInv, HalfRead, Asked, Alone, InOneGo

\* What an answer finds, when nothing has failed: the front line is what its caller
\* waits for, and its batch has one line behind another.
LEMMA AnswerFinds ==
  ASSUME QInv, line # <<>>
  PROVE  /\ Owner \in Callers /\ Front = line[1] /\ Owner = line[1].by /\ Len(line) \in Nat \ {0}
         /\ Front.step \in 1..Length(Owner) /\ Length(Owner) \in Nat
         /\ Current.do \in {"put", "putback", "get"}
         /\ Front.pos \in 1..Width(Owner, Front.step) /\ Width(Owner, Front.step) \in Nat
         /\ Current.do = "get" => DOMAIN Current.on = 1..Width(Owner, Front.step)
         /\ Quiet => Awaited /\ at[Owner] = Front.step /\ Owner \in Running
         /\ Awaited /\ LastOfStep => Front.pos = Width(Owner, Front.step)
         /\ Awaited /\ ~LastOfStep =>
              Len(line) > 1 /\ Follows(line[1], line[2]) /\ Current.do = "get"
<1>1. /\ Owner \in Callers /\ Front = line[1] /\ Fits(Front) /\ Front.pos \in Nat \ {0}
      /\ status[Owner] = "running" => Awaited
      /\ Len(line) \in Nat \ {0} /\ Batched(Tail(line)) /\ Len(Tail(line)) = Len(line) - 1
      /\ \A n \in 1..Len(Tail(line)) : Tail(line)[n] = line[n + 1]
      /\ DOMAIN Tail(line) = 1..Len(Tail(line))
      /\ Typed /\ Batched(line) /\ Waits
  BY FrontGoes DEF QInv
<1>2. /\ Owner = line[1].by /\ Front.step \in 1..Length(Owner)
      /\ Current.do \in {"put", "putback", "get"} /\ Front.pos \in 1..Width(Owner, Front.step)
  BY <1>1 DEF Fits, Owner, Current
<1>3. /\ Length(Owner) \in Nat /\ Width(Owner, Front.step) \in Nat
      /\ Current.do = "get" => DOMAIN Current.on = 1..Width(Owner, Front.step)
  BY <1>1, <1>2 DEF Typed, Scripted, Current
<1>4. Quiet => status[Owner] = "running"
  BY <1>1, <1>2 DEF Waits
<1>5. 1 \in 1..Len(line)
  BY <1>1
<1>6. ASSUME Awaited, LastOfStep PROVE Front.pos = Width(Owner, Front.step)
  <2> SUFFICES ASSUME Front.pos < Width(Owner, Front.step) PROVE FALSE
    BY <1>1, <1>2, <1>3
  <2>1. 1 + 1 <= Len(line) /\ Follows(line[1], line[1 + 1])
    BY <1>1, <1>2, <1>5 DEF Batched
  <2>2. 1 \in 1..Len(Tail(line)) /\ Tail(line)[1] = line[1 + 1]
    BY <1>1, <2>1
  <2> QED
    BY <1>1, <1>2, <1>6, <2>1, <2>2 DEF LastOfStep, Follows
<1>7. ASSUME Awaited, ~LastOfStep
      PROVE  Len(line) > 1 /\ Follows(line[1], line[2]) /\ Current.do = "get"
  <2>1. PICK k \in 1..Len(Tail(line)) : Tail(line)[k].by = Owner
    BY <1>1, <1>7 DEF LastOfStep
  <2>2. k + 1 \in 1..Len(line) /\ line[k + 1].by = Owner
    BY <1>1, <2>1
  <2>3. line[k + 1].step = Front.step
    BY <1>1, <1>2, <1>7, <2>2 DEF Waits, Awaited
  <2>4. line[k + 1].pos - Front.pos = (k + 1) - 1
    BY <1>1, <1>2, <1>5, <2>2, <2>3 DEF Batched
  <2>5. line[k + 1].pos \in Nat /\ line[k + 1].pos \in 1..Width(Owner, Front.step)
    BY <1>1, <2>2, <2>3, LineTyped DEF Batched, Fits
  <2>6. Front.pos < Width(Owner, Front.step)
    BY <1>1, <1>3, <2>1, <2>4, <2>5
  <2>7. 1 + 1 <= Len(line) /\ Follows(line[1], line[1 + 1])
    BY <1>1, <1>2, <1>5, <2>6 DEF Batched
  <2>8. Width(Owner, Front.step) # 1
    BY <1>1, <2>6
  <2> QED
    BY <1>1, <1>2, <2>7, <2>8 DEF Width, Current
<1> QED
  BY <1>1, <1>2, <1>3, <1>4, <1>6, <1>7 DEF Awaited, Running

\* The turn after an answer.
LEMMA ResumeElsewhere ==
  ASSUME QInv, line # <<>>, Awaited, NEW s, Resume(s)
  PROVE  /\ \A d \in Callers : d # Owner => status'[d] = status[d] /\ at'[d] = at[d]
         /\ status'[Owner] # "idle"
         /\ LastOfStep =>
              /\ at'[Owner] = NextStop(Owner, Front.step + 1)
              /\ at'[Owner] \in (Front.step + 1)..(Length(Owner) + 1)
              /\ status'[Owner] = "running" <=> at'[Owner] <= Length(Owner)
              /\ Len(line') = 0 \/ line'[1].pos \in {0, 1}
         /\ ~LastOfStep => line' = Tail(line) /\ at' = at /\ status' = status
<1>1. /\ Owner \in Callers /\ Front = line[1] /\ Owner = line[1].by /\ Len(line) \in Nat \ {0}
      /\ Front.step \in 1..Length(Owner) /\ Length(Owner) \in Nat
      /\ Batched(Tail(line)) /\ Len(Tail(line)) = Len(line) - 1
      /\ \A n \in 1..Len(Tail(line)) : Tail(line)[n] = line[n + 1]
      /\ DOMAIN Tail(line) = 1..Len(Tail(line))
      /\ status[Owner] # "idle" /\ Batched(line)
  BY AnswerFinds, FrontGoes DEF QInv
<1>2. /\ at \in [Callers -> Nat] /\ plan[Owner].end \in {"ok", "refused"}
      /\ status \in [Callers -> {"idle", "running", "ok", "refused", "failed"}]
      /\ Typed
  BY <1>1 DEF QInv, Typed, Scripted
<1>3. CASE LastOfStep
  <2> DEFINE q == Tail(line)
             i == Front.step + 1
  <2>1. Continue(Owner, i, q, s)
    BY <1>3 DEF Resume
  <2>2. i \in Nat \ {0} /\ i <= Length(Owner) + 1 /\ Batched(q)
    BY <1>1
  <2>3. \A n \in 1..Len(q) : q[n].by # Owner
    BY <1>1, <1>3 DEF LastOfStep
  <2>4. /\ at' = [at EXCEPT ![Owner] = NextStop(Owner, i)] /\ NextStop(Owner, i) \in i..(Length(Owner) + 1)
        /\ status' = [status EXCEPT ![Owner] = IF NextStop(Owner, i) > Length(Owner) THEN plan[Owner].end ELSE "running"]
        /\ Batched(line') /\ Len(line') >= Len(q)
        /\ \A n \in 1..Len(q) : line'[n] = q[n]
        /\ \A n \in 1..Len(line') : n > Len(q) => line'[n].pos = n - Len(q)
    <3> HIDE DEF q, i
    <3>1. /\ Typed /\ Owner \in Callers /\ i \in Nat \ {0} /\ i <= Length(Owner) + 1 /\ Batched(q)
          /\ \A n \in 1..Len(q) : q[n].by # Owner
          /\ Continue(Owner, i, q, s)
      BY <1>1, <1>2, <2>1, <2>2, <2>3
    <3> QED
      BY <3>1, ContinueQueues
  <2>5. Len(q) \in Nat /\ Len(line') \in Nat
    BY <2>2, <2>4, LenProperties DEF Batched
  <2>6. Len(line') = 0 \/ line'[1].pos \in {0, 1}
    <3>1. ASSUME Len(q) = 0, Len(line') > 0 PROVE line'[1].pos = 1
      <4> HIDE DEF q
      <4>1. 1 \in 1..Len(line') /\ 1 > Len(q) /\ 1 - Len(q) = 1
        BY <2>5, <3>1
      <4> QED
        BY <2>4, <4>1
    <3>2. ASSUME Len(q) > 0 PROVE line'[1].pos \in {0, 1}
      <4>1. 1 \in 1..Len(q) /\ q[1] = line[1 + 1] /\ 1 + 1 \in 1..Len(line)
        BY <1>1, <3>2
      <4>2. line[1 + 1].pos \in Nat /\ line[1 + 1].by # line[1].by
        BY <1>1, <2>3, <4>1, LineTyped
      <4>3. ~(line[1 + 1].pos > 1)
        <5>1. line[1 + 1].pos > 1 => Follows(line[(1 + 1) - 1], line[1 + 1])
          BY <1>1, <4>1 DEF Batched
        <5> QED
          BY <4>2, <5>1 DEF Follows
      <4>4. line'[1] = line[1 + 1]
        BY <2>4, <4>1
      <4> QED
        BY <4>2, <4>3, <4>4
    <3> HIDE DEF q
    <3> QED
      BY <2>5, <3>1, <3>2
  <2> HIDE DEF q
  <2>7. status'[Owner] = "running" <=> at'[Owner] <= Length(Owner)
    BY <1>1, <1>2, <2>4
  <2> QED
    BY <1>1, <1>2, <1>3, <2>4, <2>6, <2>7
<1>4. CASE ~LastOfStep
  BY <1>1, <1>4 DEF Resume
<1> QED
  BY <1>3, <1>4

\* What an answer tells: a command changes what its call sets, a query is heard.
LEMMA AnswerTells ==
  ASSUME QInv, Named, AnswerCommand \/ AnswerQuery
  PROVE  /\ line # <<>> /\ UNCHANGED <<plan, met, timeouts, lost>> /\ \E s : Resume(s)
         /\ DOMAIN reg' = DOMAIN reg
         /\ \A d \in Callers : d # Owner => seen'[d] = seen[d] /\ reached'[d] = reached[d]
         /\ \A r \in DOMAIN reg : r \notin Sets(plan[Owner]) => reg'[r] = reg[r]
         /\ DOMAIN seen[Owner] \subseteq DOMAIN seen'[Owner] /\ DOMAIN seen'[Owner] \subseteq DOMAIN reg
         /\ \A r \in DOMAIN seen'[Owner] :
              \/ r \in DOMAIN seen[Owner] /\ seen'[Owner][r] = seen[Owner][r]
              \/ Current.do = "get" /\ seen'[Owner][r] = reg[r]
         /\ \A x \in reached'[Owner] : x \in reached[Owner] \/ (x[1] \in DOMAIN reg /\ x[2] = reg[x[1]])
         /\ Current.do = "get" =>
              /\ AnswerQuery /\ reg' = reg
              /\ Register \in DOMAIN seen'[Owner] /\ seen'[Owner][Register] = reg[Register]
<1>1. line # <<>> /\ UNCHANGED <<plan, met, timeouts, lost>> /\ GoneThrough /\ \E s : Resume(s)
  BY DEF AnswerCommand, AnswerQuery
<1>2. /\ Owner \in Callers /\ Front.step \in 1..Length(Owner) /\ Current = StepOf(Owner, Front.step)
      /\ Current.do \in {"put", "putback", "get"} /\ Typed
      /\ Front.pos \in 1..Width(Owner, Front.step)
      /\ Current.do = "get" => DOMAIN Current.on = 1..Width(Owner, Front.step)
      /\ DOMAIN seen = Callers /\ DOMAIN reached = Callers
  BY <1>1, AnswerFinds DEF QInv, Current, Typed
<1>3. /\ Current.via \subseteq DOMAIN reg
      /\ Current.do = "get" => Range(Current.on) \subseteq DOMAIN reg
      /\ Current.do # "get" => Range(Current.on) \subseteq Sets(plan[Owner])
  BY <1>2, StepRegisters
<1>4. /\ \A d \in Callers : d # Owner => reached'[d] = reached[d]
      /\ reached'[Owner] = reached[Owner] \union {<<r, reg[r]>> : r \in Current.via}
  BY <1>1, <1>2 DEF GoneThrough
<1>5. ASSUME NEW x \in reached'[Owner], x \notin reached[Owner] PROVE x[1] \in DOMAIN reg /\ x[2] = reg[x[1]]
  BY <1>3, <1>4, <1>5
<1>6. DOMAIN seen[Owner] \subseteq DOMAIN reg
  BY <1>2 DEF Named
<1>7. CASE AnswerCommand
  <2>1. Current.do # "get" /\ UNCHANGED seen /\ DOMAIN reg' = DOMAIN reg
    BY <1>7 DEF AnswerCommand
  <2>2. ASSUME NEW r \in DOMAIN reg, r \notin Sets(plan[Owner]) PROVE reg'[r] = reg[r]
    BY <1>3, <1>7, <2>1, <2>2 DEF AnswerCommand
  <2> QED
    BY <1>1, <1>4, <1>5, <1>6, <2>1, <2>2
<1>8. CASE AnswerQuery
  <2>1. Current.do = "get" /\ UNCHANGED reg /\ seen' = [seen EXCEPT ![Owner] = Heard]
    BY <1>8 DEF AnswerQuery
  <2>2. Register \in Range(Current.on)
    BY <1>2, <2>1 DEF Register, Range
  <2>3. /\ seen'[Owner] = Heard /\ \A d \in Callers : d # Owner => seen'[d] = seen[d]
    BY <1>2, <2>1
  <2>4. /\ DOMAIN Heard = DOMAIN seen[Owner] \union {Register} /\ Heard[Register] = reg[Register]
        /\ \A r \in DOMAIN seen[Owner] : r # Register => Heard[r] = seen[Owner][r]
    BY DEF Heard
  <2> QED
    BY <1>1, <1>3, <1>4, <1>5, <1>6, <1>8, <2>1, <2>2, <2>3, <2>4
<1> QED
  BY <1>7, <1>8

LEMMA AnswerReads ==
  ASSUME QInv, RInv, AnswerCommand \/ AnswerQuery, NEW c, c = Owner, NEW i, i = Front.step
  PROVE  RInv'
<1>1. /\ line # <<>> /\ UNCHANGED <<plan, met, timeouts, lost>> /\ \E s : Resume(s)
      /\ DOMAIN reg' = DOMAIN reg
      /\ \A d \in Callers : d # c => seen'[d] = seen[d] /\ reached'[d] = reached[d]
      /\ \A r \in DOMAIN reg : r \notin Sets(plan[c]) => reg'[r] = reg[r]
      /\ DOMAIN seen[c] \subseteq DOMAIN seen'[c] /\ DOMAIN seen'[c] \subseteq DOMAIN reg
      /\ \A r \in DOMAIN seen'[c] :
           \/ r \in DOMAIN seen[c] /\ seen'[c][r] = seen[c][r]
           \/ Current.do = "get" /\ seen'[c][r] = reg[r]
      /\ \A x \in reached'[c] : x \in reached[c] \/ (x[1] \in DOMAIN reg /\ x[2] = reg[x[1]])
      /\ Current.do = "get" =>
           /\ AnswerQuery /\ reg' = reg
           /\ Register \in DOMAIN seen'[c] /\ seen'[c][Register] = reg[Register]
  BY AnswerTells DEF RInv
<1>2. /\ c \in Callers /\ Front = line[1] /\ c = line[1].by /\ Len(line) \in Nat \ {0}
      /\ i \in 1..Length(c) /\ Length(c) \in Nat
      /\ Current.do \in {"put", "putback", "get"}
      /\ Front.pos \in 1..Width(c, i) /\ Width(c, i) \in Nat
      /\ Current.do = "get" => DOMAIN Current.on = 1..Width(c, i)
      /\ Quiet => Awaited /\ at[c] = i /\ c \in Running
      /\ Awaited /\ LastOfStep => Front.pos = Width(c, i)
      /\ Awaited /\ ~LastOfStep =>
           Len(line) > 1 /\ Follows(line[1], line[2]) /\ Current.do = "get"
      /\ Current = StepOf(c, i)
  BY <1>1, AnswerFinds DEF Current
<1>3. /\ Batched(Tail(line)) /\ Len(Tail(line)) = Len(line) - 1 /\ status[c] # "idle"
      /\ \A n \in 1..Len(Tail(line)) : Tail(line)[n] = line[n + 1]
      /\ Typed
  BY <1>1, FrontGoes DEF QInv
<1>4. /\ \A d \in Callers : d # c => status'[d] = status[d] /\ at'[d] = at[d]
      /\ status'[c] # "idle"
  <2>1. CASE Awaited
    BY <1>1, <2>1, ResumeElsewhere
  <2>2. CASE ~Awaited
    BY <1>1, <1>3, <2>2 DEF Resume
  <2> QED
    BY <2>1, <2>2
<1>5. Fresh'
  BY <1>1, <1>2, <1>4 DEF RInv, Fresh
<1>6. Named'
  <2> SUFFICES ASSUME NEW d \in Callers
               PROVE  DOMAIN seen'[d] \subseteq DOMAIN reg /\ \A x \in reached'[d] : x[1] \in DOMAIN reg
    BY <1>1 DEF Named
  <2>1. DOMAIN seen[d] \subseteq DOMAIN reg /\ \A x \in reached[d] : x[1] \in DOMAIN reg
    BY DEF RInv, Named
  <2> QED
    BY <1>1, <2>1
<1>7. CASE ~Quiet
  <2>1. ~Quiet'
    BY <1>1, <1>7 DEF Quiet
  <2> QED
    BY <1>5, <1>6, <2>1, FailedReads
<1>8. CASE Quiet
  <2>1. Awaited /\ at[c] = i /\ c \in Running /\ Quiet'
    BY <1>1, <1>2, <1>8 DEF Quiet
  <2>2. /\ LastOfStep =>
             /\ at'[c] = NextStop(c, i + 1) /\ at'[c] \in (i + 1)..(Length(c) + 1)
             /\ status'[c] = "running" <=> at'[c] <= Length(c)
             /\ Len(line') = 0 \/ line'[1].pos \in {0, 1}
        /\ ~LastOfStep => line' = Tail(line) /\ at' = at /\ status' = status
    BY <1>1, <2>1, ResumeElsewhere
  <2>3. \A d \in Running' : d \in Running
    BY <1>4, <2>1 DEF Running
  \* What the batch in front has read by now.
  <2>4. ASSUME Current.do = "get", NEW k \in 1..Front.pos
        PROVE  Current.on[k] \in DOMAIN seen'[c] /\ seen'[c][Current.on[k]] = reg[Current.on[k]]
    <3>1. CASE k = Front.pos
      BY <1>1, <2>4, <3>1 DEF Register
    <3>2. CASE k # Front.pos
      <4>1. k \in 1..(Front.pos - 1)
        BY <1>2, <3>2
      <4>2. Current.on[k] \in DOMAIN seen[c] /\ seen[c][Current.on[k]] = reg[Current.on[k]]
        BY <1>2, <1>8, <2>4, <4>1 DEF RInv, HalfRead
      <4> QED
        BY <1>1, <4>2
    <3> QED
      BY <3>1, <3>2
  <2>5. HalfRead'
    <3>1. CASE LastOfStep
      <4>1. Len(line') > 0 => line'[1].pos \in {0, 1}
        BY <2>2, <3>1
      <4>2. Len(line') > 0 => 1..(line'[1].pos - 1) = {}
        BY <4>1
      <4> QED
        BY <4>2 DEF HalfRead
    <3>2. CASE ~LastOfStep
      <4>1. 1 \in 1..Len(Tail(line)) /\ line' = Tail(line) /\ Current.do = "get" /\ Follows(line[1], line[2])
        BY <1>2, <1>3, <2>1, <2>2, <3>2
      <4>2. line'[1] = line[2]
        BY <1>3, <4>1
      <4>3. line'[1].by = c /\ line'[1].step = i /\ line'[1].pos = Front.pos + 1
        BY <1>2, <4>1, <4>2 DEF Follows
      <4>4. plan'[c].steps[i] = Current /\ reg' = reg
        BY <1>1, <1>2, <4>1 DEF StepOf
      <4>5. (line'[1].pos) - 1 = Front.pos
        BY <1>2, <4>3
      <4> QED
        BY <2>4, <4>1, <4>3, <4>4, <4>5 DEF HalfRead, StepOf
    <3> QED
      BY <3>1, <3>2
  <2>6. Asked'
    <3> SUFFICES ASSUME NEW d \in Callers, NEW k \in 1..Length(d), k < at'[d], StepOf(d, k).do = "get"
                 PROVE  Range(StepOf(d, k).on) \subseteq DOMAIN seen'[d]
      BY <1>1 DEF Asked, Length, StepOf
    <3>1. k < at[d] => Range(StepOf(d, k).on) \subseteq DOMAIN seen[d]
      BY <1>8 DEF RInv, Asked
    <3>2. CASE d # c \/ ~LastOfStep \/ k < i
      <4>1. k < at[d]
        BY <1>4, <2>1, <2>2, <3>2
      <4> QED
        BY <1>1, <3>1, <4>1
    <3>3. CASE d = c /\ LastOfStep /\ k = i
      <4>1. Current.do = "get" /\ Front.pos = Width(c, i) /\ Current = StepOf(d, k)
        BY <1>2, <2>1, <3>3
      <4>2. \A n \in DOMAIN Current.on : Current.on[n] \in DOMAIN seen'[c]
        BY <1>2, <2>4, <4>1
      <4> QED
        BY <3>3, <4>1, <4>2 DEF Range
    <3>4. CASE d = c /\ LastOfStep /\ k > i
      <4>1. /\ i + 1 \in Nat \ {0} /\ i + 1 <= Length(c) + 1 /\ k \in (i + 1)..(NextStop(c, i + 1) - 1)
            /\ k \in 1..Length(c)
        BY <1>2, <2>2, <3>4
      <4>2. StepOf(c, k).do # "get"
        BY <1>2, <1>3, <4>1, NoQuerySkipped
      <4> QED
        BY <3>4, <4>2
    <3> QED
      BY <1>2, <3>2, <3>3, <3>4
  \* A call that met nobody finds everything that it did not set as it was.
  <2>7. ASSUME met[c] = {}
        PROVE  /\ \A x \in reached'[c] : x[1] \notin Sets(plan[c]) => x[2] = reg'[x[1]]
               /\ \A r \in DOMAIN seen'[c] \ Sets(plan[c]) : seen'[c][r] = reg'[r]
    <3>1. /\ \A x \in reached[c] : x[1] \notin Sets(plan[c]) => x[2] = reg[x[1]]
          /\ \A r \in DOMAIN seen[c] \ Sets(plan[c]) : seen[c][r] = reg[r]
      BY <1>8, <2>1, <2>7 DEF RInv, Alone
    <3>2. \A x \in reached[c] : x[1] \in DOMAIN reg
      BY <1>2 DEF RInv, Named
    <3>3. ASSUME NEW x \in reached'[c], x[1] \notin Sets(plan[c]) PROVE x[2] = reg'[x[1]]
      <4>1. x[1] \in DOMAIN reg /\ x[2] = reg[x[1]]
        BY <1>1, <3>1, <3>2, <3>3
      <4> QED
        BY <1>1, <3>3, <4>1
    <3>4. ASSUME NEW r \in DOMAIN seen'[c] \ Sets(plan[c]) PROVE seen'[c][r] = reg'[r]
      <4>1. r \in DOMAIN reg /\ seen'[c][r] = reg[r]
        BY <1>1, <3>1
      <4> QED
        BY <1>1, <4>1
    <3> QED
      BY <3>3, <3>4
  <2>8. Alone'
    <3> SUFFICES ASSUME NEW d \in Running', met[d] = {}
                 PROVE  /\ \A x \in reached'[d] : x[1] \notin Sets(plan[d]) => x[2] = reg'[x[1]]
                        /\ \A r \in DOMAIN seen'[d] \ Sets(plan[d]) : seen'[d][r] = reg'[r]
      BY <1>1 DEF Alone
    <3>1. d \in Running
      BY <2>3
    <3>2. d = c
      BY <2>1, <3>1 DEF QInv, Meets
    <3> QED
      BY <2>7, <3>2
  \* A call of one batch that reads leaves the instrument as it is.
  <2>9. ASSUME Length(c) = 1, StepOf(c, 1).do = "get"
        PROVE  /\ i = 1 /\ Current.do = "get" /\ reg' = reg
               /\ \A x \in reached'[c] : x[2] = reg[x[1]]
    <3>1. i = 1 /\ Current.do = "get"
      BY <1>2, <2>9
    <3>2. \A x \in reached[c] : x[2] = reg[x[1]]
      BY <1>8, <2>1, <2>9 DEF RInv, InOneGo
    <3> QED
      BY <1>1, <3>1, <3>2
  <2>10. InOneGo'
    <3> SUFFICES ASSUME NEW d \in Running', Length(d) = 1, StepOf(d, 1).do = "get", reached'[d] # {}
                 PROVE  line'[1].by = d /\ line'[1].pos > 1 /\ \A x \in reached'[d] : x[2] = reg'[x[1]]
      BY <1>1 DEF InOneGo, Length, StepOf
    <3>1. d \in Running /\ d \in Callers /\ status'[d] = "running"
      BY <2>3 DEF Running
    <3>2. d = c
      <4>1. d # c => line[1].by = d
        BY <1>1, <1>8, <3>1 DEF RInv, InOneGo
      <4> QED
        BY <1>2, <4>1
    <3>3. /\ i = 1 /\ Current.do = "get" /\ reg' = reg
          /\ \A x \in reached'[d] : x[2] = reg[x[1]]
      BY <2>9, <3>2
    <3>4. ~LastOfStep
      BY <2>2, <3>1, <3>2, <3>3
    <3>5. 1 \in 1..Len(Tail(line)) /\ line' = Tail(line) /\ Follows(line[1], line[2])
      BY <1>2, <1>3, <2>1, <2>2, <3>4
    <3>6. line'[1] = line[2]
      BY <1>3, <3>5
    <3>7. line'[1].by = c /\ line'[1].pos = Front.pos + 1 /\ Front.pos \in Nat \ {0}
      BY <1>2, <3>5, <3>6 DEF Follows
    <3> QED
      BY <3>2, <3>3, <3>7
  <2>11. LabelledReads'
    <3> SUFFICES ASSUME NEW d \in Callers, NEW x \in reached'[d], status'[d] = "ok",
                        x[1] \in Reads(plan[d]) \ Sets(plan[d]), met[d] = {} \/ Length(d) = 1
                 PROVE  x[2] = seen'[d][x[1]]
      BY <1>1 DEF LabelledReads, Length
    <3>1. CASE d # c
      <4>1. status[d] = "ok" /\ seen'[d] = seen[d] /\ reached'[d] = reached[d] /\ timeouts = 0 /\ ~lost
        BY <1>1, <1>4, <1>8, <3>1 DEF Quiet
      <4> QED
        BY <4>1 DEF RInv, LabelledReads
    <3>2. CASE d = c
      <4>1. LastOfStep
        BY <2>1, <2>2, <3>2 DEF Running
      <4>2. PICK k \in 1..Length(c) : StepOf(c, k).do = "get" /\ x[1] \in Range(StepOf(c, k).on)
        <5>1. x[1] \in Reads(plan[c]) /\ DOMAIN plan[c].steps = 1..Length(c)
          BY <1>2, <1>3, <3>2 DEF Typed, Scripted
        <5> QED
          BY <5>1 DEF Reads, StepsOf, StepOf
      <4>3. at'[c] > Length(c)
        BY <1>2, <2>2, <3>2, <4>1
      <4>4. x[1] \in DOMAIN seen'[c]
        <5>1. k < at'[c] /\ k \in 1..Length(c)' /\ StepOf(c, k)' = StepOf(c, k)
          BY <1>1, <1>2, <2>2, <4>1, <4>3 DEF Length, StepOf
        <5> QED
          BY <1>2, <2>1, <2>6, <4>2, <5>1 DEF Asked
      <4>5. CASE met[c] = {}
        BY <2>7, <3>2, <4>4, <4>5
      <4>6. CASE Length(c) = 1
        <5>1. k = 1 /\ StepOf(c, 1).do = "get"
          BY <4>2, <4>6
        <5>2. i = 1 /\ Current.do = "get" /\ x[2] = reg[x[1]]
          BY <2>9, <3>2, <4>6, <5>1
        <5>3. Current = StepOf(c, k) /\ Front.pos = Width(c, i) /\ DOMAIN Current.on = 1..Front.pos
          BY <1>2, <2>1, <4>1, <5>1, <5>2
        <5>4. PICK n \in 1..Front.pos : x[1] = Current.on[n]
          BY <4>2, <5>3 DEF Range
        <5>5. seen'[c][x[1]] = reg[x[1]]
          BY <2>4, <5>2, <5>4
        <5> QED
          BY <3>2, <5>2, <5>5
      <4> QED
        BY <3>2, <4>5, <4>6
    <3> QED
      BY <3>1, <3>2
  <2> QED
    BY <1>5, <1>6, <2>5, <2>6, <2>8, <2>10, <2>11 DEF RInv
<1> QED
  BY <1>7, <1>8
-----------------------------------------------------------------------------
(* Theorems *)

\* Whatever is interleaved, times out, fails or is refused, the port's queue keeps its
\* batches whole and readings agree with the instrument where they can.
THEOREM IInvHolds == Spec => [](QInv /\ RInv)
<1>1. Init => QInv /\ RInv
  BY InitQueues, InitReads
<1>2. QInv /\ RInv /\ [Next]_vars => QInv' /\ RInv'
  <2> SUFFICES ASSUME QInv, RInv, [Next]_vars PROVE QInv' /\ RInv'
    OBVIOUS
  <2>1. ASSUME NEW c \in Callers, Start(c) PROVE QInv' /\ RInv'
    BY <2>1, StartQueues, StartReads DEF RInv
  <2>2. CASE AnswerCommand \/ AnswerQuery
    BY <2>2, ServeQueues, AnswerReads DEF Serve
  <2>3. CASE QueryTimesOut \/ RefuseLine
    <3>1. QInv'
      BY <2>3, ServeQueues DEF Serve
    <3>2. /\ ~Quiet' /\ line # <<>> /\ UNCHANGED <<plan, seen, reached, met, reg>>
          /\ FailLine
      BY <2>3 DEF QueryTimesOut, RefuseLine, Quiet, QInv, Typed
    <3>3. \A c \in Callers : status'[c] = "idle" => status[c] = "idle" /\ at'[c] = at[c]
      <4>1. /\ Owner \in Callers /\ status[Owner] # "idle"
            /\ at \in [Callers -> Nat]
            /\ status \in [Callers -> {"idle", "running", "ok", "refused", "failed"}]
        BY <3>2, FrontGoes DEF QInv, Typed
      <4>2. CASE Awaited /\ Register \notin Current.soft
        <5>1. \E v \in {"ok", "failed"} : status' = [status EXCEPT ![Owner] = v]
          BY <3>2, <4>2 DEF FailLine, Abandon
        <5>2. \E v : at' = [at EXCEPT ![Owner] = v]
          BY <3>2, <4>2 DEF FailLine, Abandon
        <5>3. status'[Owner] # "idle" /\ \A d \in Callers : d # Owner => status'[d] = status[d]
          BY <4>1, <5>1
        <5>4. \A d \in Callers : d # Owner => at'[d] = at[d]
          BY <4>1, <5>2
        <5> QED
          BY <4>1, <5>3, <5>4
      <4>3. CASE Awaited /\ Register \in Current.soft
        <5>1. Resume(seen[Owner])
          BY <3>2, <4>3 DEF FailLine
        <5>2. /\ \A d \in Callers : d # Owner => status'[d] = status[d] /\ at'[d] = at[d]
              /\ status'[Owner] # "idle"
          BY <3>2, <4>3, <5>1, ResumeElsewhere
        <5> QED
          BY <4>1, <5>2
      <4>4. CASE ~Awaited
        BY <3>2, <4>4 DEF FailLine, Resume
      <4> QED
        BY <4>2, <4>3, <4>4
    <3>4. Fresh' /\ Named'
      BY <3>2, <3>3 DEF RInv, Fresh, Named
    <3> QED
      BY <3>1, <3>2, <3>4, FailedReads
  <2>4. CASE Lose
    <3>1. /\ UNCHANGED <<plan, at, line, reg, field, status, seen, reached, met, timeouts>>
          /\ lost' \in BOOLEAN /\ lost' /\ ~lost
      BY <2>4 DEF Lose
    <3>2. QInv'
      BY <3>1, QueuesElsewhere
    <3>3. Fresh' /\ Named' /\ ~Quiet'
      BY <3>1 DEF RInv, Fresh, Named, Quiet
    <3> QED
      BY <3>2, <3>3, FailedReads
  <2>5. CASE UNCHANGED vars
    <3>1. QInv'
      BY <2>5, QueuesElsewhere DEF vars, QInv, Typed
    <3>2. Fresh' /\ Named' /\ HalfRead' /\ Asked'
      BY <2>5 DEF vars, RInv, Fresh, Named, HalfRead, Asked, Quiet, StepOf, Length
    <3>3. Alone' /\ InOneGo' /\ LabelledReads'
      BY <2>5 DEF vars, RInv, Alone, InOneGo, LabelledReads, Quiet, Running, StepOf, Length
    <3> QED
      BY <3>1, <3>2, <3>3 DEF RInv
  <2> QED
    BY <2>1, <2>2, <2>3, <2>4, <2>5 DEF Next, Serve
<1> QED
  BY <1>1, <1>2, PTL DEF Spec

\* An awaited promise has a line in the port's queue (scpi/session.ts), whichever driver
\* methods and requests meet at it and whatever fails: no caller waits for ever.
THEOREM NobodyIsStranded == Spec => []NobodyStranded
<1>1. QInv => NobodyStranded
  BY DEF QInv
<1> QED
  BY <1>1, IInvHolds, PTL

\* What a driver reads through a setting that it reads as well has the right label, for
\* every script there can be: in one batch always, else if nobody came between.
THEOREM LabelsAreRight == Spec => []LabelledReads
<1>1. RInv => LabelledReads
  BY DEF RInv
<1> QED
  BY <1>1, IInvHolds, PTL

\* The lines of one Promise.all go into the queue together and nobody's line comes
\* between them: what they return is the state of one moment.
THEOREM BatchesAreSnapshots == Spec => SnapshotReads
<1> DEFINE One(c) ==
      (/\ status[c] = "running" /\ status'[c] = "ok" /\ timeouts' = 0 /\ ~lost
       /\ Length(c) = 1 /\ StepOf(c, 1).do = "get")
      => \A r \in Reads(plan[c]) : seen'[c][r] = reg[r]
<1>1. QInv /\ RInv /\ [Next]_vars => [\A c \in Callers : One(c)]_vars
  <2> SUFFICES ASSUME QInv, RInv, Next, NEW c \in Callers,
                      status[c] = "running", status'[c] = "ok", timeouts' = 0, ~lost,
                      Length(c) = 1, StepOf(c, 1).do = "get", NEW r \in Reads(plan[c])
               PROVE  seen'[c][r] = reg[r]
    OBVIOUS
  <2>1. Serve /\ line # <<>>
    <3>1. ASSUME NEW d \in Callers, Start(d) PROVE FALSE
      <4>1. status[d] = "idle" /\ \A e \in Callers : e # d => status'[e] = status[e]
        BY <3>1 DEF Start, Continue, QInv, Typed
      <4> QED
        BY <4>1
    <3>2. ~Lose
      BY DEF Lose
    <3>3. Serve
      BY <3>1, <3>2 DEF Next
    <3> QED
      BY <3>3 DEF Serve, AnswerCommand, AnswerQuery, QueryTimesOut, RefuseLine
  <2>2. Quiet /\ (AnswerCommand \/ AnswerQuery)
    <3>1. ~RefuseLine /\ ~QueryTimesOut
      BY DEF RefuseLine, QueryTimesOut, QInv, Typed
    <3>2. timeouts = 0
      BY <2>1, <3>1 DEF Serve, AnswerCommand, AnswerQuery
    <3> QED
      BY <2>1, <3>1, <3>2 DEF Serve, Quiet
  <2>3. /\ Owner \in Callers /\ Front = line[1] /\ Owner = line[1].by /\ Len(line) \in Nat \ {0}
        /\ Front.step \in 1..Length(Owner) /\ Awaited
        /\ Front.pos \in 1..Width(Owner, Front.step)
        /\ Current.do = "get" => DOMAIN Current.on = 1..Width(Owner, Front.step)
        /\ LastOfStep => Front.pos = Width(Owner, Front.step)
    BY <2>1, <2>2, AnswerFinds
  <2>4. PICK s : Resume(s)
    BY <2>2 DEF AnswerCommand, AnswerQuery
  <2>5. c = Owner /\ LastOfStep
    BY <2>1, <2>3, <2>4, ResumeElsewhere
  <2>6. Front.step = 1 /\ Current.do = "get" /\ Current = StepOf(c, 1)
    BY <2>3, <2>5 DEF Current
  <2>7. PICK k \in 1..Front.pos : r = Current.on[k]
    <3>1. r \in Range(StepOf(c, 1).on)
      BY DEF Reads, StepsOf, StepOf, QInv, Typed, Scripted
    <3> QED
      BY <2>3, <2>5, <2>6, <3>1 DEF Range
  <2>8. seen' = [seen EXCEPT ![Owner] = Heard]
    BY <2>2, <2>6 DEF AnswerCommand, AnswerQuery
  <2>9. seen'[c] = Heard
    BY <2>3, <2>5, <2>8 DEF QInv, Typed
  <2>10. CASE k = Front.pos
    BY <2>7, <2>9, <2>10 DEF Heard, Register
  <2>11. CASE k # Front.pos
    <3>1. k \in 1..(Front.pos - 1)
      BY <2>3, <2>11 DEF Width
    <3>2. r \in DOMAIN seen[Owner] /\ seen[Owner][r] = reg[r]
      BY <2>2, <2>3, <2>6, <2>7, <3>1 DEF RInv, HalfRead, Current
    <3> QED
      BY <2>5, <2>9, <3>2 DEF Heard
  <2> QED
    BY <2>10, <2>11
<1> QED
  BY <1>1, IInvHolds, PTL DEF Spec, SnapshotReads
-----------------------------------------------------------------------------
(* Selections and remembered fields *)

IsCommand(l) == StepOf(l.by, l.step).do \in {"put", "putback"}

\* A command has somebody waiting for it.
CommandsAwaited ==
  ~lost => \A n \in 1..Len(line) : IsCommand(line[n]) => status[line[n].by] = "running"

\* In front of the lines of a call that met nobody there are no commands of others.
CommandsBehind ==
  ~lost => \A m, n \in 1..Len(line) :
    m < n /\ met[line[n].by] = {} /\ IsCommand(line[m]) => line[m].by = line[n].by

\* The selection that a driver remembers is the one that the instrument has.
MemoriesAgree ==
  ~lost => \A c \in Callers : \A m \in Memories(plan[c]) : field[m[1]] = reg[m[2]]

MirrorsAgree ==
  ~lost => \A c \in Callers : \A m \in Mirrors(plan[c]) : reg[m[2]] = c => field[m[1]] = c

\* What a running call has read it has asked for in a step that it has passed, or in the
\* batch that is being answered.
AskedFor ==
  ~lost => \A c \in Running : \A r \in DOMAIN seen[c] : \E j \in 1..Length(c) :
    /\ StepOf(c, j).do = "get" /\ r \in Range(StepOf(c, j).on)
    /\ j < at[c] \/ (j = at[c] /\ Width(c, j) > 1)

\* What a call has set in the steps before i, and does not put back, has its value.
HasSelected(c, i) ==
  \A k \in 1..(i - 1) : StepOf(c, k).do = "put" =>
    \A r \in Range(StepOf(c, k).on) :
      (\A j \in 1..Length(c) : StepOf(c, j).do = "putback" => r \notin Range(StepOf(c, j).on)) => reg[r] = c

\* What a call that met nobody selected before the step of a line of its is selected
\* until that line is answered.
SelectedSoFar ==
  ~lost => \A n \in 1..Len(line) : met[line[n].by] = {} => HasSelected(line[n].by, line[n].step)

SInv ==
  /\ CommandsAwaited /\ CommandsBehind /\ MemoriesAgree /\ MirrorsAgree /\ AskedFor /\ SelectedSoFar
  /\ SelectionHolds
-----------------------------------------------------------------------------
(* What a turn assigns *)

LEMMA PlanTidy == plan \in Plans => SelectsFirst(plan) /\ MirrorsAtOnce(plan) /\ KeepsOnly(plan)
BY SelectionsAssumption, MirrorsAssumption, KeepsAssumption

LEMMA MaxIsIn ==
  ASSUME NEW S, S # {}, NEW b \in Nat, S \subseteq 0..b
  PROVE  Max(S) \in S
<1> DEFINE R == {b - y : y \in S}
<1>1. R \subseteq Nat /\ R # {}
  <2>1. PICK y \in S : b - y \in R
    OBVIOUS
  <2>2. \A z \in S : b - z \in Nat
    OBVIOUS
  <2> QED
    BY <2>1, <2>2
<1>2. PICK x \in R : \A y \in R : ~(<<y, x>> \in OpToRel(<, Nat))
  BY <1>1, WFMin, NatLessThanWellFounded
<1>3. PICK m \in S : x = b - m
  OBVIOUS
<1>4. ASSUME NEW y \in S PROVE m >= y
  <2>1. b - y \in R /\ b - y \in Nat /\ x \in Nat
    BY <1>1
  <2>2. b - y < x => <<b - y, x>> \in {ss \in Nat \X Nat : ss[1] < ss[2]}
    BY <2>1
  <2>3. ~(b - y < x)
    BY <1>2, <2>1, <2>2 DEF OpToRel
  <2>4. m \in 0..b /\ y \in 0..b
    OBVIOUS
  <2> QED
    BY <1>3, <2>3, <2>4
<1>5. m \in S /\ \A y \in S : m >= y
  BY <1>4
<1> QED
  BY <1>5 DEF Max

\* A field keeps its value or has that of a step of the turn.
LEMMA KeptCases ==
  ASSUME Typed, NEW c \in Callers, NEW i \in Nat, NEW j \in Nat, j <= Length(c) + 1, i # 0, NEW s,
         field' = Kept(c, i, j, s), NEW f \in DOMAIN field
  PROVE  \/ /\ field'[f] = field[f]
            /\ \A k \in i..(j - 1) : StepOf(c, k).do \in Assigning => StepOf(c, k).on[1] # f
         \/ \E k \in i..(j - 1) :
              /\ StepOf(c, k).do \in Assigning /\ StepOf(c, k).on[1] = f
              /\ field'[f] = Assigned(c, k, s) /\ k \in 1..Length(c)
<1> DEFINE mine == {k \in i..(j - 1) : StepOf(c, k).do \in {"keep", "learn", "forget"} /\ StepOf(c, k).on[1] = f}
<1>1. field'[f] = IF mine = {} THEN field[f] ELSE Assigned(c, Max(mine), s)
  BY DEF Kept
<1>2. CASE mine = {}
  BY <1>1, <1>2 DEF Assigning
<1>3. CASE mine # {}
  <2>1. mine \subseteq 0..j
    OBVIOUS
  <2>2. Max(mine) \in mine
    BY <1>3, <2>1, MaxIsIn
  <2>3. Length(c) \in Nat
    BY DEF Typed, Scripted
  <2>4. PICK k \in mine : field'[f] = Assigned(c, k, s)
    BY <1>1, <1>3, <2>2
  <2> QED
    BY <2>3, <2>4 DEF Assigning
<1> QED
  BY <1>2, <1>3

\* What goes to the port and is passed in a turn is a selection that its driver
\* remembers, the first step of the script.
LEMMA PassedIsFirst ==
  ASSUME Typed, NEW c \in Callers, NEW i \in Nat \ {0}, i <= Length(c) + 1,
         NEW k \in i..(NextStop(c, i) - 1), k \in 1..Length(c), StepOf(c, k).do \in AtPort
  PROVE  k = 1 /\ StepOf(c, k).unless \in DOMAIN field /\ field[StepOf(c, k).unless] = c
<1>1. /\ Length(c) \in Nat /\ DOMAIN plan[c].steps = 1..Length(c) /\ SelectsFirst(plan)
      /\ DOMAIN field = Fields(plan)
  BY PlanTidy DEF Typed, Scripted
<1>2. ~GoesOut(c, k)
  BY <1>1, NextStopIsFirst
<1>3. StepOf(c, k).unless \in DOMAIN field /\ field[StepOf(c, k).unless] = c
  BY <1>2 DEF GoesOut, AtPort
<1>4. StepOf(c, k).unless # "none"
  BY <1>1, <1>3 DEF SelectsFirst
<1>5. k = 1
  BY <1>1, <1>4 DEF SelectsFirst, StepOf
<1> QED
  BY <1>3, <1>5

\* A turn after an answer passes no step of the port; the first one passes at most a
\* selection that its driver remembers.
LEMMA TurnSteps ==
  ASSUME Typed, NEW c \in Callers, NEW i \in Nat \ {0}, i <= Length(c) + 1,
         NEW k \in i..(NextStop(c, i) - 1), k \in 1..Length(c), StepOf(c, k).do \in AtPort
  PROVE  /\ i = 1 /\ k = 1 /\ StepOf(c, 1).do = "put" /\ StepOf(c, 1).unless \in DOMAIN field
         /\ field[StepOf(c, 1).unless] = c /\ StepOf(c, 1).on = <<StepOf(c, 1).on[1]>>
         /\ 2 \in 1..Length(c) /\ StepOf(c, 2).do = "keep"
         /\ StepOf(c, 2).on[1] = StepOf(c, 1).unless /\ StepOf(c, 2).on[2] = StepOf(c, 1).on[1]
         /\ <<StepOf(c, 1).unless, StepOf(c, 1).on[1]>> \in Memories(plan[c]) \intersect Mirrors(plan[c])
<1>1. Length(c) \in Nat /\ DOMAIN plan[c].steps = 1..Length(c) /\ SelectsFirst(plan) /\ DOMAIN field = Fields(plan)
  BY PlanTidy DEF Typed, Scripted
<1>2. k = 1 /\ StepOf(c, k).unless \in DOMAIN field /\ field[StepOf(c, k).unless] = c
  BY PassedIsFirst
<1>3. StepOf(c, k).unless # "none"
  BY <1>1, <1>2 DEF SelectsFirst
<1>4. /\ StepOf(c, 1).do = "put" /\ 2 \in 1..Length(c)
      /\ StepOf(c, 2).do = "keep" /\ StepOf(c, 2).mirror
      /\ StepOf(c, 2).on[1] = StepOf(c, 1).unless /\ StepOf(c, 1).on = <<StepOf(c, 2).on[2]>>
  BY <1>1, <1>2, <1>3 DEF SelectsFirst, StepOf
<1>5. StepOf(c, 1).on[1] = StepOf(c, 2).on[2]
  BY <1>4
<1>6. /\ StepOf(c, 1) \in StepsOf(plan[c], {"put"}) /\ StepOf(c, 2) \in StepsOf(plan[c], {"keep", "learn"})
  BY <1>1, <1>4 DEF StepsOf, StepOf
<1>7. /\ <<StepOf(c, 1).unless, StepOf(c, 1).on[1]>> \in Memories(plan[c])
      /\ <<StepOf(c, 2).on[1], StepOf(c, 2).on[2]>> \in Mirrors(plan[c])
  BY <1>2, <1>3, <1>4, <1>6 DEF Memories, Mirrors
<1> QED
  BY <1>2, <1>4, <1>5, <1>7

LEMMA TurnPasses ==
  ASSUME Typed, NEW c \in Callers, NEW i \in Nat \ {0}, i > 1, i <= Length(c) + 1
  PROVE  \A k \in i..(NextStop(c, i) - 1) : k \in 1..Length(c) /\ StepOf(c, k).do \notin AtPort
<1>1. Length(c) \in Nat
  BY DEF Typed, Scripted
<1>2. NextStop(c, i) \in i..(Length(c) + 1)
  BY <1>1, NextStopIsFirst
<1>3. ASSUME NEW k \in i..(NextStop(c, i) - 1) PROVE k \in 1..Length(c)
  BY <1>1, <1>2
<1>4. ASSUME NEW k \in i..(NextStop(c, i) - 1), StepOf(c, k).do \in AtPort PROVE FALSE
  <2>1. /\ Typed /\ c \in Callers /\ i \in Nat \ {0} /\ i <= Length(c) + 1
        /\ k \in i..(NextStop(c, i) - 1) /\ k \in 1..Length(c) /\ StepOf(c, k).do \in AtPort
    BY <1>3, <1>4
  <2>2. k = 1
    BY <2>1, PassedIsFirst
  <2> QED
    BY <1>1, <2>1, <2>2
<1> QED
  BY <1>3, <1>4

\* A field that stands for a register, and the register.
LEMMA MirrorTyped ==
  ASSUME Typed, NEW d \in Callers, NEW m \in Mirrors(plan[d])
  PROVE  /\ m = <<m[1], m[2]>> /\ m[1] \in DOMAIN field /\ m[2] \in DOMAIN reg
<1>1. /\ Length(d) \in Nat /\ DOMAIN plan[d].steps = 1..Length(d) /\ MirrorsAtOnce(plan)
      /\ DOMAIN field = Fields(plan)
  BY PlanTidy DEF Typed, Scripted
<1>2. PICK i \in 1..Length(d) :
        /\ StepOf(d, i).do \in {"keep", "learn"} /\ StepOf(d, i).mirror
        /\ m = <<StepOf(d, i).on[1], StepOf(d, i).on[2]>>
  BY <1>1 DEF Mirrors, StepsOf, StepOf
<1>3. StepOf(d, i) \in StepsOf(plan[d], {"keep", "learn", "forget"})
  BY <1>1, <1>2 DEF StepsOf, StepOf
<1>4. m[1] \in Fields(plan)
  BY <1>2, <1>3 DEF Fields, Assigns
<1>5. PICK k \in 1..(i - 1) :
        StepOf(d, k).do \in {"put", "get"} /\ StepOf(d, k).on = <<m[2]>>
  <2>1. i \in DOMAIN plan[d].steps /\ plan[d].steps[i].do \in {"keep", "learn"} /\ plan[d].steps[i].mirror
    BY <1>1, <1>2 DEF StepOf
  <2>2. PICK k \in 1..(i - 1) :
          /\ plan[d].steps[k].do = (IF plan[d].steps[i].do = "keep" THEN "put" ELSE "get")
          /\ plan[d].steps[k].on = <<plan[d].steps[i].on[2]>>
          /\ InTurnOf(plan[d].steps, k, i)
    BY <1>1, <2>1 DEF MirrorsAtOnce
  <2>3. plan[d].steps[i].on[2] = m[2]
    BY <1>2 DEF StepOf
  <2> QED
    BY <2>2, <2>3 DEF StepOf
<1>6. k \in 1..Length(d)
  BY <1>1
<1>7. m[2] \in Range(StepOf(d, k).on)
  BY <1>5 DEF Range
<1>8. Range(StepOf(d, k).on) \subseteq Sets(plan[d]) \union DOMAIN reg
  BY <1>5, <1>6, StepRegisters
<1>9. Sets(plan[d]) \subseteq DOMAIN reg
  BY DEF Typed, Registers
<1> QED
  BY <1>1, <1>2, <1>4, <1>7, <1>8, <1>9

\* Such a field is assigned in the turn of the step that set or asked for the register.
LEMMA MirrorAssigned ==
  ASSUME Typed, NEW c \in Callers, NEW d \in Callers, NEW m \in Mirrors(plan[d]),
         NEW i \in 1..Length(c), StepOf(c, i).do \in Assigning, StepOf(c, i).on[1] = m[1]
  PROVE  /\ StepOf(c, i).do \in {"keep", "learn"} /\ StepOf(c, i).on[2] = m[2] /\ m \in Mirrors(plan[c])
         /\ \E k \in 1..(i - 1) :
              /\ StepOf(c, k).do = (IF StepOf(c, i).do = "keep" THEN "put" ELSE "get")
              /\ StepOf(c, k).on = <<m[2]>>
              /\ \A j \in (k + 1)..(i - 1) : StepOf(c, j).do \notin AtPort
              /\ StepOf(c, i).do = "learn" =>
                   \A j \in 1..(k - 1) : StepOf(c, j).do = "get" => m[2] \notin Range(StepOf(c, j).on)
<1>1. /\ Length(c) \in Nat /\ DOMAIN plan[c].steps = 1..Length(c) /\ MirrorsAtOnce(plan)
  BY PlanTidy DEF Typed, Scripted
<1>2. /\ StepOf(c, i).do # "forget" /\ StepOf(c, i).mirror /\ StepOf(c, i).on[2] = m[2]
  BY <1>1 DEF MirrorsAtOnce, StepOf
<1>3. StepOf(c, i).do \in {"keep", "learn"}
  BY <1>2 DEF Assigning
<1>4. PICK k \in 1..(i - 1) :
        /\ plan[c].steps[k].do = (IF plan[c].steps[i].do = "keep" THEN "put" ELSE "get")
        /\ plan[c].steps[k].on = <<plan[c].steps[i].on[2]>>
        /\ InTurnOf(plan[c].steps, k, i)
        /\ plan[c].steps[i].do = "learn" =>
             \A j \in 1..(k - 1) : plan[c].steps[j].do = "get" => plan[c].steps[i].on[2] \notin Range(plan[c].steps[j].on)
  BY <1>1, <1>2, <1>3 DEF MirrorsAtOnce, StepOf
<1>5. /\ StepOf(c, k).do = (IF StepOf(c, i).do = "keep" THEN "put" ELSE "get")
      /\ StepOf(c, k).on = <<m[2]>>
      /\ \A j \in (k + 1)..(i - 1) : StepOf(c, j).do \notin AtPort
      /\ StepOf(c, i).do = "learn" =>
           \A j \in 1..(k - 1) : StepOf(c, j).do = "get" => m[2] \notin Range(StepOf(c, j).on)
  BY <1>2, <1>4 DEF InTurnOf, StepOf
<1>6. m \in Mirrors(plan[c])
  <2>1. StepOf(c, i) \in StepsOf(plan[c], {"keep", "learn"})
    BY <1>1, <1>3 DEF StepsOf, StepOf
  <2>2. <<StepOf(c, i).on[1], StepOf(c, i).on[2]>> \in Mirrors(plan[c])
    BY <1>2, <2>1 DEF Mirrors
  <2> QED
    BY <1>2, <2>2, MirrorTyped
<1> QED
  BY <1>2, <1>3, <1>5, <1>6

\* The turn after step f: a field that stands for a register has what f has set it to or
\* what f has heard of it.
LEMMA TurnAssigns ==
  ASSUME Typed, NEW c \in Callers, NEW d \in Callers, NEW m \in Mirrors(plan[d]),
         NEW f \in 1..Length(c), StepOf(c, f).do \in AtPort,
         NEW s, field' = Kept(c, f + 1, NextStop(c, f + 1), s)
  PROVE  /\ \/ field'[m[1]] = field[m[1]]
            \/ StepOf(c, f).do = "put" /\ StepOf(c, f).on = <<m[2]>> /\ field'[m[1]] = c
            \/ /\ StepOf(c, f).do = "get" /\ StepOf(c, f).on = <<m[2]>>
               /\ m[2] \in DOMAIN s /\ field'[m[1]] = s[m[2]]
               /\ \A j \in 1..(f - 1) : StepOf(c, j).do = "get" => m[2] \notin Range(StepOf(c, j).on)
         /\ StepOf(c, f).do = "put" /\ m[2] \in Range(StepOf(c, f).on) /\ m \in Mirrors(plan[c]) =>
              field'[m[1]] = c
<1> DEFINE j == NextStop(c, f + 1)
<1>1. /\ Length(c) \in Nat /\ DOMAIN plan[c].steps = 1..Length(c) /\ MirrorsAtOnce(plan)
      /\ m[1] \in DOMAIN field
  BY PlanTidy, MirrorTyped DEF Typed, Scripted
<1>2. /\ j \in (f + 1)..(Length(c) + 1) /\ (j <= Length(c) => StepOf(c, j).do \in AtPort)
      /\ \A k \in (f + 1)..(j - 1) : StepOf(c, k).do \notin AtPort
  <2>1. f + 1 \in Nat \ {0} /\ f + 1 <= Length(c) + 1
    BY <1>1
  <2>2. j \in (f + 1)..(Length(c) + 1) /\ (j <= Length(c) => GoesOut(c, j))
    BY <1>1, <2>1, NextStopIsFirst
  <2>3. ASSUME NEW k \in (f + 1)..(j - 1) PROVE StepOf(c, k).do \notin AtPort
    <3>1. f + 1 > 1
      OBVIOUS
    <3> QED
      BY <2>1, <3>1, TurnPasses
  <2> QED
    BY <2>2, <2>3 DEF GoesOut, AtPort
<1> HIDE DEF j
<1>3. ASSUME NEW k \in (f + 1)..(j - 1), k \in 1..Length(c), StepOf(c, k).do \in Assigning, StepOf(c, k).on[1] = m[1]
      PROVE  /\ StepOf(c, k).do \in {"keep", "learn"} /\ StepOf(c, k).on[2] = m[2]
             /\ StepOf(c, f).do = (IF StepOf(c, k).do = "keep" THEN "put" ELSE "get")
             /\ StepOf(c, f).on = <<m[2]>>
             /\ StepOf(c, k).do = "learn" =>
                  \A l \in 1..(f - 1) : StepOf(c, l).do = "get" => m[2] \notin Range(StepOf(c, l).on)
  <2>1. PICK l \in 1..(k - 1) :
              /\ StepOf(c, l).do = (IF StepOf(c, k).do = "keep" THEN "put" ELSE "get")
              /\ StepOf(c, l).on = <<m[2]>>
              /\ \A n \in (l + 1)..(k - 1) : StepOf(c, n).do \notin AtPort
              /\ StepOf(c, k).do = "learn" =>
                   \A n \in 1..(l - 1) : StepOf(c, n).do = "get" => m[2] \notin Range(StepOf(c, n).on)
    BY <1>3, MirrorAssigned
  <2>2. StepOf(c, l).do \in AtPort
    BY <2>1 DEF AtPort
  <2>3. ~(l < f)
    BY <1>3, <2>1
  <2>4. ~(l > f)
    BY <1>2, <1>3, <2>2
  <2>5. l = f
    BY <2>3, <2>4
  <2> QED
    BY <1>3, <2>1, <2>5, MirrorAssigned
<1>4. \/ /\ field'[m[1]] = field[m[1]]
         /\ \A k \in (f + 1)..(j - 1) : StepOf(c, k).do \in Assigning => StepOf(c, k).on[1] # m[1]
      \/ \E k \in (f + 1)..(j - 1) :
           /\ StepOf(c, k).do \in Assigning /\ StepOf(c, k).on[1] = m[1]
           /\ field'[m[1]] = Assigned(c, k, s) /\ k \in 1..Length(c)
  BY <1>1, <1>2, KeptCases DEF j
<1>5. ASSUME NEW k \in (f + 1)..(j - 1), StepOf(c, k).do \in Assigning, StepOf(c, k).on[1] = m[1],
             field'[m[1]] = Assigned(c, k, s), k \in 1..Length(c)
      PROVE  /\ StepOf(c, f).do = "put" => field'[m[1]] = c
             /\ \/ field'[m[1]] = field[m[1]]
                \/ StepOf(c, f).do = "put" /\ StepOf(c, f).on = <<m[2]>> /\ field'[m[1]] = c
                \/ /\ StepOf(c, f).do = "get" /\ StepOf(c, f).on = <<m[2]>>
                   /\ m[2] \in DOMAIN s /\ field'[m[1]] = s[m[2]]
                   /\ \A l \in 1..(f - 1) : StepOf(c, l).do = "get" => m[2] \notin Range(StepOf(c, l).on)
  <2>1. CASE StepOf(c, k).do = "keep"
    <3>1. field'[m[1]] = c
      BY <1>5, <2>1 DEF Assigned
    <3> QED
      BY <1>3, <1>5, <2>1, <3>1
  <2>2. CASE StepOf(c, k).do = "learn"
    <3>1. field'[m[1]] = IF m[2] \in DOMAIN s THEN s[m[2]] ELSE field[m[1]]
      BY <1>3, <1>5, <2>2 DEF Assigned
    <3> QED
      BY <1>3, <1>5, <2>2, <3>1
  <2> QED
    BY <1>3, <1>5, <2>1, <2>2
<1>6. ASSUME StepOf(c, f).do = "put", m[2] \in Range(StepOf(c, f).on), m \in Mirrors(plan[c])
      PROVE  field'[m[1]] = c
  <2>1. PICK i \in 1..Length(c) :
          InTurnOf(plan[c].steps, f, i) /\ StepOf(c, i).do = "keep" /\ StepOf(c, i).on[1] = m[1]
    <3>1. /\ f \in DOMAIN plan[c].steps
          /\ plan[c].steps[f].do = "put" /\ m[2] \in Range(plan[c].steps[f].on)
      BY <1>1, <1>6 DEF StepOf
    <3>2. \E i \in DOMAIN plan[c].steps :
            InTurnOf(plan[c].steps, f, i) /\ plan[c].steps[i].do = "keep" /\ plan[c].steps[i].on[1] = m[1]
      BY <1>1, <1>6, <3>1 DEF MirrorsAtOnce
    <3> QED
      BY <1>1, <3>2 DEF StepOf
  <2>2. f < i /\ \A n \in (f + 1)..(i - 1) : StepOf(c, n).do \notin AtPort
    BY <2>1 DEF InTurnOf, StepOf
  <2>3. i \in (f + 1)..(j - 1)
    <3> SUFFICES ASSUME j <= i PROVE FALSE
      BY <1>1, <1>2, <2>2
    <3>1. j <= Length(c) /\ StepOf(c, j).do \in AtPort
      BY <1>1, <1>2
    <3>2. j # i
      BY <2>1, <3>1 DEF AtPort
    <3> QED
      BY <1>1, <1>2, <2>2, <3>1, <3>2
  <2> QED
    BY <1>4, <1>5, <1>6, <2>1, <2>3 DEF Assigning
<1> QED
  BY <1>4, <1>5, <1>6

\* A call that begins changes no field that stands for a register: the selection that it
\* leaves out is in the field.
LEMMA StartAssigns ==
  ASSUME Typed, NEW c \in Callers, NEW d \in Callers, NEW m \in Mirrors(plan[d]), NEW s,
         field' = Kept(c, 1, NextStop(c, 1), s)
  PROVE  field'[m[1]] = field[m[1]]
<1> DEFINE j == NextStop(c, 1)
<1>1. /\ Length(c) \in Nat /\ MirrorsAtOnce(plan) /\ m[1] \in DOMAIN field
      /\ m = <<m[1], m[2]>>
  BY PlanTidy, MirrorTyped DEF Typed, Scripted
<1>2. j \in 1..(Length(c) + 1)
  BY <1>1, NextStopIsFirst
<1>3. ASSUME NEW k \in 1..(j - 1), k \in 1..Length(c), StepOf(c, k).do \in Assigning, StepOf(c, k).on[1] = m[1],
             field'[m[1]] = Assigned(c, k, s)
      PROVE  field'[m[1]] = field[m[1]]
  <2>1. PICK l \in 1..(k - 1) :
          /\ StepOf(c, l).do = (IF StepOf(c, k).do = "keep" THEN "put" ELSE "get") /\ StepOf(c, l).on = <<m[2]>>
    BY <1>3, MirrorAssigned
  <2>2. l \in 1..(j - 1) /\ l \in 1..Length(c) /\ StepOf(c, l).do \in AtPort
    BY <1>1, <1>2, <1>3, <2>1 DEF AtPort
  <2>3. /\ l = 1 /\ StepOf(c, 1).do = "put" /\ field[StepOf(c, 1).unless] = c
        /\ <<StepOf(c, 1).unless, StepOf(c, 1).on[1]>> \in Memories(plan[c])
    <3>1. 1 \in Nat \ {0} /\ 1 <= Length(c) + 1
      BY <1>1
    <3> QED
      BY <2>2, <3>1, TurnSteps
  <2>4. m \in Mirrors(plan[c]) /\ StepOf(c, k).do = "keep"
    BY <1>3, <2>1, <2>3, MirrorAssigned
  <2>5. m = <<StepOf(c, 1).unless, StepOf(c, 1).on[1]>>
    <3> DEFINE g == <<StepOf(c, 1).unless, StepOf(c, 1).on[1]>>
    <3>1. g[2] = m[2]
      BY <2>1, <2>3
    <3>2. \A h \in Mirrors(plan[c]) : h[2] = g[2] => h = g
      BY <1>1, <2>3 DEF MirrorsAtOnce
    <3> QED
      BY <2>4, <3>1, <3>2
  <2>6. field[m[1]] = c
    BY <2>3, <2>5
  <2>7. field'[m[1]] = c
    BY <1>3, <2>4 DEF Assigned
  <2> QED
    BY <2>6, <2>7
<1>4. \/ field'[m[1]] = field[m[1]]
      \/ \E k \in 1..(j - 1) :
           /\ StepOf(c, k).do \in Assigning /\ StepOf(c, k).on[1] = m[1]
           /\ field'[m[1]] = Assigned(c, k, s) /\ k \in 1..Length(c)
  <2>1. 1 \in Nat /\ 1 # 0 /\ j \in Nat /\ j <= Length(c) + 1 /\ field' = Kept(c, 1, j, s)
    BY <1>1, <1>2
  <2>2. PICK g \in DOMAIN field : g = m[1]
    BY <1>1
  <2> HIDE DEF j
  <2> QED
    BY <2>1, <2>2, KeptCases
<1> QED
  BY <1>3, <1>4
-----------------------------------------------------------------------------
(* A line that is served while the connection stands *)

\* The caller of the front line goes on from its next step.
GoesOn ==
  /\ Awaited /\ LastOfStep
  /\ \E s \in {seen[Owner], Heard} : Continue(Owner, Front.step + 1, Tail(line), s)

\* It does so; or other lines of its are still to come, or it has given up.
LEMMA Served ==
  ASSUME QInv, CommandsAwaited, Serve, ~lost', NEW o, o = Owner, NEW f, f = Front.step
  PROVE  /\ line # <<>> /\ ~lost /\ UNCHANGED <<plan, met>>
         /\ Typed /\ o \in Callers /\ f \in 1..Length(o) /\ Length(o) \in Nat
         /\ Current = StepOf(o, f) /\ Current.do \in AtPort
         /\ Len(line) \in Nat \ {0} /\ line[1].by = o /\ line[1].step = f
         /\ Current.do = "get" => UNCHANGED reg
         /\ Current.do # "get" => AnswerCommand
         /\ \/ GoesOn
            \/ /\ Current.do = "get" /\ line' = Tail(line) /\ UNCHANGED field
               /\ UNCHANGED <<at, status>> \/ (Awaited /\ Abandon(o, Tail(line)))
<1>1. line # <<>> /\ ~lost /\ UNCHANGED <<plan, met>>
  BY DEF Serve, AnswerCommand, AnswerQuery, QueryTimesOut, RefuseLine
<1>2. /\ o \in Callers /\ Front = line[1] /\ o = line[1].by /\ Len(line) \in Nat \ {0}
      /\ f \in 1..Length(o) /\ Length(o) \in Nat /\ Current = StepOf(o, f)
      /\ Current.do \in AtPort
      /\ Awaited /\ ~LastOfStep => Current.do = "get"
      /\ status[o] = "running" => Awaited
  BY <1>1, AnswerFinds, FrontGoes DEF Current, AtPort
<1>3. AnswerCommand \/ AnswerQuery \/ (Current.do = "get" /\ UNCHANGED reg /\ FailLine)
  BY <1>1 DEF Serve, RefuseLine, QueryTimesOut
<1>4. (Current.do = "get" => UNCHANGED reg) /\ (Current.do # "get" => AnswerCommand)
  BY <1>3 DEF AnswerCommand, AnswerQuery
<1>5. \/ \E s \in {seen[o], Heard} : Resume(s)
      \/ Current.do = "get" /\ Awaited /\ Abandon(o, Tail(line))
  BY <1>3 DEF AnswerCommand, AnswerQuery, FailLine
<1>6. Current.do # "get" => Awaited
  <2>1. 1 \in 1..Len(line)
    BY <1>2
  <2>2. Current.do # "get" => IsCommand(line[1])
    BY <1>2 DEF IsCommand, AtPort
  <2> QED
    BY <1>1, <1>2, <2>1, <2>2 DEF CommandsAwaited
<1>7. ASSUME NEW s \in {seen[o], Heard}, Resume(s), ~GoesOn
      PROVE  Current.do = "get" /\ line' = Tail(line) /\ UNCHANGED <<at, field, status>>
  <2>1. ~(Awaited /\ LastOfStep)
    BY <1>7 DEF Resume, GoesOn
  <2> QED
    BY <1>2, <1>6, <1>7, <2>1 DEF Resume
<1>8. ASSUME Current.do = "get", Awaited, Abandon(o, Tail(line))
      PROVE  line' = Tail(line) /\ UNCHANGED field
  BY <1>8 DEF Abandon
<1> QED
  BY <1>1, <1>2, <1>4, <1>5, <1>7, <1>8 DEF QInv

\* Where the lines behind it come from, and how its caller stands.
LEMMA ServedLines ==
  ASSUME QInv, CommandsAwaited, Serve, ~lost', NEW o, o = Owner, NEW f, f = Front.step
  PROVE  /\ Len(line') \in Nat
         /\ \A d \in Callers : d # o => at'[d] = at[d] /\ status'[d] = status[d]
         /\ status'[o] = "running" => status[o] = "running"
         /\ \A d \in Running' : d \in Running
         /\ \A n \in 1..Len(line') :
              \/ n + 1 \in 1..Len(line) /\ line'[n] = line[n + 1] /\ (GoesOn => line[n + 1].by # o)
              \/ /\ GoesOn /\ n >= Len(line) /\ line'[n].by = o /\ line'[n].step = at'[o]
                 /\ at'[o] <= Length(o) /\ status'[o] = "running"
         /\ GoesOn =>
              /\ at[o] = f /\ o \in Running /\ at'[o] = NextStop(o, f + 1)
              /\ at'[o] \in (f + 1)..(Length(o) + 1)
              /\ status'[o] = IF at'[o] > Length(o) THEN plan[o].end ELSE "running"
              /\ \A k \in (f + 1)..(at'[o] - 1) : k \in 1..Length(o) /\ StepOf(o, k).do \notin AtPort
              /\ \E s \in {seen[o], Heard} : field' = Kept(o, f + 1, at'[o], s)
              /\ Len(line') >= Len(line) - 1
              /\ \A n \in 1..Len(line') : n < Len(line) <=> n + 1 \in 1..Len(line)
<1>1. /\ line # <<>> /\ Typed /\ o \in Callers /\ f \in 1..Length(o) /\ Length(o) \in Nat
      /\ Len(line) \in Nat \ {0}
      /\ \/ GoesOn
         \/ line' = Tail(line) /\ (UNCHANGED <<at, status>> \/ (Awaited /\ Abandon(o, Tail(line))))
  BY Served
<1> DEFINE q == Tail(line)
<1>2. /\ Batched(q) /\ Len(q) = Len(line) - 1 /\ DOMAIN q = 1..Len(q)
      /\ \A n \in 1..Len(q) : q[n] = line[n + 1]
  BY <1>1, FrontGoes
<1>3. /\ at \in [Callers -> Nat] /\ plan[o].end \in {"ok", "refused"}
      /\ status \in [Callers -> {"idle", "running", "ok", "refused", "failed"}]
  BY <1>1 DEF Typed, Scripted
<1> HIDE DEF q
<1>4. CASE ~GoesOn
  <2>1. line' = q
    BY <1>1, <1>4 DEF q
  <2>2. /\ \A d \in Callers : d # o => at'[d] = at[d] /\ status'[d] = status[d]
        /\ status'[o] = "running" => status[o] = "running"
    BY <1>1, <1>3, <1>4 DEF Abandon
  <2>3. \A n \in 1..Len(q) : n + 1 \in 1..Len(line)
    BY <1>1, <1>2
  <2> QED
    BY <1>1, <1>2, <1>4, <2>1, <2>2, <2>3 DEF Running
<1>5. CASE GoesOn
  <2> DEFINE i == f + 1
             j == NextStop(o, i)
  <2>1. PICK s \in {seen[o], Heard} : Continue(o, i, q, s)
    BY <1>5 DEF GoesOn, q
  <2>2. Awaited /\ LastOfStep /\ at[o] = f /\ o \in Running
    BY <1>1, <1>5 DEF GoesOn, Awaited, Running
  <2>3. i \in Nat \ {0} /\ i <= Length(o) + 1 /\ i > 1
    BY <1>1
  <2>4. \A n \in 1..Len(q) : q[n].by # o
    BY <1>2, <2>2 DEF LastOfStep, q
  <2>5. \A k \in i..(j - 1) : k \in 1..Length(o) /\ StepOf(o, k).do \notin AtPort
    BY <1>1, <2>3, TurnPasses
  <2>6. field' = Kept(o, i, j, s)
    BY <2>1 DEF Continue
  <2> HIDE DEF i
  <2>7. /\ at' = [at EXCEPT ![o] = j] /\ j \in i..(Length(o) + 1)
        /\ status' = [status EXCEPT ![o] = IF j > Length(o) THEN plan[o].end ELSE "running"]
        /\ Batched(line') /\ Len(line') >= Len(q)
        /\ \A n \in 1..Len(q) : line'[n] = q[n]
        /\ \A n \in 1..Len(line') : n > Len(q) => line'[n].by = o /\ line'[n].step = j /\ j <= Length(o)
    <3>1. /\ Typed /\ o \in Callers /\ i \in Nat \ {0} /\ i <= Length(o) + 1 /\ Batched(q)
          /\ \A n \in 1..Len(q) : q[n].by # o
          /\ Continue(o, i, q, s)
      BY <1>1, <1>2, <2>1, <2>3, <2>4
    <3> QED
      BY <3>1, ContinueQueues
  <2> HIDE DEF j
  <2>8. at'[o] = j /\ status'[o] = (IF j > Length(o) THEN plan[o].end ELSE "running")
    BY <1>1, <1>3, <2>7
  <2>9. Len(line') \in Nat
    BY <2>7, LenProperties DEF Batched
  <2>10. ASSUME NEW n \in 1..Len(line')
         PROVE  /\ \/ n + 1 \in 1..Len(line) /\ line'[n] = line[n + 1] /\ line[n + 1].by # o
                   \/ /\ n >= Len(line) /\ line'[n].by = o /\ line'[n].step = j /\ j <= Length(o)
                /\ n < Len(line) <=> n + 1 \in 1..Len(line)
    <3>1. CASE n < Len(line)
      <4>1. n \in 1..Len(q) /\ n + 1 \in 1..Len(line)
        BY <1>1, <1>2, <2>9, <3>1
      <4> QED
        BY <1>2, <2>4, <2>7, <3>1, <4>1
    <3>2. CASE ~(n < Len(line))
      <4>1. n > Len(q) /\ n >= Len(line)
        BY <1>1, <1>2, <2>9, <3>2
      <4> QED
        BY <1>1, <2>7, <2>9, <3>2, <4>1
    <3> QED
      BY <3>1, <3>2
  <2>11. \A d \in Callers : d # o => at'[d] = at[d] /\ status'[d] = status[d]
    BY <1>1, <1>3, <2>7
  <2>12. \A d \in Running' : d \in Running
    BY <2>2, <2>11 DEF Running
  <2>13. j <= Length(o) => status'[o] = "running"
    BY <1>1, <2>3, <2>7, <2>8
  <2> QED
    <3>1. /\ at'[o] = NextStop(o, f + 1) /\ at'[o] \in (f + 1)..(Length(o) + 1)
          /\ \A k \in (f + 1)..(at'[o] - 1) : k \in 1..Length(o) /\ StepOf(o, k).do \notin AtPort
          /\ field' = Kept(o, f + 1, at'[o], s)
      BY <2>5, <2>6, <2>7, <2>8 DEF i, j
    <3>2. /\ status'[o] = IF at'[o] > Length(o) THEN plan[o].end ELSE "running"
          /\ Len(line') >= Len(line) - 1
      BY <1>2, <2>7, <2>8
    <3>3. status[o] = "running"
      BY <2>2 DEF Running
    <3> QED
      BY <1>5, <2>2, <2>8, <2>9, <2>10, <2>11, <2>12, <2>13, <3>1, <3>2, <3>3
<1> QED
  BY <1>4, <1>5

\* A register that a field stands for is left alone, and the field is, unless it learns
\* what the register says; or the register is set, and the field with it.
LEMMA FieldFollows ==
  ASSUME QInv, CommandsAwaited, AskedFor, Serve, ~lost', NEW o, o = Owner, NEW f, f = Front.step,
         NEW d \in Callers, NEW m \in Mirrors(plan[d])
  PROVE  \/ reg'[m[2]] = reg[m[2]] /\ (field'[m[1]] = field[m[1]] \/ field'[m[1]] = reg[m[2]])
         \/ reg'[m[2]] = o /\ m[2] \in Sets(plan[o]) /\ (m \in Mirrors(plan[o]) => field'[m[1]] = o)
<1>1. /\ line # <<>> /\ ~lost /\ Typed /\ o \in Callers /\ f \in 1..Length(o) /\ Length(o) \in Nat
      /\ Current = StepOf(o, f) /\ Current.do \in AtPort
      /\ Current.do = "get" => UNCHANGED reg
      /\ Current.do # "get" => AnswerCommand
      /\ GoesOn \/ (Current.do = "get" /\ UNCHANGED field)
  BY Served
<1>2. /\ DOMAIN plan[o].steps = 1..Length(o) /\ MirrorsAtOnce(plan) /\ m[2] \in DOMAIN reg
  BY <1>1, PlanTidy, MirrorTyped DEF Typed, Scripted
<1>3. CASE ~GoesOn
  BY <1>1, <1>3
<1>4. CASE GoesOn
  <2> DEFINE j == NextStop(o, f + 1)
  <2>1. Awaited /\ LastOfStep /\ at[o] = f /\ o \in Running
    BY <1>1, <1>4 DEF GoesOn, Awaited, Running
  <2>2. PICK s \in {seen[o], Heard} : field' = Kept(o, f + 1, j, s)
    BY <1>4 DEF GoesOn, Continue
  <2>3. /\ \/ field'[m[1]] = field[m[1]]
           \/ Current.do = "put" /\ Current.on = <<m[2]>> /\ field'[m[1]] = o
           \/ /\ Current.do = "get" /\ Current.on = <<m[2]>>
              /\ m[2] \in DOMAIN s /\ field'[m[1]] = s[m[2]]
              /\ \A k \in 1..(f - 1) : StepOf(o, k).do = "get" => m[2] \notin Range(StepOf(o, k).on)
        /\ Current.do = "put" /\ m[2] \in Range(Current.on) /\ m \in Mirrors(plan[o]) => field'[m[1]] = o
    <3>1. PICK g \in 1..Length(o) : g = f
      BY <1>1
    <3>2. /\ Typed /\ o \in Callers /\ StepOf(o, g).do \in AtPort
          /\ field' = Kept(o, g + 1, NextStop(o, g + 1), s)
      BY <1>1, <2>2, <3>1
    <3> HIDE DEF j
    <3>3. /\ \/ field'[m[1]] = field[m[1]]
             \/ StepOf(o, g).do = "put" /\ StepOf(o, g).on = <<m[2]>> /\ field'[m[1]] = o
             \/ /\ StepOf(o, g).do = "get" /\ StepOf(o, g).on = <<m[2]>>
                /\ m[2] \in DOMAIN s /\ field'[m[1]] = s[m[2]]
                /\ \A k \in 1..(g - 1) : StepOf(o, k).do = "get" => m[2] \notin Range(StepOf(o, k).on)
          /\ StepOf(o, g).do = "put" /\ m[2] \in Range(StepOf(o, g).on) /\ m \in Mirrors(plan[o]) =>
               field'[m[1]] = o
      BY <3>2, TurnAssigns, SMTT(30)
    <3> QED
      BY <1>1, <3>1, <3>3
  <2>4. CASE Current.do = "put"
    <3>1. reg'[m[2]] = IF m[2] \in Range(Current.on) THEN o ELSE reg[m[2]]
      BY <1>1, <1>2, <2>4 DEF AnswerCommand
    <3>2. Current.on = <<m[2]>> => m[2] \in Range(Current.on)
      BY DEF Range
    <3>3. Range(Current.on) \subseteq Sets(plan[o])
      BY <1>1, <2>4, StepRegisters
    <3> QED
      BY <2>3, <2>4, <3>1, <3>2, <3>3
  <2>5. CASE Current.do = "putback"
    <3>1. m[2] \notin Range(Current.on)
      BY <1>1, <1>2, <2>5 DEF MirrorsAtOnce, StepOf
    <3>2. reg'[m[2]] = reg[m[2]]
      BY <1>1, <1>2, <2>5, <3>1 DEF AnswerCommand
    <3> QED
      BY <2>3, <2>5, <3>2
  <2>6. CASE Current.do = "get"
    <3>1. reg' = reg
      BY <1>1, <2>6
    <3>2. ASSUME Current.on = <<m[2]>>, m[2] \in DOMAIN s,
                 \A k \in 1..(f - 1) : StepOf(o, k).do = "get" => m[2] \notin Range(StepOf(o, k).on)
          PROVE  s[m[2]] = reg[m[2]]
      <4>1. Width(o, f) = 1
        BY <1>1, <2>6, <3>2 DEF Width
      <4>2. Front.pos = 1
        BY <1>1, <2>1, <4>1, AnswerFinds
      <4>3. Register = m[2]
        BY <3>2, <4>2 DEF Register
      <4>4. CASE s = Heard
        BY <3>2, <4>3, <4>4 DEF Heard
      <4>5. CASE s = seen[o]
        <5>1. PICK k \in 1..Length(o) :
                /\ StepOf(o, k).do = "get" /\ m[2] \in Range(StepOf(o, k).on)
                /\ k < at[o] \/ (k = at[o] /\ Width(o, k) > 1)
          BY <1>1, <2>1, <3>2, <4>5 DEF AskedFor
        <5>2. k < f
          BY <2>1, <4>1, <5>1
        <5> QED
          BY <1>1, <3>2, <5>1, <5>2
      <4> QED
        BY <4>4, <4>5
    <3> QED
      BY <2>3, <2>6, <3>1, <3>2
  <2> QED
    BY <1>1, <2>4, <2>5, <2>6 DEF AtPort
<1> QED
  BY <1>3, <1>4

\* What a call that begins finds and leaves.
LEMMA StartLines ==
  ASSUME QInv, NEW c \in Callers, Start(c)
  PROVE  /\ ~lost /\ ~lost' /\ Typed /\ status[c] = "idle" /\ Length(c) \in Nat
         /\ UNCHANGED <<plan, reg, seen, reached, lost, timeouts>>
         /\ DOMAIN met = Callers
         /\ met' = [d \in Callers |->
              IF d = c THEN Running ELSE IF d \in Running THEN met[d] \union {c} ELSE met[d]]
         /\ at'[c] = NextStop(c, 1) /\ at'[c] \in 1..(Length(c) + 1)
         /\ status'[c] = IF at'[c] > Length(c) THEN plan[c].end ELSE "running"
         /\ field' = Kept(c, 1, at'[c], seen[c])
         /\ \A d \in Callers : d # c => at'[d] = at[d] /\ status'[d] = status[d]
         /\ Len(line) \in Nat /\ Len(line') \in Nat /\ Len(line') >= Len(line)
         /\ \A n \in 1..Len(line) : line'[n] = line[n] /\ line[n].by # c
         /\ \A n \in 1..Len(line') : n > Len(line) =>
              /\ line'[n].by = c /\ line'[n].step = at'[c] /\ at'[c] <= Length(c)
              /\ status'[c] = "running"
<1>1. /\ status[c] = "idle" /\ Continue(c, 1, line, seen[c]) /\ Batched(line) /\ Typed /\ Waits /\ ~lost
      /\ met' = [d \in Callers |->
           IF d = c THEN Running ELSE IF d \in Running THEN met[d] \union {c} ELSE met[d]]
      /\ UNCHANGED <<plan, reg, seen, reached, lost, timeouts>>
      /\ at \in [Callers -> Nat] /\ Length(c) \in Nat /\ plan[c].end \in {"ok", "refused"}
      /\ status \in [Callers -> {"idle", "running", "ok", "refused", "failed"}] /\ DOMAIN met = Callers
  BY DEF Start, QInv, Typed, Scripted
<1>2. Len(line) \in Nat /\ \A n \in 1..Len(line) : line[n].by # c
  BY <1>1, LenProperties DEF Waits, Batched
<1> DEFINE j == NextStop(c, 1)
<1>3. /\ at' = [at EXCEPT ![c] = j] /\ j \in 1..(Length(c) + 1)
      /\ status' = [status EXCEPT ![c] = IF j > Length(c) THEN plan[c].end ELSE "running"]
      /\ Batched(line') /\ Len(line') >= Len(line)
      /\ \A n \in 1..Len(line) : line'[n] = line[n]
      /\ \A n \in 1..Len(line') : n > Len(line) => line'[n].by = c /\ line'[n].step = j /\ j <= Length(c)
  <2>1. /\ Typed /\ 1 \in Nat \ {0} /\ 1 <= Length(c) + 1 /\ Batched(line)
        /\ \A n \in 1..Len(line) : line[n].by # c
        /\ Continue(c, 1, line, seen[c])
    BY <1>1, <1>2
  <2> QED
    BY <2>1, ContinueQueues
<1>4. field' = Kept(c, 1, j, seen[c])
  BY <1>1 DEF Continue
<1> HIDE DEF j
<1>5. /\ at'[c] = j /\ status'[c] = (IF j > Length(c) THEN plan[c].end ELSE "running")
      /\ \A d \in Callers : d # c => at'[d] = at[d] /\ status'[d] = status[d]
      /\ Len(line') \in Nat
  BY <1>1, <1>3, LenProperties DEF Batched
<1>6. j <= Length(c) => status'[c] = "running"
  BY <1>1, <1>3, <1>5
<1> QED
  BY <1>1, <1>2, <1>3, <1>4, <1>5, <1>6 DEF j
-----------------------------------------------------------------------------
(* Selections hold and remembered fields agree *)

LEMMA MemoryMirrors ==
  ASSUME Typed, NEW c \in Callers
  PROVE  Memories(plan[c]) \subseteq Mirrors(plan[c])
<1> SUFFICES ASSUME NEW m \in Memories(plan[c]) PROVE m \in Mirrors(plan[c])
  OBVIOUS
<1>1. /\ Length(c) \in Nat /\ DOMAIN plan[c].steps = 1..Length(c) /\ SelectsFirst(plan)
  BY PlanTidy DEF Typed, Scripted
<1>2. PICK i \in 1..Length(c) :
        StepOf(c, i).unless # "none" /\ m = <<StepOf(c, i).unless, StepOf(c, i).on[1]>>
  BY <1>1 DEF Memories, StepsOf, StepOf
<1>3. /\ i = 1 /\ 2 \in 1..Length(c)
      /\ StepOf(c, 2).do = "keep" /\ StepOf(c, 2).mirror
      /\ StepOf(c, 2).on[1] = StepOf(c, 1).unless /\ StepOf(c, 1).on = <<StepOf(c, 2).on[2]>>
  BY <1>1, <1>2 DEF SelectsFirst, StepOf
<1>4. m = <<StepOf(c, 2).on[1], StepOf(c, 2).on[2]>>
  BY <1>2, <1>3
<1>5. StepOf(c, 2) \in StepsOf(plan[c], {"keep", "learn"})
  BY <1>1, <1>3 DEF StepsOf, StepOf
<1> QED
  BY <1>3, <1>4, <1>5 DEF Mirrors

LEMMA InitSelects == Init => SInv
<1> SUFFICES ASSUME Init PROVE SInv
  OBVIOUS
<1>1. Typed /\ Len(line) = 0 /\ Running = {}
  BY InitQueues DEF QInv, Init, Running
<1>2. CommandsAwaited /\ CommandsBehind /\ AskedFor /\ SelectedSoFar
  BY <1>1 DEF CommandsAwaited, CommandsBehind, AskedFor, SelectedSoFar
<1>3. SelectionHolds
  BY DEF SelectionHolds, Init
<1> DEFINE memories == UNION {Memories(plan[c]) : c \in Callers}
<1>4. PICK v \in Values :
        /\ field = [f \in Fields(plan) |-> IF \E m \in memories : m[1] = f THEN v ELSE Nobody]
        /\ reg = [r \in Registers(plan) |-> IF \E m \in memories : m[2] = r THEN v ELSE Nobody]
  BY DEF Init
<1> HIDE DEF memories
<1>5. ASSUME NEW c \in Callers, NEW m \in Mirrors(plan[c])
      PROVE  /\ field[m[1]] = IF \E g \in memories : g[1] = m[1] THEN v ELSE Nobody
             /\ reg[m[2]] = IF \E g \in memories : g[2] = m[2] THEN v ELSE Nobody
  BY <1>1, <1>4, MirrorTyped DEF Typed
<1>6. MemoriesAgree
  <2> SUFFICES ASSUME NEW c \in Callers, NEW m \in Memories(plan[c]) PROVE field[m[1]] = reg[m[2]]
    BY DEF MemoriesAgree
  <2>1. m \in Mirrors(plan[c])
    BY <1>1, MemoryMirrors
  <2>2. m \in memories
    BY DEF memories
  <2> QED
    BY <1>5, <2>1, <2>2
<1>7. MirrorsAgree
  <2> SUFFICES ASSUME NEW c \in Callers, NEW m \in Mirrors(plan[c]), reg[m[2]] = c PROVE field[m[1]] = c
    BY DEF MirrorsAgree
  <2>1. PICK g \in memories : g[2] = m[2] /\ v = c
    BY <1>5, CallersAssumption
  <2>2. PICK d \in Callers : g \in Memories(plan[d])
    BY DEF memories
  <2>3. m = g
    BY <1>1, <2>1, <2>2, PlanTidy DEF MirrorsAtOnce, Typed
  <2> QED
    BY <1>5, <2>1, <2>3
<1> QED
  BY <1>2, <1>3, <1>6, <1>7 DEF SInv

\* The scripts do not change.
LEMMA SamePlan ==
  ASSUME UNCHANGED plan
  PROVE  /\ \A c, i : StepOf(c, i)' = StepOf(c, i)
         /\ \A c : Length(c)' = Length(c)
         /\ \A c, i : Width(c, i)' = Width(c, i)
BY DEF StepOf, Length, Width

\* Commands of others than c are awaited by somebody whom c has met.
LEMMA NobodyElse ==
  ASSUME QInv, CommandsAwaited, ~lost, NEW n \in 1..Len(line), IsCommand(line[n])
  PROVE  line[n].by \in Running /\ \A c \in Running : line[n].by # c => met[c] # {}
<1>1. line[n].by \in Callers
  BY LineTyped DEF QInv
<1>2. line[n].by \in Running
  BY <1>1 DEF CommandsAwaited, Running
<1> QED
  BY <1>2 DEF QInv, Meets

LEMMA StartSelects == ASSUME QInv, Fresh, SInv, NEW c \in Callers, Start(c) PROVE SInv'
<1>1. /\ ~lost /\ ~lost' /\ Typed /\ status[c] = "idle" /\ Length(c) \in Nat
      /\ UNCHANGED <<plan, reg, seen, reached, lost, timeouts>>
      /\ met' = [d \in Callers |->
           IF d = c THEN Running ELSE IF d \in Running THEN met[d] \union {c} ELSE met[d]]
      /\ at'[c] = NextStop(c, 1) /\ at'[c] \in 1..(Length(c) + 1)
      /\ field' = Kept(c, 1, at'[c], seen[c])
      /\ \A d \in Callers : d # c => at'[d] = at[d] /\ status'[d] = status[d]
      /\ Len(line) \in Nat /\ Len(line') \in Nat
      /\ \A n \in 1..Len(line) : line'[n] = line[n] /\ line[n].by # c
      /\ \A n \in 1..Len(line') : n > Len(line) =>
           line'[n].by = c /\ line'[n].step = at'[c] /\ at'[c] <= Length(c) /\ status'[c] = "running"
  BY StartLines
<1>2. /\ CommandsAwaited /\ CommandsBehind /\ MemoriesAgree /\ MirrorsAgree /\ AskedFor /\ SelectedSoFar
      /\ SelectionHolds
  BY DEF SInv
<1>3. \A n \in 1..Len(line) : line[n].by \in Callers
  BY LineTyped DEF QInv
<1>4. ASSUME NEW n \in 1..Len(line'), n <= Len(line) PROVE n \in 1..Len(line)
  BY <1>1, <1>4
<1>5. \A d \in Callers : d # c /\ met'[d] = {} => met[d] = {}
  BY <1>1
<1>6. \A l : IsCommand(l)' = IsCommand(l)
  BY <1>1 DEF IsCommand, StepOf
<1>7. CommandsAwaited'
  <2> SUFFICES ASSUME NEW n \in 1..Len(line'), IsCommand(line'[n]) PROVE status'[line'[n].by] = "running"
    BY <1>6 DEF CommandsAwaited
  <2>1. CASE n <= Len(line)
    <3>1. n \in 1..Len(line) /\ IsCommand(line[n]) /\ line'[n] = line[n]
      BY <1>1, <1>4, <2>1
    <3>2. status[line[n].by] = "running"
      BY <1>1, <1>2, <3>1 DEF CommandsAwaited
    <3> QED
      BY <1>1, <1>3, <3>1, <3>2
  <2>2. CASE n > Len(line)
    BY <1>1, <2>2
  <2> QED
    BY <1>1, <2>1, <2>2
<1>8. CommandsBehind'
  <2> SUFFICES ASSUME NEW m \in 1..Len(line'), NEW n \in 1..Len(line'), m < n, met'[line'[n].by] = {},
                      IsCommand(line'[m])
               PROVE  line'[m].by = line'[n].by
    BY <1>6 DEF CommandsBehind
  <2>1. CASE n <= Len(line)
    <3>1. m \in 1..Len(line) /\ n \in 1..Len(line)
      BY <1>1, <2>1
    <3>2. line'[m] = line[m] /\ line'[n] = line[n] /\ met[line[n].by] = {}
      BY <1>1, <1>3, <1>5, <3>1
    <3> QED
      BY <1>1, <1>2, <3>1, <3>2 DEF CommandsBehind
  <2>2. CASE n > Len(line) /\ m <= Len(line)
    <3>1. m \in 1..Len(line) /\ IsCommand(line[m])
      BY <1>1, <1>4, <2>2
    <3>2. line[m].by \in Running
      BY <1>1, <1>2, <3>1, NobodyElse
    <3> QED
      BY <1>1, <2>2, <3>2
  <2>3. CASE n > Len(line) /\ m > Len(line)
    BY <1>1, <2>3
  <2> QED
    BY <1>1, <2>1, <2>2, <2>3
<1>9. ASSUME NEW d \in Callers, NEW m \in Mirrors(plan[d]) PROVE field'[m[1]] = field[m[1]]
  BY <1>1, StartAssigns
<1>10. MemoriesAgree' /\ MirrorsAgree'
  <2>1. \A d \in Callers : Memories(plan[d]) \subseteq Mirrors(plan[d])
    BY <1>1, MemoryMirrors
  <2>2. MemoriesAgree'
    BY <1>1, <1>2, <1>9, <2>1 DEF MemoriesAgree
  <2>3. MirrorsAgree'
    BY <1>1, <1>2, <1>9 DEF MirrorsAgree
  <2> QED
    BY <2>2, <2>3
<1>11. AskedFor'
  <2> SUFFICES ASSUME NEW d \in Running', NEW r \in DOMAIN seen[d]
               PROVE  \E j \in 1..Length(d) :
                        /\ StepOf(d, j).do = "get" /\ r \in Range(StepOf(d, j).on)
                        /\ j < at'[d] \/ (j = at'[d] /\ Width(d, j) > 1)
    BY <1>1, SamePlan DEF AskedFor
  <2>1. d # c
    <3>1. seen[c] = <<>>
      BY <1>1 DEF Fresh
    <3> QED
      BY <3>1
  <2>2. d \in Running /\ at'[d] = at[d]
    BY <1>1, <2>1 DEF Running
  <2> QED
    BY <1>1, <1>2, <2>2 DEF AskedFor
<1>12. SelectedSoFar'
  <2>0. \A d, i : HasSelected(d, i)' = HasSelected(d, i)
    BY <1>1 DEF HasSelected, StepOf, Length
  <2> SUFFICES ASSUME NEW n \in 1..Len(line'), met'[line'[n].by] = {}
               PROVE  HasSelected(line'[n].by, line'[n].step)
    BY <1>1, <2>0 DEF SelectedSoFar
  <2>1. CASE n <= Len(line)
    <3>1. n \in 1..Len(line) /\ line'[n] = line[n] /\ line[n].by # c /\ line[n].by \in Callers
      BY <1>1, <1>3, <1>4, <2>1
    <3>2. met[line[n].by] = {}
      BY <1>5, <3>1
    <3> QED
      BY <1>1, <1>2, <3>1, <3>2 DEF SelectedSoFar
  <2>2. CASE n > Len(line)
    <3>1. line'[n].by = c /\ line'[n].step = NextStop(c, 1)
      BY <1>1, <2>2
    <3> SUFFICES ASSUME NEW k \in 1..(NextStop(c, 1) - 1), StepOf(c, k).do = "put",
                        NEW r \in Range(StepOf(c, k).on)
                 PROVE  reg[r] = c
      BY <3>1 DEF HasSelected
    <3>2. k \in 1..Length(c)
      BY <1>1, <2>2
    <3>3. /\ k = 1 /\ StepOf(c, 1).on = <<StepOf(c, 1).on[1]>> /\ field[StepOf(c, 1).unless] = c
          /\ <<StepOf(c, 1).unless, StepOf(c, 1).on[1]>> \in Memories(plan[c])
      <4>1. StepOf(c, k).do \in AtPort /\ 1 \in Nat \ {0} /\ 1 <= Length(c) + 1
        BY <1>1 DEF AtPort
      <4> QED
        BY <1>1, <3>2, <4>1, TurnSteps
    <3>4. r = StepOf(c, 1).on[1]
      BY <3>3 DEF Range
    <3>5. field[StepOf(c, 1).unless] = reg[StepOf(c, 1).on[1]]
      BY <1>1, <1>2, <3>3 DEF MemoriesAgree
    <3> QED
      BY <3>3, <3>4, <3>5
  <2> QED
    BY <1>1, <2>1, <2>2
<1>13. SelectionHolds'
  <2> SUFFICES ASSUME NEW d \in Callers, NEW x \in reached[d], met'[d] = {}, x[1] \in Sets(plan[d])
               PROVE  x[2] = d
    BY <1>1 DEF SelectionHolds
  <2>1. d # c
    BY <1>1 DEF Fresh
  <2> QED
    BY <1>2, <1>5, <2>1 DEF SelectionHolds
<1> QED
  BY <1>7, <1>8, <1>10, <1>11, <1>12, <1>13 DEF SInv

\* A command that is served disturbs no selection but its own caller's, and renews that.
LEMMA SelectionStays ==
  ASSUME Typed, Typed', UNCHANGED plan, NEW o \in Callers, o = Owner, Current.do = "get" => UNCHANGED reg,
         NEW f \in 1..Length(o), Current = StepOf(o, f),
         Current.do # "get" => AnswerCommand, Current.do \in AtPort,
         NEW c \in Callers, Current.do = "get" \/ c = o,
         NEW i \in Nat, i <= Length(c) + 1, HasSelected(c, i)
  PROVE  HasSelected(c, i)'
<1>1. /\ Length(c) \in Nat /\ \A d, k : StepOf(d, k)' = StepOf(d, k)
      /\ \A d : Length(d)' = Length(d)
  BY SamePlan DEF Typed, Scripted
<1> SUFFICES ASSUME NEW k \in 1..(i - 1), StepOf(c, k).do = "put", NEW r \in Range(StepOf(c, k).on),
                    \A j \in 1..Length(c) : StepOf(c, j).do = "putback" => r \notin Range(StepOf(c, j).on)
             PROVE  reg'[r] = c
  BY <1>1 DEF HasSelected
<1>2. reg[r] = c
  BY DEF HasSelected
<1>3. r \in DOMAIN reg
  <2>1. k \in 1..Length(c)
    BY <1>1
  <2>2. Range(StepOf(c, k).on) \subseteq Sets(plan[c])
    BY <2>1, StepRegisters
  <2> QED
    BY <2>2 DEF Typed, Registers
<1>4. CASE Current.do = "get"
  BY <1>2, <1>4
<1>5. CASE Current.do # "get"
  <2>1. /\ c = o
        /\ reg'[r] = IF r \notin Range(Current.on) THEN reg[r]
                     ELSE IF Current.do = "putback" /\ r \in DOMAIN seen[Owner] THEN seen[Owner][r] ELSE Owner
    BY <1>3, <1>5 DEF AnswerCommand
  <2>2. Current.do = "putback" => r \notin Range(Current.on)
    BY <2>1
  <2> QED
    BY <1>2, <2>1, <2>2
<1> QED
  BY <1>4, <1>5

LEMMA SelectedThere ==
  ASSUME NEW n, NEW c, NEW i, c = line'[n].by, i = line'[n].step, HasSelected(c, i)'
  PROVE  HasSelected(line[n].by, line[n].step)'
BY DEF HasSelected, StepOf, Length

LEMMA ServeSelects == ASSUME QInv, QInv', SInv, Serve, ~lost' PROVE SInv'
<1> DEFINE own == Owner
           front == Front.step
<1>0. PICK o : o = own
  OBVIOUS
<1>a. own \in Callers /\ front \in 1..Length(own)
  BY Served DEF SInv
<1>b. PICK f \in 1..Length(o) : f = front
  BY <1>0, <1>a
<1> HIDE DEF own, front
<1>1. o = Owner /\ f = Front.step
  BY <1>0, <1>b DEF own, front
<1>2. /\ CommandsAwaited /\ CommandsBehind /\ MemoriesAgree /\ MirrorsAgree /\ AskedFor /\ SelectedSoFar
      /\ SelectionHolds
  BY DEF SInv
<1>3. /\ line # <<>> /\ ~lost /\ UNCHANGED <<plan, met>>
      /\ Typed /\ o \in Callers /\ Length(o) \in Nat
      /\ Current = StepOf(o, f) /\ Current.do \in AtPort
      /\ Len(line) \in Nat \ {0} /\ line[1].by = o /\ line[1].step = f
      /\ Current.do = "get" => UNCHANGED reg
      /\ Current.do # "get" => AnswerCommand
      /\ \/ GoesOn
         \/ /\ Current.do = "get" /\ line' = Tail(line) /\ UNCHANGED field
            /\ UNCHANGED <<at, status>> \/ (Awaited /\ Abandon(o, Tail(line)))
  BY <1>1, <1>2, Served
<1>4. /\ Len(line') \in Nat
      /\ \A d \in Callers : d # o => at'[d] = at[d] /\ status'[d] = status[d]
      /\ \A d \in Running' : d \in Running
      /\ \A n \in 1..Len(line') :
           \/ n + 1 \in 1..Len(line) /\ line'[n] = line[n + 1] /\ (GoesOn => line[n + 1].by # o)
           \/ /\ GoesOn /\ n >= Len(line) /\ line'[n].by = o /\ line'[n].step = at'[o]
              /\ at'[o] <= Length(o) /\ status'[o] = "running"
      /\ GoesOn =>
           /\ at[o] = f /\ o \in Running
           /\ at'[o] \in (f + 1)..(Length(o) + 1)
           /\ \A k \in (f + 1)..(at'[o] - 1) : k \in 1..Length(o) /\ StepOf(o, k).do \notin AtPort
           /\ \A n \in 1..Len(line') : n < Len(line) <=> n + 1 \in 1..Len(line)
  BY <1>1, <1>2, ServedLines
<1>5. \A n \in 1..Len(line) : line[n].by \in Callers
  BY LineTyped DEF QInv
<1>6. \A l : IsCommand(l)' = IsCommand(l)
  BY <1>3 DEF IsCommand, StepOf
<1>7. 1 \in 1..Len(line) /\ IsCommand(line[1]) = (Current.do # "get")
  BY <1>3 DEF IsCommand, AtPort
<1>8. CommandsAwaited'
  <2> SUFFICES ASSUME NEW n \in 1..Len(line'), IsCommand(line'[n]) PROVE status'[line'[n].by] = "running"
    BY <1>6 DEF CommandsAwaited
  <2>1. CASE n + 1 \in 1..Len(line) /\ line'[n] = line[n + 1] /\ (GoesOn => line[n + 1].by # o)
    <3>1. IsCommand(line[n + 1]) /\ status[line[n + 1].by] = "running" /\ line[n + 1].by \in Callers
      BY <1>2, <1>3, <1>5, <2>1 DEF CommandsAwaited
    <3>2. CASE line[n + 1].by # o
      BY <1>4, <2>1, <3>1, <3>2
    <3>3. CASE line[n + 1].by = o
      <4>1. Current.do = "get" /\ at[o] = line[n + 1].step
        BY <1>3, <2>1, <3>1, <3>3 DEF QInv, Waits
      <4>2. StepOf(o, at[o]).do # "get"
        BY <3>1, <3>3, <4>1 DEF IsCommand
      <4>3. ~Awaited
        BY <1>1, <1>3, <4>1, <4>2 DEF Awaited
      <4> QED
        BY <1>3, <2>1, <3>1, <3>3, <4>3
    <3> QED
      BY <3>2, <3>3
  <2>2. CASE status'[o] = "running" /\ line'[n].by = o
    BY <2>2
  <2> QED
    BY <1>4, <2>1, <2>2
<1>9. CommandsBehind'
  <2> SUFFICES ASSUME NEW m \in 1..Len(line'), NEW n \in 1..Len(line'), m < n, met[line'[n].by] = {},
                      IsCommand(line'[m])
               PROVE  line'[m].by = line'[n].by
    BY <1>3, <1>6 DEF CommandsBehind
  <2>1. CASE n + 1 \in 1..Len(line) /\ line'[n] = line[n + 1]
    <3>1. m + 1 \in 1..Len(line) /\ m + 1 < n + 1
      BY <1>3, <2>1
    <3>2. line'[m] = line[m + 1]
      BY <1>3, <1>4, <3>1
    <3> QED
      BY <1>2, <1>3, <2>1, <3>1, <3>2 DEF CommandsBehind
  <2>2. CASE GoesOn /\ line'[n].by = o
    <3>1. CASE m + 1 \in 1..Len(line) /\ line'[m] = line[m + 1]
      <4>1. IsCommand(line[m + 1]) /\ o \in Running /\ met[o] = {}
        BY <1>4, <2>2, <3>1
      <4>2. line[m + 1].by = o
        BY <1>2, <1>3, <3>1, <4>1, NobodyElse
      <4> QED
        BY <2>2, <3>1, <4>2
    <3>2. CASE line'[m].by = o
      BY <2>2, <3>2
    <3> QED
      BY <1>4, <3>1, <3>2
  <2> QED
    BY <1>4, <2>1, <2>2
<1>10. ASSUME NEW d \in Callers, NEW m \in Mirrors(plan[d])
       PROVE  \/ reg'[m[2]] = reg[m[2]] /\ (field'[m[1]] = field[m[1]] \/ field'[m[1]] = reg[m[2]])
              \/ reg'[m[2]] = o /\ m[2] \in Sets(plan[o]) /\ (m \in Mirrors(plan[o]) => field'[m[1]] = o)
  BY <1>1, <1>2, FieldFollows
<1>11. MemoriesAgree'
  <2> SUFFICES ASSUME NEW d \in Callers, NEW m \in Memories(plan[d]) PROVE field'[m[1]] = reg'[m[2]]
    BY <1>3 DEF MemoriesAgree
  <2>1. m \in Mirrors(plan[d]) /\ field[m[1]] = reg[m[2]]
    BY <1>2, <1>3, MemoryMirrors DEF MemoriesAgree
  <2>2. m[2] \in Sets(plan[o]) => m \in Mirrors(plan[o])
    BY <1>3, PlanTidy DEF MirrorsAtOnce, Typed
  <2> QED
    BY <1>10, <2>1, <2>2
<1>12. MirrorsAgree'
  <2> SUFFICES ASSUME NEW d \in Callers, NEW m \in Mirrors(plan[d]), reg'[m[2]] = d PROVE field'[m[1]] = d
    BY <1>3 DEF MirrorsAgree
  <2>1. reg[m[2]] = d => field[m[1]] = d
    BY <1>2, <1>3 DEF MirrorsAgree
  <2> QED
    BY <1>10, <2>1
<1>13. AskedFor'
  <2> SUFFICES ASSUME NEW d \in Running', NEW r \in DOMAIN seen'[d]
               PROVE  \E j \in 1..Length(d) :
                        /\ StepOf(d, j).do = "get" /\ r \in Range(StepOf(d, j).on)
                        /\ j < at'[d] \/ (j = at'[d] /\ Width(d, j) > 1)
    BY <1>3, SamePlan DEF AskedFor
  <2>1. d \in Running /\ d \in Callers
    BY <1>4 DEF Running
  <2>2. \/ at'[d] = at[d]
        \/ GoesOn /\ d = o /\ at[d] = f /\ at'[d] > f
    <3>1. CASE GoesOn
      <4>1. at'[o] > f /\ at[o] = f
        BY <1>4, <3>1
      <4> QED
        BY <1>4, <2>1, <3>1, <4>1
    <3>2. CASE Abandon(o, Tail(line))
      <4>1. status' = [status EXCEPT ![o] = IF StepOf(o, at[o]).rescued THEN "ok" ELSE "failed"]
        BY <3>2 DEF Abandon
      <4>2. status'[o] # "running"
        BY <1>3, <4>1 DEF Typed
      <4> QED
        BY <1>4, <2>1, <4>2 DEF Running
    <3> QED
      BY <1>3, <3>1, <3>2
  <2>3. CASE r \in DOMAIN seen[d]
    <3>1. PICK j \in 1..Length(d) :
            /\ StepOf(d, j).do = "get" /\ r \in Range(StepOf(d, j).on)
            /\ j < at[d] \/ (j = at[d] /\ Width(d, j) > 1)
      BY <1>2, <1>3, <2>1, <2>3 DEF AskedFor
    <3>2. j < at'[d] \/ (j = at'[d] /\ Width(d, j) > 1)
      BY <1>3, <1>4, <2>2, <3>1
    <3> QED
      BY <3>1, <3>2
  <2>4. CASE r \notin DOMAIN seen[d]
    <3>1. AnswerQuery
      BY <2>4 DEF Serve, AnswerCommand, QueryTimesOut, RefuseLine
    <3>2. d = o /\ r = Register /\ Current.do = "get"
      <4>1. seen' = [seen EXCEPT ![o] = Heard] /\ DOMAIN seen = Callers
        BY <1>1, <1>3, <3>1 DEF AnswerQuery, Typed
      <4>2. d = o
        BY <2>1, <2>4, <4>1
      <4>3. DOMAIN seen'[o] = DOMAIN seen[o] \union {Register}
        BY <1>1, <1>3, <4>1 DEF Heard
      <4> QED
        BY <2>4, <3>1, <4>2, <4>3 DEF AnswerQuery
    <3>3. /\ Width(o, f) \in Nat /\ Front.pos \in 1..Width(o, f) /\ DOMAIN Current.on = 1..Width(o, f)
          /\ Awaited /\ ~LastOfStep => Len(line) > 1 /\ Follows(line[1], line[2])
          /\ Front = line[1]
      BY <1>1, <1>3, <3>2, AnswerFinds
    <3>4. r \in Range(StepOf(o, f).on)
      BY <1>3, <3>2, <3>3 DEF Register, Range
    <3>5. at[o] = f /\ Awaited
      BY <1>1, <1>3, <2>1, <3>2, FrontGoes DEF Running, Awaited
    <3>6. CASE LastOfStep
      <4>1. GoesOn
        BY <1>1, <3>1, <3>5, <3>6 DEF AnswerQuery, Resume, GoesOn
      <4> QED
        BY <1>3, <1>4, <3>2, <3>4, <4>1
    <3>7. CASE ~LastOfStep
      <4>1. at' = at
        BY <3>1, <3>7 DEF AnswerQuery, Resume
      <4>2. Width(o, f) > 1
        <5>1. 2 \in 1..Len(line) /\ line[2].by = o /\ line[2].step = f /\ line[2].pos = Front.pos + 1
          BY <1>3, <3>3, <3>5, <3>7 DEF Follows
        <5>2. line[2].pos \in 1..Width(o, f)
          BY <5>1 DEF QInv, Batched, Fits
        <5> QED
          BY <3>3, <5>1, <5>2
      <4> QED
        BY <1>3, <3>2, <3>4, <3>5, <4>1, <4>2
    <3> QED
      BY <3>6, <3>7
  <2> QED
    BY <2>3, <2>4
<1>14. ASSUME NEW c \in Callers, Current.do = "get" \/ c = o, NEW i \in Nat, i <= Length(c) + 1, HasSelected(c, i)
       PROVE  HasSelected(c, i)'
  BY <1>1, <1>3, <1>14, SelectionStays DEF QInv
<1>15. SelectedSoFar'
  <2> SUFFICES ASSUME NEW n \in 1..Len(line'), met[line'[n].by] = {}
               PROVE  HasSelected(line[n].by, line[n].step)'
    BY <1>3 DEF SelectedSoFar
  <2>1. CASE n + 1 \in 1..Len(line) /\ line'[n] = line[n + 1]
    <3>1. PICK c \in Callers : c = line[n + 1].by
      BY <1>5, <2>1
    <3>2. line[n + 1].step \in 1..Length(c)
      BY <2>1, <3>1 DEF QInv, Batched, Fits
    <3>3. PICK i \in Nat : i = line[n + 1].step /\ i <= Length(c) + 1
      BY <1>3, <3>2 DEF Typed, Scripted
    <3>4. HasSelected(c, i)
      BY <1>2, <1>3, <2>1, <3>1, <3>3 DEF SelectedSoFar
    <3>5. Current.do = "get" \/ c = o
      <4>1. 1 < n + 1 /\ met[line[n + 1].by] = {}
        BY <2>1
      <4> QED
        BY <1>2, <1>3, <1>7, <2>1, <3>1, <4>1 DEF CommandsBehind
    <3>6. HasSelected(c, i)'
      BY <1>14, <3>3, <3>4, <3>5
    <3> QED
      BY <2>1, <3>1, <3>3, <3>6, SelectedThere
  <2>2. CASE GoesOn /\ line'[n].by = o /\ line'[n].step = at'[o]
    <3>1. HasSelected(o, f)
      BY <1>2, <1>3, <1>7, <2>2 DEF SelectedSoFar
    <3>2. HasSelected(o, f)'
      BY <1>3, <1>14, <3>1
    <3>3. PICK j \in (f + 1)..(Length(o) + 1) : j = at'[o]
      BY <1>4, <2>2
    <3>4. HasSelected(o, j)'
      <4> SUFFICES ASSUME NEW k \in 1..(j - 1), StepOf(o, k).do = "put", NEW r \in Range(StepOf(o, k).on),
                          \A i \in 1..Length(o) : StepOf(o, i).do = "putback" => r \notin Range(StepOf(o, i).on)
                   PROVE  reg'[r] = o
        BY <1>3, SamePlan, SMTT(30) DEF HasSelected
      <4>1. CASE k < f
        <5>1. k \in 1..(f - 1)
          BY <4>1
        <5> QED
          BY <1>3, <3>2, <5>1, SamePlan DEF HasSelected
      <4>2. CASE k = f
        <5>1. AnswerCommand /\ Range(Current.on) \subseteq Sets(plan[o])
          BY <1>3, <4>2, StepRegisters
        <5>2. r \in DOMAIN reg
          BY <1>3, <4>2, <5>1 DEF Typed, Registers
        <5> QED
          BY <1>1, <1>3, <4>2, <5>1, <5>2 DEF AnswerCommand
      <4>3. CASE k > f
        <5>1. k \in (f + 1)..(at'[o] - 1)
          BY <3>3, <4>3
        <5> QED
          BY <1>4, <2>2, <5>1 DEF AtPort
      <4> QED
        BY <4>1, <4>2, <4>3
    <3> QED
      BY <2>2, <3>3, <3>4, SelectedThere
  <2> QED
    BY <1>4, <2>1, <2>2
<1>16. SelectionHolds'
  <2> SUFFICES ASSUME NEW d \in Callers, NEW x \in reached'[d], met[d] = {}, x[1] \in Sets(plan[d])
               PROVE  x[2] = d
    BY <1>3 DEF SelectionHolds
  <2>1. CASE x \in reached[d]
    BY <1>2, <2>1 DEF SelectionHolds
  <2>2. CASE x \notin reached[d]
    <3>1. GoneThrough
      BY <2>2 DEF Serve, AnswerCommand, AnswerQuery, QueryTimesOut, RefuseLine
    <3>2. d = o /\ \E r \in Current.via : x = <<r, reg[r]>>
      BY <1>1, <1>3, <2>2, <3>1 DEF GoneThrough, Typed
    <3>3. x[1] \in StepOf(o, f).via \intersect Sets(plan[o]) /\ x[2] = reg[x[1]]
      BY <1>3, <3>2
    <3>4. /\ \E k \in 1..(f - 1) : StepOf(o, k).do = "put" /\ x[1] \in Range(StepOf(o, k).on)
          /\ \A j \in 1..Length(o) : StepOf(o, j).do = "putback" => x[1] \notin Range(StepOf(o, j).on)
      <4>1. DOMAIN plan[o].steps = 1..Length(o) /\ SelectsFirst(plan)
        BY <1>3, PlanTidy DEF Typed, Scripted
      <4> QED
        BY <1>3, <3>3, <4>1 DEF SelectsFirst, StepOf
    <3>5. HasSelected(o, f)
      BY <1>2, <1>3, <1>7, <3>2 DEF SelectedSoFar
    <3> QED
      BY <3>2, <3>3, <3>4, <3>5 DEF HasSelected
  <2> QED
    BY <2>1, <2>2
<1> QED
  BY <1>8, <1>9, <1>11, <1>12, <1>13, <1>15, <1>16 DEF SInv

\* When the connection has gone only what happened before counts.
LEMMA LostSelects == ASSUME lost', SelectionHolds' PROVE SInv'
BY DEF SInv, CommandsAwaited, CommandsBehind, MemoriesAgree, MirrorsAgree, AskedFor, SelectedSoFar

LEMMA SameSelects == ASSUME SInv, UNCHANGED vars PROVE SInv'
<1>1. /\ CommandsAwaited /\ CommandsBehind /\ MemoriesAgree /\ MirrorsAgree /\ AskedFor /\ SelectedSoFar
      /\ SelectionHolds
      /\ plan' = plan /\ at' = at /\ line' = line /\ reg' = reg /\ field' = field /\ status' = status
      /\ seen' = seen /\ reached' = reached /\ met' = met /\ lost' = lost
  BY DEF SInv, vars
<1>2. CommandsAwaited' /\ CommandsBehind'
  BY <1>1 DEF CommandsAwaited, CommandsBehind, IsCommand, StepOf
<1>3. MemoriesAgree' /\ MirrorsAgree'
  BY <1>1 DEF MemoriesAgree, MirrorsAgree
<1>4. AskedFor'
  BY <1>1 DEF AskedFor, Running, StepOf, Length, Width
<1>5. SelectedSoFar'
  BY <1>1 DEF SelectedSoFar, HasSelected, StepOf, Length
<1>6. SelectionHolds'
  BY <1>1 DEF SelectionHolds
<1> QED
  BY <1>2, <1>3, <1>4, <1>5, <1>6 DEF SInv

LEMMA NextSelects == ASSUME QInv, QInv', Fresh, SInv, [Next]_vars PROVE SInv'
<1>1. ASSUME NEW c \in Callers, Start(c) PROVE SInv'
  BY <1>1, StartSelects
<1>2. CASE Serve /\ ~lost'
  BY <1>2, ServeSelects
<1>3. CASE Lose \/ (Serve /\ lost')
  <2>1. lost' /\ UNCHANGED <<plan, reached, met>>
    BY <1>3 DEF Lose, Serve, AnswerCommand, AnswerQuery, QueryTimesOut, RefuseLine
  <2>2. SelectionHolds'
    BY <2>1 DEF SInv, SelectionHolds
  <2> QED
    BY <2>1, <2>2, LostSelects
<1>4. CASE UNCHANGED vars
  BY <1>4, SameSelects
<1> QED
  BY <1>1, <1>2, <1>3, <1>4 DEF Next

\* The selections, the fields and what has been read agree as long as the connection stands.
THEOREM SInvHolds == Spec => []SInv
<1>1. Init => SInv
  BY InitSelects
<1>2. QInv /\ RInv /\ QInv' /\ RInv' /\ SInv /\ [Next]_vars => SInv'
  BY NextSelects DEF RInv
<1> QED
  BY <1>1, <1>2, IInvHolds, PTL DEF Spec

\* A call that met no other has commanded and read its own channel: what went out before
\* it, and what its driver remembered, are what it selected.
THEOREM SelectionsHold == Spec => []SelectionHolds
<1>1. SInv => SelectionHolds
  BY DEF SInv
<1> QED
  BY <1>1, SInvHolds, PTL

\* A field that stands for a register is right when its driver was the last to set it.
THEOREM CachesAgree == Spec => []CacheAgrees
<1>1. SInv => CacheAgrees
  BY DEF SInv, MirrorsAgree, CacheAgrees
<1> QED
  BY <1>1, SInvHolds, PTL
-----------------------------------------------------------------------------
(* Calls of one method with the same parts *)

\* All callers follow one script, which sets only what is its caller's, and nothing has
\* gone wrong.
Uniform ==
  /\ ~lost
  /\ \A c, d \in Callers : plan[c] = plan[d]
  /\ \A c \in Callers : status[c] \in {"idle", "running", "ok"}
  /\ \A c \in Callers : \A i \in 1..Length(c) : ~StepOf(c, i).rescued /\ StepOf(c, i).do # "putback"

\* The registers and fields that a step gives its caller's value.
SetBy(c, i) ==
  {<<"reg", r>> : r \in {q \in Range(StepOf(c, i).on) : StepOf(c, i).do = "put"}}
    \union {<<"field", f>> : f \in {g \in {StepOf(c, i).on[1]} : StepOf(c, i).do = "keep"}}

Settings == UNION {UNION {SetBy(c, i) : i \in 1..Length(c)} : c \in Callers}

Value(x) == IF x[1] = "reg" THEN reg[x[2]] ELSE field[x[2]]

\* Who is at work and has set x, perhaps to set it again.
Begun(x) == {c \in Running : \E i \in 1..Length(c) : i < at[c] /\ x \in SetBy(c, i)}

Passed(c, x) == \A i \in 1..Length(c) : x \in SetBy(c, i) => i < at[c]

Ended == {c \in Callers : status[c] = "ok"}

\* c is at an earlier step than d, or at the same with its lines after those of d.
Behind(c, d) ==
  \/ at[c] < at[d]
  \/ at[c] = at[d] /\ \A m, n \in 1..Len(line) : line[m].by = d /\ line[n].by = c => m < n

\* A setting that nobody is about to set again is that of the hindmost.
HindmostHas ==
  Uniform => \A x \in Settings :
    Begun(x) # {} /\ (\A c \in Begun(x) : Passed(c, x)) =>
      Value(x) \in Begun(x) /\ \A c \in Begun(x) \ {Value(x)} : Behind(Value(x), c)

\* Settings that nobody at work has set are those of one call, once a call has ended.
AlikeAfter ==
  Uniform /\ Ended # {} => \A x, y \in Settings :
    Begun(x) = {} /\ Begun(y) = {} => Value(x) = Value(y) /\ Value(x) \in Callers

WInv == HindmostHas /\ AlikeAfter

\* What o sets in a turn from its step a up to j.
Done(o, a, j) == UNION {SetBy(o, k) : k \in {n \in 1..Length(o) : a <= n /\ n < j}}

\* A turn of o from its step a to j, as the others see it.  Nobody stands in between,
\* but perhaps at a selection that o has left out.
Turns(o, a, j) ==
  /\ UNCHANGED plan
  /\ at[o] = a /\ at'[o] = j /\ a < j /\ j <= Length(o) + 1
  /\ status[o] = (IF a = 0 THEN "idle" ELSE "running")
  /\ status'[o] = (IF j <= Length(o) THEN "running" ELSE "ok")
  /\ \A d \in Callers \ {o} : at'[d] = at[d] /\ status'[d] = status[d]
  /\ \A x \in Settings : Value(x)' = IF x \in Done(o, a, j) THEN o ELSE Value(x)
  /\ \A d \in Running \ {o} : at[d] <= a \/ at[d] <= 1 \/ j <= at[d]
  /\ \A c, d \in Callers \ {o} : Behind(c, d) => Behind(c, d)'
  /\ \A d \in Callers \ {o} : at[d] = j => Behind(o, d)'
  /\ a # 0 => \A d \in Running \ {o} : Behind(o, d) => a < at[d]

LEMMA SetByIs ==
  ASSUME NEW c, NEW i
  PROVE  /\ \A r : <<"reg", r>> \in SetBy(c, i) <=> StepOf(c, i).do = "put" /\ r \in Range(StepOf(c, i).on)
         /\ \A g : <<"field", g>> \in SetBy(c, i) <=> StepOf(c, i).do = "keep" /\ g = StepOf(c, i).on[1]
         /\ \A x \in SetBy(c, i) : (\E r : x = <<"reg", r>>) \/ (\E g : x = <<"field", g>>)
BY DEF SetBy

\* A setting is a register or a field that every caller's script sets somewhere.
LEMMA SettingIs ==
  ASSUME Typed, Uniform, NEW x \in Settings, NEW c \in Callers
  PROVE  /\ \E i \in 1..Length(c) : x \in SetBy(c, i)
         /\ \/ \E r \in DOMAIN reg : x = <<"reg", r>> /\ Value(x) = reg[r]
            \/ \E g \in DOMAIN field : x = <<"field", g>> /\ Value(x) = field[g]
<1>1. PICK d \in Callers : \E n \in 1..Length(d) : x \in SetBy(d, n)
  BY DEF Settings
<1>2. plan[c] = plan[d]
  BY DEF Uniform
<1>3. PICK i \in 1..Length(c) : x \in SetBy(c, i)
  BY <1>1, <1>2 DEF SetBy, StepOf, Length
<1>4. i \in DOMAIN plan[c].steps /\ DOMAIN field = Fields(plan)
  BY DEF Typed, Scripted
<1>5. CASE \E r : x = <<"reg", r>>
  <2>1. PICK r : x = <<"reg", r>>
    BY <1>5
  <2>2. StepOf(c, i).do = "put" /\ r \in Range(StepOf(c, i).on)
    BY <1>3, <2>1, SetByIs
  <2>3. r \in Sets(plan[c])
    BY <2>2, StepRegisters
  <2>4. r \in DOMAIN reg
    BY <2>3 DEF Typed, Registers
  <2>5. Value(x) = reg[r]
    BY <2>1 DEF Value
  <2> QED
    BY <1>3, <2>1, <2>4, <2>5
<1>6. CASE \E g : x = <<"field", g>>
  <2>1. PICK g : x = <<"field", g>>
    BY <1>6
  <2>2. StepOf(c, i).do = "keep" /\ g = StepOf(c, i).on[1]
    BY <1>3, <2>1, SetByIs
  <2>3. StepOf(c, i) \in StepsOf(plan[c], {"keep", "learn", "forget"})
    BY <1>4, <2>2 DEF StepsOf, StepOf
  <2>4. g \in DOMAIN field
    BY <1>4, <2>2, <2>3 DEF Fields, Assigns
  <2>5. Value(x) = field[g]
    BY <2>1 DEF Value
  <2> QED
    BY <1>3, <2>1, <2>4, <2>5
<1> QED
  BY <1>3, <1>5, <1>6, SetByIs

\* A field that is kept somewhere is its caller's when it is assigned in a turn.
LEMMA FieldSet ==
  ASSUME Typed, Uniform, NEW c \in Callers, NEW g, <<"field", g>> \in Settings,
         NEW i \in Nat \ {0}, NEW j \in Nat, j <= Length(c) + 1, NEW s, field' = Kept(c, i, j, s)
  PROVE  field'[g] = IF \E k \in i..(j - 1) : k \in 1..Length(c) /\ <<"field", g>> \in SetBy(c, k)
                     THEN c ELSE field[g]
<1> DEFINE x == <<"field", g>>
<1>1. PICK n \in 1..Length(c) : x \in SetBy(c, n)
  BY SettingIs
<1>2. StepOf(c, n).do = "keep" /\ StepOf(c, n).on[1] = g
  BY <1>1, SetByIs
<1>3. g \in DOMAIN field
  <2>1. \/ \E r \in DOMAIN reg : x = <<"reg", r>> /\ Value(x) = reg[r]
        \/ \E h \in DOMAIN field : x = <<"field", h>> /\ Value(x) = field[h]
    BY SettingIs
  <2> QED
    BY <2>1
<1>4. KeepsOnly(plan) /\ DOMAIN plan[c].steps = 1..Length(c)
  BY PlanTidy DEF Typed, Scripted
<1>5. \/ /\ field'[g] = field[g]
         /\ \A k \in i..(j - 1) : StepOf(c, k).do \in Assigning => StepOf(c, k).on[1] # g
      \/ \E k \in i..(j - 1) :
           /\ StepOf(c, k).do \in Assigning /\ StepOf(c, k).on[1] = g
           /\ field'[g] = Assigned(c, k, s) /\ k \in 1..Length(c)
  BY <1>3, KeptCases
<1>6. CASE /\ field'[g] = field[g]
           /\ \A k \in i..(j - 1) : StepOf(c, k).do \in Assigning => StepOf(c, k).on[1] # g
  <2>1. \A k \in i..(j - 1) : x \notin SetBy(c, k)
    BY <1>6, SetByIs DEF Assigning
  <2> QED
    BY <1>6, <2>1
<1>7. ASSUME NEW k \in i..(j - 1), StepOf(c, k).do \in Assigning, StepOf(c, k).on[1] = g,
             field'[g] = Assigned(c, k, s), k \in 1..Length(c)
      PROVE  field'[g] = c /\ x \in SetBy(c, k)
  <2>1. StepOf(c, k).do \notin {"learn", "forget"}
    BY <1>2, <1>4, <1>7 DEF KeepsOnly, StepOf
  <2>2. StepOf(c, k).do = "keep"
    BY <1>7, <2>1 DEF Assigning
  <2> QED
    BY <1>7, <2>2, SetByIs DEF Assigned
<1> QED
  BY <1>5, <1>6, <1>7

\* Who is at work stands at a step that goes to the port.
LEMMA StandsAtPort ==
  ASSUME QInv, NEW d \in Running
  PROVE  /\ at[d] \in 1..Length(d) /\ StepOf(d, at[d]).do \in AtPort
         /\ \E n \in 1..Len(line) : line[n].by = d
<1>1. DOMAIN line = 1..Len(line)
  BY LenProperties DEF QInv, Batched
<1>2. PICK n \in 1..Len(line) : line[n].by = d /\ line[n].step = at[d]
  BY <1>1 DEF QInv, NobodyStranded
<1> QED
  BY <1>2 DEF QInv, Batched, Fits, AtPort

LEMMA StartTurns ==
  ASSUME QInv, Fresh, MemoriesAgree, NEW o \in Callers, Start(o), Uniform, Uniform'
  PROVE  \E j \in Nat : Turns(o, 0, j)
<1>1. /\ ~lost /\ Typed /\ status[o] = "idle" /\ at[o] = 0 /\ Length(o) \in Nat
      /\ UNCHANGED <<plan, reg>>
      /\ at'[o] = NextStop(o, 1) /\ at'[o] \in 1..(Length(o) + 1)
      /\ status'[o] = IF at'[o] > Length(o) THEN plan[o].end ELSE "running"
      /\ field' = Kept(o, 1, at'[o], seen[o])
      /\ \A d \in Callers : d # o => at'[d] = at[d] /\ status'[d] = status[d]
      /\ Len(line) \in Nat /\ Len(line') \in Nat /\ Len(line') >= Len(line)
      /\ \A n \in 1..Len(line) : line'[n] = line[n] /\ line[n].by # o
      /\ \A n \in 1..Len(line') : n > Len(line) => line'[n].by = o
  BY StartLines DEF Fresh
<1>2. PICK j \in 1..(Length(o) + 1) : j = at'[o]
  BY <1>1
<1>3. at \in [Callers -> Nat] /\ plan[o].end \in {"ok", "refused"} /\ j \in Nat
  BY <1>1, <1>2 DEF Typed, Scripted
<1>4. status'[o] = IF j <= Length(o) THEN "running" ELSE "ok"
  <2>1. status'[o] \in {"idle", "running", "ok"}
    BY DEF Uniform
  <2> QED
    BY <1>1, <1>2, <1>3, <2>1
<1>5. ASSUME NEW k \in 1..(j - 1), StepOf(o, k).do \in AtPort, k \in 1..Length(o)
      PROVE  /\ k = 1 /\ StepOf(o, 1).on = <<StepOf(o, 1).on[1]>>
             /\ reg[StepOf(o, 1).on[1]] = o
  <2>1. /\ k = 1 /\ field[StepOf(o, 1).unless] = o /\ StepOf(o, 1).on = <<StepOf(o, 1).on[1]>>
        /\ <<StepOf(o, 1).unless, StepOf(o, 1).on[1]>> \in Memories(plan[o])
    <3>1. 1 \in Nat \ {0} /\ 1 <= Length(o) + 1 /\ k \in 1..(NextStop(o, 1) - 1)
      BY <1>1, <1>2
    <3> QED
      BY <1>1, <1>5, <3>1, TurnSteps
  <2>2. field[StepOf(o, 1).unless] = reg[StepOf(o, 1).on[1]]
    BY <1>1, <2>1 DEF MemoriesAgree
  <2> QED
    BY <2>1, <2>2
<1>6. ASSUME NEW x \in Settings PROVE Value(x)' = IF x \in Done(o, 0, j) THEN o ELSE Value(x)
  <2>1. CASE \E r \in DOMAIN reg : x = <<"reg", r>> /\ Value(x) = reg[r]
    <3>1. PICK r : x = <<"reg", r>> /\ Value(x) = reg[r]
      BY <2>1
    <3>2. Value(x)' = reg[r]
      BY <1>1, <3>1 DEF Value
    <3>3. ASSUME x \in Done(o, 0, j) PROVE reg[r] = o
      <4>1. PICK k \in 1..Length(o) : k < j /\ x \in SetBy(o, k)
        BY <3>3 DEF Done
      <4>2. StepOf(o, k).do = "put" /\ r \in Range(StepOf(o, k).on) /\ k \in 1..(j - 1)
        BY <3>1, <4>1, SetByIs
      <4>3. k = 1 /\ StepOf(o, 1).on = <<StepOf(o, 1).on[1]>> /\ reg[StepOf(o, 1).on[1]] = o
        BY <1>5, <4>2 DEF AtPort
      <4> QED
        BY <4>2, <4>3 DEF Range
    <3> QED
      BY <3>1, <3>2, <3>3
  <2>2. CASE \E g \in DOMAIN field : x = <<"field", g>> /\ Value(x) = field[g]
    <3>1. PICK g : x = <<"field", g>> /\ Value(x) = field[g]
      BY <2>2
    <3>2. Value(x)' = field'[g]
      BY <3>1 DEF Value
    <3>3. field'[g] = IF \E k \in 1..(j - 1) : k \in 1..Length(o) /\ <<"field", g>> \in SetBy(o, k) THEN o ELSE field[g]
      <4>1. /\ <<"field", g>> \in Settings /\ 1 \in Nat \ {0} /\ j \in Nat /\ j <= Length(o) + 1
            /\ field' = Kept(o, 1, j, seen[o])
        BY <1>1, <1>2, <1>3, <3>1
      <4> QED
        BY <1>1, <4>1, FieldSet
    <3>4. (\E k \in 1..(j - 1) : k \in 1..Length(o) /\ x \in SetBy(o, k)) <=> x \in Done(o, 0, j)
      BY <1>1 DEF Done
    <3> QED
      BY <3>1, <3>2, <3>3, <3>4
  <2> QED
    BY <1>1, <2>1, <2>2, SettingIs
<1>7. ASSUME NEW d \in Running \ {o} PROVE at[d] <= 1 \/ j <= at[d]
  <2>1. at[d] \in 1..Length(d) /\ StepOf(d, at[d]).do \in AtPort
    BY StandsAtPort
  <2>2. Length(d) = Length(o) /\ StepOf(d, at[d]) = StepOf(o, at[d])
    BY DEF Uniform, Length, StepOf, Running
  <2>3. PICK k \in 1..Length(o) : k = at[d]
    BY <2>1, <2>2
  <2>4. k < j => k = 1
    BY <1>1, <1>2, <1>5, <2>1, <2>2, <2>3
  <2> QED
    BY <1>2, <2>3, <2>4
<1>8. ASSUME NEW c \in Callers \ {o}, NEW d \in Callers \ {o}, Behind(c, d) PROVE Behind(c, d)'
  <2>1. at'[c] = at[c] /\ at'[d] = at[d]
    BY <1>1
  <2>2. ASSUME NEW m \in 1..Len(line'), NEW n \in 1..Len(line'), line'[m].by = d, line'[n].by = c
        PROVE  m \in 1..Len(line) /\ n \in 1..Len(line) /\ line[m].by = d /\ line[n].by = c
    <3>1. ~(m > Len(line)) /\ ~(n > Len(line))
      BY <1>1, <2>2
    <3>2. m \in 1..Len(line) /\ n \in 1..Len(line)
      BY <1>1, <3>1
    <3> QED
      BY <1>1, <2>2, <3>2
  <2> QED
    BY <1>8, <2>1, <2>2 DEF Behind
<1>9. ASSUME NEW d \in Callers \ {o}, at[d] = j PROVE Behind(o, d)'
  <2>1. at'[d] = at'[o]
    BY <1>1, <1>2, <1>9
  <2>2. ASSUME NEW m \in 1..Len(line'), NEW n \in 1..Len(line'), line'[m].by = d, line'[n].by = o
        PROVE  m < n
    <3>1. ~(m > Len(line)) /\ n \notin 1..Len(line)
      BY <1>1, <2>2
    <3> QED
      BY <1>1, <3>1
  <2> QED
    BY <2>1, <2>2 DEF Behind
<1> QED
  BY <1>1, <1>2, <1>3, <1>4, <1>6, <1>7, <1>8, <1>9 DEF Turns

LEMMA ServeTurns ==
  ASSUME QInv, SInv, Serve, GoesOn, Uniform, Uniform'
  PROVE  \E o \in Callers, a, j \in Nat : Turns(o, a, j)
<1> DEFINE own == Owner
           front == Front.step
<1>0. PICK o : o = own
  OBVIOUS
<1>a. own \in Callers /\ front \in 1..Length(own)
  BY Served DEF SInv, Uniform
<1>b. PICK f \in 1..Length(o) : f = front
  BY <1>0, <1>a
<1> HIDE DEF own, front
<1>1. o = Owner /\ f = Front.step
  BY <1>0, <1>b DEF own, front
<1>2. CommandsAwaited /\ ~lost'
  BY DEF SInv, Uniform
<1>3. /\ line # <<>> /\ ~lost /\ UNCHANGED plan
      /\ Typed /\ o \in Callers /\ Length(o) \in Nat
      /\ Current = StepOf(o, f) /\ Current.do \in AtPort
      /\ Len(line) \in Nat \ {0} /\ line[1].by = o
      /\ Current.do = "get" => UNCHANGED reg
      /\ Current.do # "get" => AnswerCommand
  BY <1>1, <1>2, Served
<1>4. /\ Len(line') \in Nat
      /\ \A d \in Callers : d # o => at'[d] = at[d] /\ status'[d] = status[d]
      /\ \A n \in 1..Len(line') :
           \/ n + 1 \in 1..Len(line) /\ line'[n] = line[n + 1] /\ line[n + 1].by # o
           \/ n >= Len(line) /\ line'[n].by = o
      /\ at[o] = f /\ o \in Running
      /\ at'[o] \in (f + 1)..(Length(o) + 1)
      /\ status'[o] = IF at'[o] > Length(o) THEN plan[o].end ELSE "running"
      /\ \A k \in (f + 1)..(at'[o] - 1) : k \in 1..Length(o) /\ StepOf(o, k).do \notin AtPort
      /\ \E s \in {seen[o], Heard} : field' = Kept(o, f + 1, at'[o], s)
  BY <1>1, <1>2, ServedLines
<1>5. PICK j \in (f + 1)..(Length(o) + 1) : j = at'[o]
  BY <1>4
<1>6. at \in [Callers -> Nat] /\ plan[o].end \in {"ok", "refused"} /\ j \in Nat /\ f \in Nat /\ f # 0
  BY <1>3, <1>5 DEF Typed, Scripted
<1>7. status'[o] = (IF j <= Length(o) THEN "running" ELSE "ok") /\ status[o] = "running"
  <2>1. status'[o] \in {"idle", "running", "ok"}
    BY <1>3 DEF Uniform
  <2> QED
    BY <1>3, <1>4, <1>5, <1>6, <2>1 DEF Running
<1>8. ASSUME NEW k \in (f + 1)..(j - 1) PROVE k \in 1..Length(o) /\ StepOf(o, k).do \notin AtPort
  BY <1>4, <1>5
<1>9. ASSUME NEW x \in Settings PROVE Value(x)' = IF x \in Done(o, f, j) THEN o ELSE Value(x)
  <2>1. CASE \E r \in DOMAIN reg : x = <<"reg", r>> /\ Value(x) = reg[r]
    <3>1. PICK r \in DOMAIN reg : x = <<"reg", r>> /\ Value(x) = reg[r]
      BY <2>1
    <3>2. Value(x)' = reg'[r]
      BY <3>1 DEF Value
    <3>3. Current.do # "putback"
      BY <1>3 DEF Uniform
    <3>4. reg'[r] = IF Current.do = "put" /\ r \in Range(Current.on) THEN o ELSE reg[r]
      BY <1>1, <1>3, <3>3 DEF AnswerCommand, AtPort
    <3>5. x \in SetBy(o, f) => x \in Done(o, f, j)
      BY <1>5, <1>6 DEF Done
    <3>6. ASSUME x \in Done(o, f, j) PROVE x \in SetBy(o, f)
      <4>1. PICK k \in 1..Length(o) : f <= k /\ k < j /\ x \in SetBy(o, k)
        BY <3>6 DEF Done
      <4>2. StepOf(o, k).do \in AtPort
        BY <3>1, <4>1, SetByIs DEF AtPort
      <4>3. k \notin (f + 1)..(j - 1)
        BY <1>8, <4>2
      <4>4. k = f
        BY <1>5, <4>1, <4>3
      <4> QED
        BY <4>1, <4>4
    <3>7. x \in SetBy(o, f) <=> Current.do = "put" /\ r \in Range(Current.on)
      BY <1>3, <3>1, SetByIs
    <3> QED
      BY <3>1, <3>2, <3>4, <3>5, <3>6, <3>7
  <2>2. CASE \E g \in DOMAIN field : x = <<"field", g>> /\ Value(x) = field[g]
    <3>1. PICK g : x = <<"field", g>> /\ Value(x) = field[g]
      BY <2>2
    <3>2. Value(x)' = field'[g]
      BY <3>1 DEF Value
    <3>3. field'[g] = IF \E k \in (f + 1)..(j - 1) : k \in 1..Length(o) /\ <<"field", g>> \in SetBy(o, k)
                      THEN o ELSE field[g]
      <4>1. PICK i \in Nat \ {0} : i = f + 1
        BY <1>6
      <4>2. PICK s : field' = Kept(o, i, j, s)
        BY <1>4, <1>5, <4>1
      <4>3. <<"field", g>> \in Settings /\ j \in Nat /\ j <= Length(o) + 1
        BY <1>3, <1>5, <1>6, <3>1
      <4>4. field'[g] = IF \E k \in i..(j - 1) : k \in 1..Length(o) /\ <<"field", g>> \in SetBy(o, k)
                        THEN o ELSE field[g]
        BY <1>3, <4>2, <4>3, FieldSet
      <4> QED
        BY <4>1, <4>4
    <3>4. x \notin SetBy(o, f)
      BY <1>3, <3>1, SetByIs DEF AtPort
    <3>5. (\E k \in (f + 1)..(j - 1) : k \in 1..Length(o) /\ x \in SetBy(o, k)) <=> x \in Done(o, f, j)
      <4>1. ASSUME NEW k \in (f + 1)..(j - 1), k \in 1..Length(o), x \in SetBy(o, k) PROVE x \in Done(o, f, j)
        <5>1. f <= k /\ k < j
          BY <1>5, <1>6
        <5> QED
          BY <4>1, <5>1 DEF Done
      <4>2. ASSUME x \in Done(o, f, j) PROVE \E k \in (f + 1)..(j - 1) : k \in 1..Length(o) /\ x \in SetBy(o, k)
        <5>1. PICK k \in 1..Length(o) : f <= k /\ k < j /\ x \in SetBy(o, k)
          BY <4>2 DEF Done
        <5>2. k # f
          BY <3>4, <5>1
        <5>3. k \in (f + 1)..(j - 1)
          BY <1>5, <1>6, <5>1, <5>2
        <5> QED
          BY <5>1, <5>3
      <4> QED
        BY <4>1, <4>2
    <3> QED
      BY <3>1, <3>2, <3>3, <3>5
  <2> QED
    BY <1>3, <2>1, <2>2, SettingIs
<1>10. ASSUME NEW d \in Running \ {o} PROVE at[d] <= f \/ j <= at[d]
  <2>1. at[d] \in 1..Length(d) /\ StepOf(d, at[d]).do \in AtPort
    BY StandsAtPort
  <2>2. Length(d) = Length(o) /\ StepOf(d, at[d]) = StepOf(o, at[d])
    BY <1>3 DEF Uniform, Length, StepOf, Running
  <2>3. PICK k \in 1..Length(o) : k = at[d]
    BY <2>1, <2>2
  <2>4. k \notin (f + 1)..(j - 1)
    BY <1>8, <2>1, <2>2, <2>3
  <2> QED
    BY <1>5, <1>6, <2>3, <2>4
<1>11. ASSUME NEW c \in Callers \ {o}, NEW d \in Callers \ {o}, Behind(c, d) PROVE Behind(c, d)'
  <2>1. at'[c] = at[c] /\ at'[d] = at[d]
    BY <1>4
  <2>2. ASSUME NEW m \in 1..Len(line'), NEW n \in 1..Len(line'), line'[m].by = d, line'[n].by = c
        PROVE  m + 1 \in 1..Len(line) /\ n + 1 \in 1..Len(line) /\ line[m + 1].by = d /\ line[n + 1].by = c
    BY <1>4, <2>2
  <2>3. ASSUME at[c] = at[d], NEW m \in 1..Len(line'), NEW n \in 1..Len(line'), line'[m].by = d, line'[n].by = c,
               ~(at[c] < at[d])
        PROVE  m < n
    <3>1. m + 1 < n + 1
      BY <1>11, <2>2, <2>3 DEF Behind
    <3> QED
      BY <3>1
  <2> QED
    BY <1>11, <2>1, <2>3 DEF Behind
<1>12. ASSUME NEW d \in Callers \ {o}, at[d] = j PROVE Behind(o, d)'
  <2>1. at'[d] = at'[o]
    BY <1>4, <1>5, <1>12
  <2>2. ASSUME NEW m \in 1..Len(line'), NEW n \in 1..Len(line'), line'[m].by = d, line'[n].by = o
        PROVE  m < n
    <3>1. m + 1 \in 1..Len(line) /\ n >= Len(line)
      BY <1>4, <2>2
    <3> QED
      BY <1>3, <3>1
  <2> QED
    BY <2>1, <2>2 DEF Behind
<1>13. ASSUME NEW d \in Running \ {o}, Behind(o, d) PROVE f < at[d]
  <2>1. PICK n \in 1..Len(line) : line[n].by = d
    BY StandsAtPort
  <2>2. 1 \in 1..Len(line) /\ ~(n < 1)
    BY <1>3
  <2> QED
    BY <1>3, <1>4, <1>13, <2>1, <2>2 DEF Behind
<1>14. Turns(o, f, j)
  BY <1>3, <1>4, <1>5, <1>6, <1>7, <1>9, <1>10, <1>11, <1>12, <1>13 DEF Turns
<1> QED
  BY <1>3, <1>6, <1>14

\* What is set does not change with the scripts unchanged.
LEMMA SameSettings ==
  ASSUME UNCHANGED plan
  PROVE  /\ \A c, i : SetBy(c, i)' = SetBy(c, i)
         /\ Settings' = Settings
         /\ \A c, x : c \in Begun(x)' <=>
              c \in Running' /\ \E i \in 1..Length(c) : i < at'[c] /\ x \in SetBy(c, i)
         /\ \A c, x : Passed(c, x)' <=> \A i \in 1..Length(c) : x \in SetBy(c, i) => i < at'[c]
         /\ Running' = {c \in Callers : status'[c] = "running"}
<1>1. /\ \A c, i : StepOf(c, i)' = StepOf(c, i)
      /\ \A c : Length(c)' = Length(c)
  BY SamePlan
<1>2. \A c, i : SetBy(c, i)' = SetBy(c, i)
  BY <1>1 DEF SetBy
<1>3. Settings' = Settings
  BY <1>1, <1>2 DEF Settings
<1>4. \A c, x : c \in Begun(x)' <=>
        c \in Running' /\ \E i \in 1..Length(c) : i < at'[c] /\ x \in SetBy(c, i)
  BY <1>1, <1>2 DEF Begun
<1>5. \A c, x : Passed(c, x)' <=> \A i \in 1..Length(c) : x \in SetBy(c, i) => i < at'[c]
  BY <1>1, <1>2 DEF Passed
<1> QED
  BY <1>2, <1>3, <1>4, <1>5 DEF Running

\* What a turn of o does to who is at work with a setting.
LEMMA TurnWorks ==
  ASSUME QInv, Uniform, NEW o \in Callers, NEW a \in Nat, NEW j \in Nat, Turns(o, a, j),
         NEW x \in Settings
  PROVE  /\ Settings' = Settings
         /\ \A d \in Callers \ {o} : d \in Begun(x)' <=> d \in Begun(x)
         /\ \A d \in Callers \ {o} : Passed(d, x)' <=> Passed(d, x)
         /\ x \in Done(o, a, j) =>
              /\ o \in Begun(x)' <=> j <= Length(o)
              /\ \A d \in Begun(x) \ {o} : Passed(d, x) => j <= at[d]
         /\ x \notin Done(o, a, j) =>
              /\ o \in Begun(x)' => o \in Begun(x)
              /\ o \in Begun(x) /\ j <= Length(o) => o \in Begun(x)'
              /\ Passed(o, x)' \/ j > Length(o) => Passed(o, x)
         /\ \A d \in Running \ {o} : at[d] \in Nat /\ at[d] <= Length(o)
         /\ o \in Running <=> a # 0
         /\ o \in Running' <=> j <= Length(o)
         /\ Length(o) \in Nat
<1>1. /\ UNCHANGED plan
      /\ at[o] = a /\ at'[o] = j /\ a < j /\ j <= Length(o) + 1
      /\ status[o] = (IF a = 0 THEN "idle" ELSE "running")
      /\ status'[o] = (IF j <= Length(o) THEN "running" ELSE "ok")
      /\ \A d \in Callers \ {o} : at'[d] = at[d] /\ status'[d] = status[d]
      /\ \A d \in Running \ {o} : at[d] <= a \/ at[d] <= 1 \/ j <= at[d]
  BY DEF Turns
<1>2. /\ Settings' = Settings
      /\ \A c : c \in Begun(x)' <=>
           c \in Running' /\ \E i \in 1..Length(c) : i < at'[c] /\ x \in SetBy(c, i)
      /\ \A c : Passed(c, x)' <=> \A i \in 1..Length(c) : x \in SetBy(c, i) => i < at'[c]
      /\ Running' = {c \in Callers : status'[c] = "running"}
  BY <1>1, SameSettings
<1>3. at \in [Callers -> Nat] /\ Length(o) \in Nat
  BY DEF QInv, Typed, Scripted, Length
<1>4. \A d \in Running \ {o} : at[d] \in Nat /\ at[d] <= Length(o)
  <2> SUFFICES ASSUME NEW d \in Running \ {o} PROVE at[d] \in Nat /\ at[d] <= Length(o)
    OBVIOUS
  <2>1. at[d] \in 1..Length(d) /\ d \in Callers
    BY StandsAtPort DEF Running
  <2>2. Length(d) = Length(o)
    BY <2>1 DEF Uniform, Length
  <2> QED
    BY <1>3, <2>1, <2>2
<1>5. (o \in Running <=> a # 0) /\ (o \in Running' <=> j <= Length(o))
  BY <1>1, <1>2 DEF Running
<1>6. ASSUME NEW d \in Callers \ {o}
      PROVE  (d \in Begun(x)' <=> d \in Begun(x)) /\ (Passed(d, x)' <=> Passed(d, x))
  <2>1. at'[d] = at[d] /\ (d \in Running' <=> d \in Running)
    BY <1>1, <1>2 DEF Running
  <2> QED
    BY <1>2, <2>1 DEF Begun, Passed
<1>7. ASSUME x \in Done(o, a, j)
      PROVE  /\ o \in Begun(x)' <=> j <= Length(o)
             /\ \A d \in Begun(x) \ {o} : Passed(d, x) => j <= at[d]
  <2>1. PICK k \in 1..Length(o) : a <= k /\ k < j /\ x \in SetBy(o, k)
    BY <1>7 DEF Done
  <2>2. o \in Begun(x)' <=> j <= Length(o)
    BY <1>1, <1>2, <1>5, <2>1
  <2>3. ASSUME NEW d \in Begun(x) \ {o}, Passed(d, x) PROVE j <= at[d]
    <3>1. d \in Running \ {o} /\ d \in Callers
      BY DEF Begun, Running
    <3>2. Length(d) = Length(o) /\ SetBy(d, k) = SetBy(o, k)
      BY <3>1 DEF Uniform, Length, SetBy, StepOf
    <3>3. k < at[d]
      BY <2>1, <2>3, <3>2 DEF Passed
    <3> QED
      BY <1>1, <1>3, <1>4, <2>1, <3>1, <3>3
  <2> QED
    BY <2>2, <2>3
<1>8. ASSUME x \notin Done(o, a, j)
      PROVE  /\ o \in Begun(x)' => o \in Begun(x)
             /\ o \in Begun(x) /\ j <= Length(o) => o \in Begun(x)'
             /\ Passed(o, x)' \/ j > Length(o) => Passed(o, x)
  <2>1. ASSUME NEW i \in 1..Length(o), x \in SetBy(o, i), i < j PROVE i < a
    BY <1>3, <1>8, <2>1 DEF Done
  <2>2. o \in Begun(x)' => o \in Begun(x)
    BY <1>1, <1>2, <1>3, <1>5, <2>1 DEF Begun
  <2>3. o \in Begun(x) /\ j <= Length(o) => o \in Begun(x)'
    <3>1. \A i \in 1..Length(o) : i < a => i < j
      BY <1>1, <1>3
    <3> QED
      BY <1>1, <1>2, <1>5, <3>1 DEF Begun
  <2>4. Passed(o, x)' => Passed(o, x)
    BY <1>1, <1>2, <2>1 DEF Passed
  <2>5. j > Length(o) => Passed(o, x)
    BY <1>1, <1>3, <2>1 DEF Passed
  <2> QED
    BY <2>2, <2>3, <2>4, <2>5
<1> QED
  BY <1>2, <1>3, <1>4, <1>5, <1>6, <1>7, <1>8

LEMMA TurnKeepsHindmost ==
  ASSUME QInv, Uniform, HindmostHas, NEW o \in Callers, NEW a \in Nat, NEW j \in Nat, Turns(o, a, j)
  PROVE  HindmostHas'
<1>1. /\ at[o] = a /\ at'[o] = j /\ a < j
      /\ \A d \in Callers \ {o} : at'[d] = at[d]
      /\ \A x \in Settings : Value(x)' = IF x \in Done(o, a, j) THEN o ELSE Value(x)
      /\ \A d \in Running \ {o} : at[d] <= a \/ at[d] <= 1 \/ j <= at[d]
      /\ \A c, d \in Callers \ {o} : Behind(c, d) => Behind(c, d)'
      /\ \A d \in Callers \ {o} : at[d] = j => Behind(o, d)'
      /\ a # 0 => \A d \in Running \ {o} : Behind(o, d) => a < at[d]
  BY DEF Turns
<1>2. Settings' = Settings
  BY <1>1, SameSettings DEF Turns
<1> SUFFICES ASSUME NEW x \in Settings, Begun(x)' # {}, \A c \in Begun(x)' : Passed(c, x)',
                    NEW w, w = Value(x)'
             PROVE  w \in Begun(x)' /\ \A c \in Begun(x)' \ {w} : Behind(w, c)'
  BY <1>2 DEF HindmostHas, Behind
<1>3. /\ \A d \in Callers \ {o} : d \in Begun(x)' <=> d \in Begun(x)
      /\ \A d \in Callers \ {o} : Passed(d, x)' <=> Passed(d, x)
      /\ x \in Done(o, a, j) =>
           /\ o \in Begun(x)' <=> j <= Length(o)
           /\ \A d \in Begun(x) \ {o} : Passed(d, x) => j <= at[d]
      /\ x \notin Done(o, a, j) =>
           /\ o \in Begun(x)' => o \in Begun(x)
           /\ o \in Begun(x) /\ j <= Length(o) => o \in Begun(x)'
           /\ Passed(o, x)' \/ j > Length(o) => Passed(o, x)
      /\ \A d \in Running \ {o} : at[d] \in Nat /\ at[d] <= Length(o)
      /\ o \in Running <=> a # 0
      /\ Length(o) \in Nat
  BY TurnWorks
<1>4. Begun(x) \subseteq Running /\ Begun(x)' \subseteq Callers /\ Running \subseteq Callers
  BY DEF Begun, Running
<1>5. ASSUME NEW d \in Callers \ {o}, at[d] \in Nat, j <= at[d] PROVE Behind(o, d)'
  <2>1. CASE at[d] = j
    BY <1>1, <2>1
  <2>2. CASE j < at[d]
    BY <1>1, <2>2 DEF Behind
  <2> QED
    BY <1>5, <2>1, <2>2
<1>6. CASE x \in Done(o, a, j)
  <2>1. w = o
    BY <1>1, <1>6
  <2>2. ASSUME NEW d \in Begun(x)' \ {o} PROVE d \in Running \ {o} /\ j <= at[d]
    <3>1. d \in Callers \ {o} /\ d \in Begun(x) /\ Passed(d, x)
      BY <1>3, <1>4
    <3> QED
      BY <1>3, <1>4, <1>6, <3>1
  <2>3. j <= Length(o)
    <3> SUFFICES ASSUME j > Length(o) PROVE FALSE
      BY <1>3
    <3>1. PICK d : d \in Begun(x)'
      OBVIOUS
    <3>2. d # o
      BY <1>3, <1>6, <3>1
    <3> QED
      BY <1>3, <2>2, <3>1, <3>2
  <2>4. ASSUME NEW d \in Begun(x)' \ {o} PROVE Behind(o, d)'
    BY <1>3, <1>4, <1>5, <2>2
  <2> QED
    BY <1>3, <1>6, <2>1, <2>3, <2>4
<1>7. CASE x \notin Done(o, a, j)
  <2>1. PICK v : v = Value(x)
    OBVIOUS
  <2>2. w = v
    BY <1>1, <1>7, <2>1
  <2>3. ASSUME NEW c \in Begun(x) PROVE Passed(c, x)
    <3>1. CASE c = o
      <4>1. CASE j <= Length(o)
        BY <1>3, <1>7, <3>1, <4>1
      <4>2. CASE j > Length(o)
        BY <1>3, <1>7, <3>1, <4>2
      <4> QED
        BY <1>3, <4>1, <4>2
    <3>2. CASE c # o
      BY <1>3, <1>4, <3>2
    <3> QED
      BY <3>1, <3>2
  <2>4. Begun(x) # {}
    BY <1>3, <1>4, <1>7
  <2>5. v \in Begun(x) /\ \A c \in Begun(x) \ {v} : Behind(v, c)
    BY <2>1, <2>3, <2>4 DEF HindmostHas
  <2>6. CASE v # o
    <3>1. v \in Begun(x)'
      BY <1>3, <1>4, <2>5, <2>6
    <3>2. ASSUME NEW d \in Begun(x)' \ {v} PROVE Behind(v, d)'
      <4>1. d \in Begun(x)
        BY <1>3, <1>4, <1>7
      <4>2. CASE d # o
        BY <1>1, <1>4, <2>5, <2>6, <3>2, <4>1, <4>2
      <4>3. CASE d = o
        <5>1. Behind(v, o) /\ at[v] \in Nat
          BY <1>3, <1>4, <2>5, <2>6, <4>1, <4>3
        <5>2. at[v] <= a
          BY <1>1, <5>1 DEF Behind
        <5>3. at'[v] < at'[o]
          BY <1>1, <1>4, <2>5, <2>6, <5>1, <5>2
        <5> QED
          BY <4>3, <5>3 DEF Behind
      <4> QED
        BY <4>2, <4>3
    <3> QED
      BY <2>2, <3>1, <3>2
  <2>7. CASE v = o
    <3>1. a # 0
      BY <1>3, <1>4, <2>5, <2>7
    <3>2. ASSUME NEW d \in Begun(x)' \ {o} PROVE d \in Running \ {o} /\ j <= at[d]
      <4>1. d \in Begun(x) \ {o} /\ d \in Running \ {o}
        BY <1>3, <1>4, <1>7
      <4>2. a < at[d]
        BY <1>1, <2>5, <2>7, <3>1, <4>1
      <4> QED
        BY <1>1, <1>3, <3>1, <4>1, <4>2
    <3>3. j <= Length(o)
      <4> SUFFICES ASSUME j > Length(o) PROVE FALSE
        BY <1>3
      <4>1. PICK d : d \in Begun(x)'
        OBVIOUS
      <4>2. d # o
        <5>1. o \in Begun(x)' => o \in Running' /\ j <= Length(o)
          BY <1>3, TurnWorks DEF Begun
        <5> QED
          BY <1>3, <4>1, <5>1
      <4> QED
        BY <1>3, <3>2, <4>1, <4>2
    <3>4. o \in Begun(x)'
      BY <1>3, <1>7, <2>5, <2>7, <3>3
    <3>5. ASSUME NEW d \in Begun(x)' \ {o} PROVE Behind(o, d)'
      BY <1>3, <1>4, <1>5, <3>2
    <3> QED
      BY <2>2, <2>7, <3>4, <3>5
  <2> QED
    BY <2>6, <2>7
<1> QED
  BY <1>6, <1>7

LEMMA TurnKeepsAlike ==
  ASSUME QInv, Uniform, WInv, NEW o \in Callers, NEW a \in Nat, NEW j \in Nat, Turns(o, a, j)
  PROVE  AlikeAfter'
<1>1. /\ UNCHANGED plan /\ at[o] = a /\ a < j
      /\ status[o] = (IF a = 0 THEN "idle" ELSE "running")
      /\ status'[o] = (IF j <= Length(o) THEN "running" ELSE "ok")
      /\ \A d \in Callers \ {o} : status'[d] = status[d]
      /\ \A x \in Settings : Value(x)' = IF x \in Done(o, a, j) THEN o ELSE Value(x)
  BY DEF Turns
<1>2. Settings' = Settings
  BY <1>1, SameSettings
<1>3. Length(o) \in Nat /\ Typed
  BY DEF QInv, Typed, Scripted, Length
<1>4. ASSUME NEW x \in Settings
      PROVE  /\ \A d \in Callers \ {o} : d \in Begun(x)' <=> d \in Begun(x)
             /\ x \in Done(o, a, j) => (o \in Begun(x)' <=> j <= Length(o))
             /\ x \notin Done(o, a, j) =>
                  /\ o \in Begun(x) /\ j <= Length(o) => o \in Begun(x)'
                  /\ j > Length(o) => Passed(o, x)
             /\ o \in Running <=> a # 0
  BY TurnWorks
<1>5. \A x : Begun(x) \subseteq Callers
  BY DEF Begun, Running
<1> SUFFICES ASSUME Ended' # {}, NEW x \in Settings, NEW y \in Settings, Begun(x)' = {}, Begun(y)' = {}
             PROVE  Value(x)' = Value(y)' /\ Value(x)' \in Callers
  BY <1>2 DEF AlikeAfter
<1>6. CASE j <= Length(o)
  <2>1. Ended # {}
    BY <1>1, <1>6 DEF Ended
  <2>2. ASSUME NEW z \in Settings, Begun(z)' = {} PROVE Begun(z) = {} /\ Value(z)' = Value(z)
    BY <1>1, <1>4, <1>5, <1>6, <2>2
  <2> QED
    BY <2>1, <2>2 DEF WInv, AlikeAfter
<1>7. CASE j > Length(o)
  <2>1. ASSUME NEW z \in Settings, Begun(z)' = {} PROVE Value(z)' = o
    <3>1. CASE z \in Done(o, a, j)
      BY <1>1, <3>1
    <3>2. CASE z \notin Done(o, a, j)
      <4>1. PICK i \in 1..Length(o) : z \in SetBy(o, i)
        BY <1>3, SettingIs
      <4>2. Passed(o, z)
        BY <1>4, <1>7, <3>2
      <4>3. i < a
        BY <1>1, <4>1, <4>2 DEF Passed
      <4>4. o \in Running
        BY <1>4, <4>1, <4>3
      <4>5. o \in Begun(z)
        BY <1>1, <4>1, <4>3, <4>4 DEF Begun
      <4>6. Begun(z) = {o}
        BY <1>4, <1>5, <2>1, <4>5
      <4>7. Value(z) = o
        BY <4>2, <4>6 DEF WInv, HindmostHas
      <4> QED
        BY <1>1, <3>2, <4>7
    <3> QED
      BY <3>1, <3>2
  <2> QED
    BY <2>1
<1> QED
  BY <1>3, <1>6, <1>7

LEMMA SameWins ==
  ASSUME UNCHANGED <<plan, at, reg, field, status>>, Uniform, WInv,
         \A c, d \in Callers : Behind(c, d) => Behind(c, d)'
  PROVE  WInv'
<1>1. /\ Settings' = Settings
      /\ \A c, x : c \in Begun(x)' <=>
           c \in Running' /\ \E i \in 1..Length(c) : i < at'[c] /\ x \in SetBy(c, i)
      /\ \A c, x : Passed(c, x)' <=> \A i \in 1..Length(c) : x \in SetBy(c, i) => i < at'[c]
      /\ Running' = {c \in Callers : status'[c] = "running"}
  BY SameSettings
<1>2. \A x : Begun(x)' = Begun(x) /\ \A c : Passed(c, x)' <=> Passed(c, x)
  <2> SUFFICES ASSUME NEW x PROVE Begun(x)' = Begun(x) /\ \A c : Passed(c, x)' <=> Passed(c, x)
    OBVIOUS
  <2>1. Running' = Running
    BY <1>1 DEF Running
  <2>2. \A c : c \in Begun(x)' <=> c \in Begun(x)
    BY <1>1, <2>1 DEF Begun
  <2>3. \A c : Passed(c, x)' <=> Passed(c, x)
    BY <1>1 DEF Passed
  <2> QED
    BY <2>2, <2>3
<1>3. \A x : Value(x)' = Value(x)
  BY DEF Value
<1>4. Ended' = Ended /\ \A x : Begun(x) \subseteq Callers
  BY DEF Ended, Begun, Running
<1>5. HindmostHas'
  <2> SUFFICES ASSUME NEW x \in Settings, Begun(x) # {}, \A c \in Begun(x) : Passed(c, x), NEW w, w = Value(x)
               PROVE  w \in Begun(x) /\ \A c \in Begun(x) \ {w} : Behind(w, c)'
    BY <1>1, <1>2, <1>3 DEF HindmostHas, Behind
  <2> QED
    BY <1>4 DEF WInv, HindmostHas
<1>6. AlikeAfter'
  BY <1>1, <1>2, <1>3, <1>4 DEF WInv, AlikeAfter
<1> QED
  BY <1>5, <1>6 DEF WInv

LEMMA InitWins == Init => WInv
<1> SUFFICES ASSUME Init PROVE WInv
  OBVIOUS
<1>1. Running = {} /\ Ended = {}
  BY DEF Init, Running, Ended
<1> QED
  BY <1>1 DEF WInv, HindmostHas, AlikeAfter, Begun

\* Other lines of the step are still to come: nothing but the queue changes.
LEMMA QuietTurn ==
  ASSUME QInv, CommandsAwaited, Serve, ~GoesOn, Uniform, Uniform', WInv
  PROVE  WInv'
<1>1. PICK o, f : o = Owner /\ f = Front.step
  OBVIOUS
<1>2. ~lost'
  BY DEF Uniform
<1>3. /\ line # <<>> /\ Typed /\ o \in Callers /\ f \in 1..Length(o) /\ UNCHANGED <<plan, reg, field>>
      /\ line' = Tail(line) /\ (UNCHANGED <<at, status>> \/ (Awaited /\ Abandon(o, Tail(line))))
  BY <1>1, <1>2, Served
<1>4. UNCHANGED <<at, status>>
  <2> SUFFICES ASSUME Awaited, Abandon(o, Tail(line)) PROVE FALSE
    BY <1>3
  <2>1. at[o] = f
    BY <1>1 DEF Awaited
  <2>2. status'[o] = "failed"
    BY <1>3, <2>1 DEF Abandon, Uniform, Typed
  <2> QED
    BY <1>3, <2>2 DEF Uniform
<1>5. /\ Len(line) \in Nat \ {0} /\ Len(line') = Len(line) - 1
      /\ \A n \in 1..Len(line') : line'[n] = line[n + 1]
  BY <1>3, FrontGoes DEF QInv, Batched
<1>6. ASSUME NEW c \in Callers, NEW d \in Callers, Behind(c, d) PROVE Behind(c, d)'
  <2>1. ASSUME NEW m \in 1..Len(line'), NEW n \in 1..Len(line'), line'[m].by = d, line'[n].by = c
        PROVE  m + 1 \in 1..Len(line) /\ n + 1 \in 1..Len(line) /\ line[m + 1].by = d /\ line[n + 1].by = c
    BY <1>5, <2>1
  <2>2. ASSUME NEW m \in 1..Len(line'), NEW n \in 1..Len(line'), line'[m].by = d, line'[n].by = c,
               ~(at[c] < at[d])
        PROVE  m < n
    <3>1. m + 1 < n + 1
      BY <1>6, <2>1, <2>2 DEF Behind
    <3> QED
      BY <3>1
  <2> QED
    BY <1>4, <1>6, <2>2 DEF Behind
<1> QED
  BY <1>3, <1>4, <1>6, SameWins

LEMMA UniformBefore ==
  ASSUME QInv, CommandsAwaited, [Next]_vars, Uniform'
  PROVE  Uniform /\ UNCHANGED plan
<1>1. UNCHANGED plan
  BY DEF Next, vars, Start, Serve, AnswerCommand, AnswerQuery, QueryTimesOut, RefuseLine, Lose
<1>2. ~lost'
  BY DEF Uniform
<1>3. ~lost
  BY <1>2 DEF Next, vars, Start, Serve, AnswerCommand, AnswerQuery, QueryTimesOut, RefuseLine, Lose
<1>4. \A c \in Callers : status[c] \in {"idle", "running", "ok"}
  <2> SUFFICES ASSUME NEW c \in Callers PROVE status[c] = status'[c] \/ status[c] \in {"idle", "running"}
    BY DEF Uniform
  <2>1. ASSUME NEW d \in Callers, Start(d) PROVE status[c] = status'[c] \/ status[c] = "idle"
    BY <2>1, StartLines
  <2>2. CASE Serve
    <3>1. PICK o, f : o = Owner /\ f = Front.step
      OBVIOUS
    <3>2. \A d \in Callers : d # o => status'[d] = status[d]
      BY <1>2, <2>2, <3>1, ServedLines
    <3>3. GoesOn \/ UNCHANGED <<at, status>> \/ Awaited
      BY <1>2, <2>2, <3>1, Served
    <3> QED
      BY <3>1, <3>2, <3>3 DEF GoesOn, Awaited
  <2>3. CASE Lose \/ UNCHANGED vars
    BY <2>3 DEF Lose, vars
  <2> QED
    BY <2>1, <2>2, <2>3 DEF Next
<1>5. \A c, i : StepOf(c, i)' = StepOf(c, i) /\ Length(c)' = Length(c)
  BY <1>1, SamePlan
<1> QED
  BY <1>1, <1>3, <1>4, <1>5 DEF Uniform

LEMMA NextWins == ASSUME QInv, Fresh, SInv, WInv, [Next]_vars PROVE WInv'
<1> SUFFICES ASSUME Uniform' PROVE WInv'
  BY DEF WInv, HindmostHas, AlikeAfter
<1>1. CommandsAwaited /\ MemoriesAgree
  BY DEF SInv
<1>2. Uniform
  BY <1>1, UniformBefore
<1>3. ASSUME NEW o \in Callers, NEW a \in Nat, NEW j \in Nat, Turns(o, a, j) PROVE WInv'
  <2>1. HindmostHas'
    BY <1>2, <1>3, TurnKeepsHindmost DEF WInv
  <2>2. AlikeAfter'
    BY <1>2, <1>3, TurnKeepsAlike
  <2> QED
    BY <2>1, <2>2 DEF WInv
<1>4. ASSUME NEW c \in Callers, Start(c) PROVE WInv'
  <2>1. \E j \in Nat : Turns(c, 0, j)
    BY <1>1, <1>2, <1>4, StartTurns
  <2> QED
    BY <1>3, <2>1
<1>5. CASE Serve /\ GoesOn
  BY <1>2, <1>3, <1>5, ServeTurns
<1>6. CASE Serve /\ ~GoesOn
  BY <1>1, <1>2, <1>6, QuietTurn
<1>7. CASE Lose
  BY <1>7 DEF Lose, Uniform
<1>8. CASE UNCHANGED vars
  <2>1. UNCHANGED <<plan, at, line, reg, field, status>>
    BY <1>8 DEF vars
  <2>2. \A c, d \in Callers : Behind(c, d) => Behind(c, d)'
    BY <2>1 DEF Behind
  <2> QED
    BY <1>2, <2>1, <2>2, SameWins
<1> QED
  BY <1>4, <1>5, <1>6, <1>7, <1>8 DEF Next

\* What has been shown of a setting is what is claimed of the registers and fields.
LEMMA SettingsWhole == ASSUME Typed, WInv PROVE LastCallWinsWhole
<1> DEFINE Clean(c) == \A i \in 1..Length(c) : ~StepOf(c, i).rescued /\ StepOf(c, i).do # "putback"
<1> SUFFICES ASSUME ~lost, \A c, d \in Callers : status[c] = "ok" /\ plan[c] = plan[d]
             PROVE  \E w \in Callers : \A c \in Callers : Clean(c) =>
                      (\A r \in Sets(plan[c]) : reg[r] = w) /\ (\A f \in Keeps(plan[c]) : field[f] = w)
  BY DEF LastCallWinsWhole
<1>1. Ended # {} /\ \A x : Begun(x) = {}
  BY CallersAssumption DEF Ended, Begun, Running
<1>2. CASE \E c \in Callers : Clean(c)
  <2>1. Uniform
    BY <1>2 DEF Uniform, Length, StepOf
  <2>2. PICK w \in Callers : \A x \in Settings : Value(x) = w
    <3>1. CASE Settings = {}
      BY <3>1, CallersAssumption
    <3>2. CASE Settings # {}
      <4>1. PICK y \in Settings : TRUE
        BY <3>2
      <4>2. Value(y) \in Callers /\ \A x \in Settings : Value(x) = Value(y)
        BY <1>1, <2>1, <4>1 DEF WInv, AlikeAfter
      <4> QED
        BY <4>2
    <3> QED
      BY <3>1, <3>2
  <2>3. ASSUME NEW c \in Callers, Clean(c), NEW r \in Sets(plan[c]) PROVE reg[r] = w
    <3>1. DOMAIN plan[c].steps = 1..Length(c)
      BY DEF Typed, Scripted
    <3>2. PICK i \in 1..Length(c) : StepOf(c, i).do \in {"put", "putback"} /\ r \in Range(StepOf(c, i).on)
      BY <3>1 DEF Sets, StepsOf, StepOf
    <3>3. StepOf(c, i).do = "put"
      BY <2>3, <3>2
    <3>4. <<"reg", r>> \in SetBy(c, i)
      BY <3>2, <3>3, SetByIs
    <3>5. <<"reg", r>> \in Settings
      BY <3>4 DEF Settings
    <3>6. Value(<<"reg", r>>) = reg[r]
      BY DEF Value
    <3> QED
      BY <2>2, <3>5, <3>6
  <2>4. ASSUME NEW c \in Callers, NEW f \in Keeps(plan[c]) PROVE field[f] = w
    <3>1. DOMAIN plan[c].steps = 1..Length(c)
      BY DEF Typed, Scripted
    <3>2. PICK i \in 1..Length(c) : StepOf(c, i).do = "keep" /\ f = StepOf(c, i).on[1]
      BY <3>1 DEF Keeps, StepsOf, StepOf
    <3>3. <<"field", f>> \in SetBy(c, i)
      BY <3>2, SetByIs
    <3>4. <<"field", f>> \in Settings
      BY <3>3 DEF Settings
    <3>5. Value(<<"field", f>>) = field[f]
      BY DEF Value
    <3> QED
      BY <2>2, <3>4, <3>5
  <2> QED
    BY <2>2, <2>3, <2>4
<1>3. CASE \A c \in Callers : ~Clean(c)
  BY <1>3, CallersAssumption
<1> QED
  BY <1>2, <1>3

\* Whoever is hindmost with a setting has it, and what all have left behind is of one call.
THEOREM WInvHolds == Spec => []WInv
<1>1. Init => WInv
  BY InitWins
<1>2. QInv /\ RInv /\ SInv /\ WInv /\ [Next]_vars => WInv'
  BY NextWins DEF RInv
<1> QED
  BY <1>1, <1>2, IInvHolds, SInvHolds, PTL DEF Spec

\* Calls of one method with the same parts leave the instrument, and the driver's fields,
\* as one of them set them: with a lock nowhere, the lines of a call that is behind stay
\* behind in the queue of the port.
THEOREM LastCallWins == Spec => []LastCallWinsWhole
<1>1. QInv /\ WInv => LastCallWinsWhole
  BY SettingsWhole DEF QInv
<1> QED
  BY <1>1, WInvHolds, IInvHolds, PTL
-----------------------------------------------------------------------------
(* Calls of the REST client *)

\* A handler at work has a client that waits; a client that waits for a handler to begin
\* has had nothing done.
OneAtWork ==
  /\ handler # 0 => page = "waiting" /\ answer = 0
  /\ page = "idle" => handler = 0 /\ answer = 0
  /\ page = "resolved" => handler = 0 /\ answer = 200
  /\ handler = 0 /\ answer = 0 => done = {} /\ script = NoScript

InTurn == Len(script.steps) \in Nat /\ DOMAIN script.steps = 1..Len(script.steps)

OnHeld == \A x \in done : x[2] = held

Settled(i) == <<i, held>> \in done \/ Range(Call(i).on) \subseteq Call(i).soft

\* What the handler has behind it is settled, and all of it once the answer is 200.
Progress ==
  /\ handler # 0 => \A i \in DOMAIN script.steps : i < handler => Settled(i)
  /\ handler = 0 /\ answer = 200 => \A i \in DOMAIN script.steps : Settled(i)

\* What is being called is a function of the client.
Known == page # "idle" => fn \in DOMAIN Endpoint

ApiInv == handler \in Nat /\ Known /\ OneAtWork /\ InTurn /\ OnHeld /\ Progress
-----------------------------------------------------------------------------

LEMMA NothingToDo == Len(NoScript.steps) = 0 /\ DOMAIN NoScript.steps = {}
BY DEF NoScript, Script

LEMMA ApiInitSound == ApiInit => ApiInv
<1> SUFFICES ASSUME ApiInit PROVE ApiInv
  OBVIOUS
<1>1. /\ page = "idle" /\ handler = 0 /\ script = NoScript /\ done = {} /\ answer = 0
  BY DEF ApiInit
<1>2. InTurn
  BY <1>1, NothingToDo DEF InTurn
<1> QED
  BY <1>1, <1>2 DEF ApiInv, Known, OneAtWork, OnHeld, Progress

\* Whatever changes neither the handler nor its account.
LEMMA ElsewhereKeeps ==
  ASSUME ApiInv, UNCHANGED <<handler, script, held, done, answer>>,
         UNCHANGED <<fn, page>> \/ (page' = "waiting" /\ page = "idle" /\ fn' \in DOMAIN Endpoint)
           \/ (Parse /\ UNCHANGED fn)
  PROVE  ApiInv'
<1>1. InTurn' /\ OnHeld' /\ Progress' /\ handler' \in Nat
  BY DEF ApiInv, InTurn, OnHeld, Progress, Settled, Call
<1>2. OneAtWork' /\ Known'
  BY DEF ApiInv, OneAtWork, Known, Parse
<1> QED
  BY <1>1, <1>2 DEF ApiInv

\* An answer without a handler: of a route that asks no instrument, or a refusal.
LEMMA ServiceKeeps ==
  ASSUME ApiInv, NotFound \/ AnswerService \/ WrongInstrument
  PROVE  ApiInv'
<1>1. /\ page = "waiting" /\ handler = 0 /\ answer = 0
      /\ UNCHANGED <<fn, page, handler, script, held, done>>
      /\ answer' \in {200, 400, 404, 409, 502}
  <2>1. CASE NotFound
    BY <2>1 DEF NotFound, Arrived, Answer
  <2>2. CASE AnswerService
    <3>1. Arrived /\ UNCHANGED <<handler, script>>
      BY <2>2 DEF AnswerService
    <3> DEFINE need == ServiceRoutes[Endpoint[fn]]
    <3>2. PICK code \in {200, 400, 404, 409, 502} :
            /\ code = 404 <=> (need # "any" /\ session = "removed")
            /\ code = 409 <=> (need = "connected" /\ session = "down")
            /\ code = 502 => Endpoint[fn] = "POST /scpi"
            /\ Answer(code)
      BY <2>2 DEF AnswerService
    <3>3. answer' \in {200, 400, 404, 409, 502} /\ UNCHANGED <<fn, page, held, done>>
      BY <3>2 DEF Answer
    <3> QED
      BY <3>1, <3>3 DEF Arrived
  <2>3. CASE WrongInstrument
    BY <2>3 DEF WrongInstrument, Arrived, Answer
  <2> QED
    BY <2>1, <2>2, <2>3
<1>2. done = {} /\ script = NoScript
  BY <1>1 DEF ApiInv, OneAtWork
<1>3. OneAtWork' /\ Known' /\ OnHeld'
  BY <1>1, <1>2 DEF ApiInv, OneAtWork, Known, OnHeld
<1>4. InTurn' /\ Progress'
  BY <1>1, <1>2, NothingToDo DEF ApiInv, InTurn, Progress
<1> QED
  BY <1>1, <1>3, <1>4 DEF ApiInv

LEMMA LookUpKeeps == ASSUME ApiInv, LookUp PROVE ApiInv'
<1>1. /\ page = "waiting" /\ handler = 0 /\ answer = 0 /\ handler' = 1
      /\ script' \in HandlerOf(Endpoint[fn])
      /\ UNCHANGED <<fn, page, done, answer>>
  BY DEF LookUp, Arrived
<1>2. done = {} /\ fn \in DOMAIN Endpoint
  BY <1>1 DEF ApiInv, OneAtWork, Known
<1>3. InTurn'
  BY <1>1, <1>2, HandlersAreSequences DEF InTurn
<1>4. OneAtWork' /\ Known' /\ OnHeld'
  BY <1>1, <1>2 DEF ApiInv, OneAtWork, Known, OnHeld
<1>5. \A i \in DOMAIN script'.steps : ~(i < handler')
  BY <1>1, <1>3 DEF InTurn
<1>6. Progress'
  BY <1>1, <1>5 DEF Progress
<1> QED
  BY <1>1, <1>3, <1>4, <1>6 DEF ApiInv

\* A facade call that took effect, or one whose failure is a default.
LEMMA AdvanceKeeps ==
  ASSUME ApiInv, handler \in DOMAIN script.steps, handler' = handler + 1,
         UNCHANGED <<fn, page, script, held, answer>>,
         \/ done' = done \union {<<handler, held>>}
         \/ done' = done /\ Range(Call(handler).on) \subseteq Call(handler).soft
  PROVE  ApiInv'
<1>1. handler \in Nat \ {0} /\ DOMAIN script.steps \subseteq Nat /\ InTurn'
  BY DEF ApiInv, InTurn
<1>2. OneAtWork' /\ Known' /\ OnHeld'
  BY <1>1 DEF ApiInv, OneAtWork, Known, OnHeld
<1>3. ASSUME NEW i \in DOMAIN script.steps, i < handler + 1
      PROVE  Settled(i)'
  <2>1. CASE i = handler
    BY <2>1 DEF Settled, Call
  <2>2. CASE i < handler
    BY <1>1, <2>2 DEF ApiInv, Progress, Settled, Call
  <2> QED
    BY <1>1, <1>3, <2>1, <2>2
<1>4. Progress'
  BY <1>1, <1>3 DEF Progress
<1> QED
  BY <1>1, <1>2, <1>4 DEF ApiInv

\* The handler ends: with 200 only at the end of its script.
LEMMA EndKeeps ==
  ASSUME ApiInv, handler # 0, handler' = 0, script' = script,
         NEW code \in {200, 400, 409, 500}, Answer(code),
         code = 200 => handler = Len(script.steps) + 1
  PROVE  ApiInv'
<1>1. page = "waiting" /\ answer' = code /\ UNCHANGED <<fn, page, held, done>>
  BY DEF Answer, ApiInv, OneAtWork
<1>2. InTurn' /\ OnHeld' /\ Known' /\ OneAtWork'
  BY <1>1 DEF ApiInv, InTurn, OnHeld, Known, OneAtWork
<1>3. ASSUME code = 200, NEW i \in DOMAIN script.steps PROVE Settled(i)'
  <2>1. i < handler
    BY <1>3 DEF ApiInv, InTurn
  <2> QED
    BY <1>1, <2>1 DEF ApiInv, Progress, Settled, Call
<1>4. Progress'
  BY <1>1, <1>3 DEF Progress
<1> QED
  BY <1>2, <1>4 DEF ApiInv

\* Behind the handler everything took effect or has a default, on the connection of the
\* facade that the handler looked up, whatever Drop and Connect do meanwhile.
THEOREM ApiInvHolds == ApiSpec => []ApiInv
<1>1. ApiInv /\ [ApiNext]_apiVars => ApiInv'
  <2> SUFFICES ASSUME ApiInv, [ApiNext]_apiVars PROVE ApiInv'
    OBVIOUS
  <2>1. CASE Environment
    BY <2>1, ElsewhereKeeps DEF Environment, Drop, Connect
  <2>2. ASSUME NEW f \in DOMAIN Endpoint, Fetch(f) PROVE ApiInv'
    BY <2>2, ElsewhereKeeps DEF Fetch
  <2>3. CASE NotFound \/ AnswerService \/ WrongInstrument
    BY <2>3, ServiceKeeps
  <2>4. CASE LookUp
    BY <2>4, LookUpKeeps
  <2>5. CASE FacadeCall
    BY <2>5, AdvanceKeeps DEF FacadeCall
  <2>6. CASE FacadeFails
    <3>1. handler \in DOMAIN script.steps /\ handler # 0 /\ script' = script
      BY <2>6 DEF FacadeFails, ApiInv, InTurn
    <3>2. CASE Range(Call(handler).on) \subseteq Call(handler).soft
      BY <2>6, <3>1, <3>2, AdvanceKeeps DEF FacadeFails
    <3>3. CASE ~(Range(Call(handler).on) \subseteq Call(handler).soft)
      <4>1. PICK code \in {400, 500} : handler' = 0 /\ Answer(code)
        BY <2>6, <3>3 DEF FacadeFails
      <4> QED
        BY <3>1, <4>1, EndKeeps
    <3> QED
      BY <3>2, <3>3
  <2>7. CASE Return
    <3>1. /\ handler = Len(script.steps) + 1 /\ handler # 0
          /\ handler' = 0 /\ script' = script
      BY <2>7 DEF Return, ApiInv, InTurn
    <3>2. PICK code \in {200, 400, 409} : Answer(code)
      BY <2>7 DEF Return
    <3> QED
      BY <3>1, <3>2, EndKeeps
  <2>8. CASE Parse
    BY <2>8, ElsewhereKeeps DEF Parse
  <2>9. CASE UNCHANGED apiVars
    BY <2>9, ElsewhereKeeps DEF apiVars
  <2> QED
    BY <2>1, <2>2, <2>3, <2>4, <2>5, <2>6, <2>7, <2>8, <2>9 DEF ApiNext, Handle
<1> QED
  BY <1>1, ApiInitSound, PTL DEF ApiSpec

\* A handler works with the facade that it looked up once (routes/*.ts): what it did, it
\* did on one connection, however often the session was lost and made again.
THEOREM OneConnection == ApiSpec => []WholeOnOneConnection
<1>1. ApiInv => WholeOnOneConnection
  BY DEF ApiInv, OnHeld, WholeOnOneConnection
<1> QED
  BY <1>1, ApiInvHolds, PTL

\* parse() resolves only what was answered with 200, and that is answered only when every
\* facade call of the handler took effect or has a default.
THEOREM ResolvedMeansDone == ApiSpec => []ResolvedDidItAll
<1>1. ApiInv => ResolvedDidItAll
  BY DEF ApiInv, OneAtWork, Progress, Settled, ResolvedDidItAll
<1> QED
  BY <1>1, ApiInvHolds, PTL
=============================================================================
