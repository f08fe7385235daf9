------------------------- MODULE ScpiSessionProofs --------------------------
(***************************************************************************)
(* Proofs about ScpiSession for every set of jobs: its type invariant, its *)
(* queue discipline, that it implements SerialPort, from which it inherits *)
(* that no promise is forgotten or settled twice, and that replies match   *)
(* their queries as long as no query is given up.                          *)
(***************************************************************************)
EXTENDS ScpiSession, SequenceTheorems, WellFoundedInduction, TLAPS

-----------------------------------------------------------------------------
(* The inductive invariant *)

\* After a close nothing is left to settle.
ClosedIsEmpty == closed => inFlight = NoJob /\ queue = <<>>

SessionType ==
  /\ queue \in Seq(Jobs)
  /\ inFlight \in Jobs \cup {NoJob}
  /\ armed \subseteq Timed
  /\ outcome \in [Jobs -> {"none", "pending", "ok", "failed"}]
  /\ reply \in [Jobs -> Seq(Tokens)]
  /\ writing \in Seq(Jobs)

Discipline == SessionType /\ NoBacklogWhenIdle /\ ClosedIsEmpty

EnvType ==
  /\ buffer \in Seq(Tokens)
  /\ closed \in BOOLEAN
  /\ lossReported \in BOOLEAN
  /\ transport \in {"open", "failing", "lost", "ended"}
  /\ atInstrument \in Seq(Jobs)
  /\ wire \in Seq(Tokens)

IInv == Discipline /\ EnvType

-----------------------------------------------------------------------------
(* Framing: what is cut off the buffer, and what stays, are token sequences *)

LEMMA FirstLFInBuffer ==
  ASSUME NEW buf \in Seq(Tokens), LineReady(buf)
  PROVE  FirstLF(buf) \in 1..Len(buf)
<1>1. LineFeeds(buf) \subseteq Nat /\ LineFeeds(buf) # {} /\ LineFeeds(buf) \subseteq 1..Len(buf)
  BY LenProperties DEF LineReady, LineFeeds
<1>2. PICK x \in LineFeeds(buf) : \A y \in LineFeeds(buf) : ~(<<y, x>> \in OpToRel(<, Nat))
  BY <1>1, WFMin, NatLessThanWellFounded
<1>3. ASSUME NEW y \in LineFeeds(buf) PROVE x <= y
  <2>1. x \in Nat /\ y \in Nat
    BY <1>1
  <2>2. y < x => <<y, x>> \in {ss \in Nat \X Nat : ss[1] < ss[2]}
    BY <2>1
  <2>3. ~(y < x)
    BY <2>2, <1>2 DEF OpToRel
  <2> QED
    BY <2>1, <2>3
<1>4. FirstLF(buf) \in LineFeeds(buf)
  BY <1>3 DEF FirstLF
<1> QED
  BY <1>1, <1>4

LEMMA SubSeqTyped ==
  ASSUME NEW buf \in Seq(Tokens), NEW m \in Int, NEW n \in Int, m >= 1, n <= Len(buf)
  PROVE  SubSeq(buf, m, n) \in Seq(Tokens)
<1>1. \A i \in m..n : buf[i] \in Tokens
  BY ElementOfSeq, LenProperties
<1> QED
  BY <1>1, SubSeqProperties

LEMMA FramingTyped ==
  ASSUME NEW buf \in Seq(Tokens)
  PROVE  /\ LineReady(buf) => LineValue(buf) \in Seq(Tokens) /\ AfterLine(buf) \in Seq(Tokens)
         /\ BlockReady(buf) => BlockValue(buf) \in Seq(Tokens) /\ AfterBlock(buf) \in Seq(Tokens)
<1>1. Len(buf) \in Nat
  BY LenProperties
<1>2. ASSUME LineReady(buf)
      PROVE  LineValue(buf) \in Seq(Tokens) /\ AfterLine(buf) \in Seq(Tokens)
  <2>1. FirstLF(buf) \in 1..Len(buf)
    BY <1>2, FirstLFInBuffer
  <2> QED
    BY <1>1, <2>1, SubSeqTyped DEF LineValue, AfterLine
<1>3. ASSUME BlockReady(buf)
      PROVE  BlockValue(buf) \in Seq(Tokens) /\ AfterBlock(buf) \in Seq(Tokens)
  <2>1. Len(buf) >= 2
    BY <1>3 DEF BlockReady
  <2> QED
    BY <1>1, <2>1, SubSeqTyped DEF BlockValue, AfterBlock
<1> QED
  BY <1>2, <1>3

LEMMA RepliesTyped == \A j \in Jobs : ReplyOf(j) \in Seq(Tokens)
<1> SUFFICES ASSUME NEW j \in Jobs PROVE ReplyOf(j) \in Seq(Tokens)
  OBVIOUS
<1>1. {Text(j), Hdr(j), Body(j), LF} \subseteq Tokens
  BY DEF Text, Hdr, Body, LF, Tokens
<1> QED
  BY <1>1 DEF ReplyOf

-----------------------------------------------------------------------------
(* The line of unsettled jobs *)

LEMMA LineBehindHead ==
  ASSUME queue \in Seq(Jobs), inFlight \in Jobs
  PROVE  InLine # <<>> /\ Head(InLine) = inFlight /\ Tail(InLine) = queue
<1>1. InLine = <<inFlight>> \o queue
  BY NoJobIsNoJob DEF InLine
<1> QED
  BY <1>1

LEMMA PumpStartsHead ==
  ASSUME NEW q \in Seq(Jobs), NEW w \in Seq(Jobs), Pump(q, w)
  PROVE  /\ InLine' = q
         /\ queue' \in Seq(Jobs) /\ inFlight' \in Jobs \cup {NoJob} /\ writing' \in Seq(Jobs)
         /\ NoBacklogWhenIdle'
<1>1. CASE q = <<>>
  BY <1>1 DEF Pump, InLine, NoBacklogWhenIdle
<1>2. CASE q # <<>>
  <2>1. inFlight' = Head(q) /\ queue' = Tail(q) /\ writing' = Append(w, Head(q))
    BY <1>2 DEF Pump
  <2>2. Head(q) \in Jobs /\ Tail(q) \in Seq(Jobs) /\ Head(q) # NoJob
    BY <1>2, NoJobIsNoJob
  <2>3. <<Head(q)>> \o Tail(q) = q
    BY <1>2
  <2> QED
    BY <2>1, <2>2, <2>3 DEF InLine, NoBacklogWhenIdle
<1> QED
  BY <1>1, <1>2

-----------------------------------------------------------------------------
(* How a handler may end the job in flight *)

\* In terms of the serial port: the head of the line is settled, or nothing.
HeadOrNothing ==
  \/ \E result \in {"ok", "failed"} : Port!SettleHead(result)
  \/ UNCHANGED Port!vars

\* Ending the job in flight, either way, settles the head of the line and keeps
\* the discipline: this is where #pump starts the next job.
LEMMA EndInFlight ==
  ASSUME Discipline, inFlight \in Jobs, closed' = closed,
         NEW value \in Seq(Tokens), NEW w \in Seq(Jobs), NEW timers \in SUBSET Timed,
         CompleteInFlight(value, w, timers) \/ FailInFlight(w, timers)
  PROVE  Discipline' /\ HeadOrNothing
<1>1. /\ Pump(queue, w)
      /\ armed' = timers \ {inFlight}
      /\ \/ outcome' = [outcome EXCEPT ![inFlight] = "ok"]
         \/ outcome' = [outcome EXCEPT ![inFlight] = "failed"]
      /\ reply' = [reply EXCEPT ![inFlight] = value] \/ reply' = reply
  BY DEF CompleteInFlight, FailInFlight
<1>2. queue \in Seq(Jobs) /\ inFlight # NoJob
  BY NoJobIsNoJob DEF Discipline, SessionType
<1>3. ~closed
  BY <1>2 DEF Discipline, ClosedIsEmpty
<1>4. /\ InLine' = queue
      /\ queue' \in Seq(Jobs) /\ inFlight' \in Jobs \cup {NoJob} /\ writing' \in Seq(Jobs)
      /\ NoBacklogWhenIdle'
  BY <1>1, <1>2, PumpStartsHead
<1>5. armed' \subseteq Timed
  BY <1>1
<1>6. /\ outcome' \in [Jobs -> {"none", "pending", "ok", "failed"}]
      /\ reply' \in [Jobs -> Seq(Tokens)]
  BY <1>1 DEF Discipline, SessionType
<1>7. Discipline'
  BY <1>3, <1>4, <1>5, <1>6 DEF Discipline, SessionType, ClosedIsEmpty
<1>8. InLine # <<>> /\ Head(InLine) = inFlight /\ Tail(InLine) = queue
  BY <1>2, LineBehindHead
<1>9. \E result \in {"ok", "failed"} : Port!SettleHead(result)
  <2>1. CASE outcome' = [outcome EXCEPT ![inFlight] = "ok"]
    BY <2>1, <1>3, <1>4, <1>8 DEF Port!SettleHead
  <2>2. CASE outcome' = [outcome EXCEPT ![inFlight] = "failed"]
    BY <2>2, <1>3, <1>4, <1>8 DEF Port!SettleHead
  <2> QED
    BY <2>1, <2>2, <1>1
<1> QED
  BY <1>7, <1>9 DEF HeadOrNothing

LEMMA KeepStays ==
  ASSUME Discipline, closed' = closed,
         NEW w \in Seq(Jobs), NEW timers \in SUBSET Timed,
         KeepInFlight(w, timers)
  PROVE  Discipline' /\ HeadOrNothing
BY DEF KeepInFlight, Discipline, SessionType, NoBacklogWhenIdle, ClosedIsEmpty,
       HeadOrNothing, Port!vars, InLine

LEMMA DeliverOnce ==
  ASSUME Discipline, closed' = closed,
         NEW buf \in Seq(Tokens), NEW w \in Seq(Jobs), NEW timers \in SUBSET Timed,
         TryDeliver(buf, w, timers)
  PROVE  Discipline' /\ HeadOrNothing /\ buffer' \in Seq(Tokens)
<1>1. CASE /\ inFlight \in LineJobs /\ LineReady(buf)
           /\ buffer' = AfterLine(buf)
           /\ CompleteInFlight(LineValue(buf), w, timers)
  <2>1. inFlight \in Jobs /\ LineValue(buf) \in Seq(Tokens) /\ AfterLine(buf) \in Seq(Tokens)
    BY <1>1, FramingTyped DEF Jobs
  <2> QED
    BY <1>1, <2>1, EndInFlight
<1>2. CASE /\ inFlight \in BinaryJobs /\ BlockReady(buf)
           /\ buffer' = AfterBlock(buf)
           /\ CompleteInFlight(BlockValue(buf), w, timers)
  <2>1. inFlight \in Jobs /\ BlockValue(buf) \in Seq(Tokens) /\ AfterBlock(buf) \in Seq(Tokens)
    BY <1>2, FramingTyped DEF Jobs
  <2> QED
    BY <1>2, <2>1, EndInFlight
<1>3. CASE /\ inFlight \in BinaryJobs /\ BlockMalformed(buf)
           /\ buffer' = buf
           /\ FailInFlight(w, timers)
  <2>1. inFlight \in Jobs
    BY <1>3 DEF Jobs
  <2> QED
    BY <1>3, <2>1, EndInFlight
<1>4. CASE buffer' = buf /\ KeepInFlight(w, timers)
  BY <1>4, KeepStays
<1> QED
  BY <1>1, <1>2, <1>3, <1>4 DEF TryDeliver

-----------------------------------------------------------------------------
(* The handlers *)

\* Every step keeps the inductive invariant and is a step of the serial port
\* or leaves its variables alone.
LEMMA StepRefines ==
  ASSUME IInv, [Next]_vars
  PROVE  IInv' /\ [Port!Next]_(Port!vars)
<1>0. Discipline /\ EnvType
  BY DEF IInv
<1>a. ASSUME HeadOrNothing PROVE [Port!Next]_(Port!vars)
  BY <1>a DEF HeadOrNothing, Port!Next
<1>1. ASSUME NEW j \in Jobs, Enqueue(j) PROVE Discipline' /\ EnvType' /\ Port!Submit(j)
  <2>1. /\ ~closed /\ outcome[j] = "none"
        /\ outcome' = [outcome EXCEPT ![j] = "pending"]
        /\ closed' = closed
        /\ UNCHANGED <<armed, reply>>
    BY <1>1 DEF Enqueue
  <2>2. EnvType'
    BY <1>0, <1>1 DEF Enqueue, EnvType
  <2>3. /\ queue \in Seq(Jobs) /\ writing \in Seq(Jobs) /\ Append(queue, j) \in Seq(Jobs)
        /\ inFlight \in Jobs \cup {NoJob}
    BY <1>0 DEF Discipline, SessionType
  <2>4. /\ InLine' = Append(InLine, j)
        /\ queue' \in Seq(Jobs) /\ inFlight' \in Jobs \cup {NoJob} /\ writing' \in Seq(Jobs)
        /\ NoBacklogWhenIdle'
    <3>1. CASE inFlight = NoJob
      <4>1. queue = <<>>
        BY <3>1, <1>0 DEF Discipline, NoBacklogWhenIdle
      <4>2. InLine = <<>>
        BY <3>1, <4>1 DEF InLine
      <4>3. Pump(Append(queue, j), writing)
        BY <3>1, <1>1 DEF Enqueue
      <4> QED
        BY <4>1, <4>2, <4>3, <2>3, PumpStartsHead
    <3>2. CASE inFlight # NoJob
      <4>1. queue' = Append(queue, j) /\ UNCHANGED <<inFlight, writing>>
        BY <3>2, <1>1 DEF Enqueue
      <4>2. <<inFlight>> \o Append(queue, j) = Append(<<inFlight>> \o queue, j)
        BY <3>2, <2>3
      <4> QED
        BY <3>2, <4>1, <4>2, <2>3 DEF InLine, NoBacklogWhenIdle
    <3> QED
      BY <3>1, <3>2
  <2>5. Discipline'
    BY <1>0, <2>1, <2>4 DEF Discipline, SessionType, ClosedIsEmpty
  <2>6. Port!Submit(j)
    BY <2>1, <2>4 DEF Port!Submit
  <2> QED
    BY <2>2, <2>5, <2>6
<1>2. ASSUME NEW j \in Jobs, EnqueueClosed(j) PROVE Discipline' /\ EnvType' /\ Port!Refuse(j)
  BY <1>0, <1>2 DEF EnqueueClosed, Discipline, SessionType, EnvType, NoBacklogWhenIdle,
                    ClosedIsEmpty, Port!Refuse, InLine
<1>3. CASE WriteDone
  <2>1. /\ writing # <<>> /\ closed' = closed
        /\ atInstrument' = Append(atInstrument, Head(writing))
        /\ UNCHANGED <<lossReported, transport, wire>>
    BY <1>3 DEF WriteDone
  <2>2. /\ Head(writing) \in Jobs /\ Tail(writing) \in Seq(Jobs)
        /\ atInstrument' \in Seq(Jobs)
    BY <1>0, <2>1 DEF Discipline, SessionType, EnvType
  <2>3. armed \in SUBSET Timed /\ ArmDeadline(Head(writing), armed) \in SUBSET Timed
    BY <1>0 DEF Discipline, SessionType, ArmDeadline
  <2>4. CASE Head(writing) \in WriteJobs
    <3>1. /\ IF inFlight = NoJob THEN KeepInFlight(Tail(writing), armed)
                                 ELSE CompleteInFlight(<<>>, Tail(writing), armed)
          /\ buffer' = buffer
      BY <1>3, <2>4 DEF WriteDone
    <3>2. <<>> \in Seq(Tokens) /\ inFlight \in Jobs \cup {NoJob}
      BY <1>0 DEF Discipline, SessionType
    <3>3. Discipline' /\ HeadOrNothing
      BY <1>0, <2>1, <2>2, <2>3, <3>1, <3>2, KeepStays, EndInFlight
    <3> QED
      BY <1>0, <1>a, <2>1, <2>2, <3>1, <3>3 DEF IInv, EnvType
  <2>5. CASE Head(writing) \notin WriteJobs
    <3>1. TryDeliver(buffer, Tail(writing), ArmDeadline(Head(writing), armed))
      BY <1>3, <2>5 DEF WriteDone
    <3>2. buffer \in Seq(Tokens)
      BY <1>0 DEF EnvType
    <3>3. Discipline' /\ HeadOrNothing /\ buffer' \in Seq(Tokens)
      BY <1>0, <2>1, <2>2, <2>3, <3>1, <3>2, DeliverOnce
    <3> QED
      BY <1>0, <1>a, <2>1, <2>2, <3>3 DEF IInv, EnvType
  <2> QED
    BY <2>4, <2>5
<1>4. CASE WriteFailed
  <2>1. /\ writing # <<>> /\ closed' = closed
        /\ transport' \in {"open", "failing", "lost", "ended"}
        /\ IF inFlight = NoJob THEN KeepInFlight(Tail(writing), armed)
                               ELSE FailInFlight(Tail(writing), armed)
        /\ UNCHANGED <<buffer, lossReported, atInstrument, wire>>
    BY <1>0, <1>4 DEF WriteFailed, EnvType
  <2>2. /\ Tail(writing) \in Seq(Jobs) /\ armed \in SUBSET Timed
        /\ inFlight \in Jobs \cup {NoJob} /\ <<>> \in Seq(Tokens)
    BY <1>0, <2>1 DEF Discipline, SessionType
  <2>3. Discipline' /\ HeadOrNothing
    BY <1>0, <2>1, <2>2, KeepStays, EndInFlight
  <2> QED
    BY <1>0, <1>a, <2>1, <2>3 DEF IInv, EnvType
<1>5. ASSUME NEW j \in Jobs, DeadlineFires(j) PROVE IInv' /\ [Port!Next]_(Port!vars)
  <2>1. /\ closed' = closed
        /\ IF inFlight = j THEN FailInFlight(writing, armed)
                           ELSE KeepInFlight(writing, armed \ {j})
        /\ UNCHANGED <<buffer, lossReported, transport, atInstrument, wire>>
    BY <1>5 DEF DeadlineFires
  <2>2. /\ writing \in Seq(Jobs) /\ armed \in SUBSET Timed /\ armed \ {j} \in SUBSET Timed
        /\ <<>> \in Seq(Tokens)
    BY <1>0 DEF Discipline, SessionType
  <2>3. Discipline' /\ HeadOrNothing
    BY <1>0, <2>1, <2>2, KeepStays, EndInFlight
  <2> QED
    BY <1>0, <1>a, <2>1, <2>3 DEF IInv, EnvType
<1>6. ASSUME NEW n \in 1..Len(wire), Data(n) PROVE IInv' /\ [Port!Next]_(Port!vars)
  <2>1. /\ closed' = closed
        /\ wire' = SubSeq(wire, n + 1, Len(wire))
        /\ TryDeliver(buffer \o SubSeq(wire, 1, n), writing, armed)
        /\ UNCHANGED <<lossReported, transport, atInstrument>>
    BY <1>6 DEF Data
  <2>2. wire \in Seq(Tokens) /\ buffer \in Seq(Tokens) /\ Len(wire) \in Nat
    BY <1>0, LenProperties DEF EnvType
  <2>3. wire' \in Seq(Tokens) /\ SubSeq(wire, 1, n) \in Seq(Tokens)
    BY <2>1, <2>2, SubSeqTyped
  <2>4. buffer \o SubSeq(wire, 1, n) \in Seq(Tokens)
    BY <2>2, <2>3
  <2>5. writing \in Seq(Jobs) /\ armed \in SUBSET Timed
    BY <1>0 DEF Discipline, SessionType
  <2>6. Discipline' /\ HeadOrNothing /\ buffer' \in Seq(Tokens)
    BY <1>0, <2>1, <2>4, <2>5, DeliverOnce
  <2> QED
    BY <1>0, <1>a, <2>1, <2>3, <2>6 DEF IInv, EnvType
<1>7. CASE Close \/ TransportLost
  <2>1. /\ ~closed /\ closed' = TRUE
        /\ outcome' = RejectPending
        /\ inFlight' = NoJob /\ queue' = <<>>
        /\ armed' \subseteq armed
        /\ UNCHANGED <<reply, writing, buffer, atInstrument, wire>>
        /\ lossReported' \in BOOLEAN
        /\ transport' \in {"open", "failing", "lost", "ended"}
    BY <1>0, <1>7 DEF Close, TransportLost, EnvType
  <2>2. InLine' = <<>>
    BY <2>1 DEF InLine
  <2>3. Port!Shut
    BY <2>1, <2>2 DEF Port!Shut, RejectPending
  <2>4. outcome' \in [Jobs -> {"none", "pending", "ok", "failed"}]
    BY <1>0, <2>1 DEF RejectPending, Discipline, SessionType
  <2>5. Discipline' /\ EnvType'
    BY <1>0, <2>1, <2>4 DEF Discipline, SessionType, EnvType, NoBacklogWhenIdle, ClosedIsEmpty
  <2> QED
    BY <2>3, <2>5 DEF IInv, Port!Next
<1>8. CASE Answer \/ Ignore
  <2>1. /\ UNCHANGED <<session, buffer, lossReported, transport>>
        /\ atInstrument # <<>> /\ atInstrument' = Tail(atInstrument)
        /\ wire' = wire \o ReplyOf(Head(atInstrument)) \/ wire' = wire
    BY <1>8 DEF Answer, Ignore
  <2>2. atInstrument' \in Seq(Jobs) /\ Head(atInstrument) \in Jobs
    BY <1>0, <2>1 DEF EnvType
  <2>3. wire' \in Seq(Tokens)
    <3>1. wire \in Seq(Tokens) /\ ReplyOf(Head(atInstrument)) \in Seq(Tokens)
      BY <1>0, <2>2, RepliesTyped DEF EnvType
    <3>2. wire \o ReplyOf(Head(atInstrument)) \in Seq(Tokens)
      BY <3>1, ConcatProperties
    <3>3. CASE wire' = wire
      BY <3>1, <3>3
    <3>4. CASE wire' = wire \o ReplyOf(Head(atInstrument))
      BY <3>2, <3>4
    <3> QED
      BY <2>1, <3>3, <3>4
  <2> QED
    BY <1>0, <2>1, <2>2, <2>3
       DEF session, IInv, EnvType, NoBacklogWhenIdle, ClosedIsEmpty, Discipline,
           SessionType, Port!vars, InLine
<1>9. CASE UNCHANGED vars
  BY <1>9 DEF vars, session, IInv, Discipline, SessionType, EnvType, NoBacklogWhenIdle, ClosedIsEmpty, Port!vars, InLine
<1> QED
  BY <1>1, <1>2, <1>3, <1>4, <1>5, <1>6, <1>7, <1>8, <1>9
     DEF IInv, Next, Call, WriteCallback, Port!Next

LEMMA InitRefines == Init => IInv /\ Port!Init
<1> SUFFICES ASSUME Init PROVE IInv /\ Port!Init
  OBVIOUS
<1>1. <<>> \in Seq(Jobs) /\ <<>> \in Seq(Tokens)
  OBVIOUS
<1>2. SessionType
  BY <1>1 DEF Init, SessionType
<1>3. EnvType
  BY <1>1 DEF Init, EnvType
<1>4. NoBacklogWhenIdle /\ ClosedIsEmpty /\ InLine = <<>>
  BY DEF Init, NoBacklogWhenIdle, ClosedIsEmpty, InLine
<1>5. Port!Init
  BY <1>4 DEF Init, Port!Init
<1> QED
  BY <1>2, <1>3, <1>4, <1>5 DEF IInv, Discipline

-----------------------------------------------------------------------------
(* The theorems *)

\* The inductive invariant holds in every reachable state.
THEOREM InvariantHolds == Spec => []IInv
<1>1. IInv /\ [Next]_vars => IInv'
  BY StepRefines
<1> QED
  BY <1>1, InitRefines, PTL DEF Spec

\* session.ts's variables always have their types.
THEOREM TypeCorrect == Spec => []TypeOK
<1>1. IInv => TypeOK
  BY DEF IInv, Discipline, SessionType, EnvType, TypeOK
<1> QED
  BY <1>1, InvariantHolds, PTL

\* Every path that ends a job calls #pump: the queue never waits behind an
\* empty slot.
THEOREM NeverParked == Spec => []NoBacklogWhenIdle
<1>1. IInv => NoBacklogWhenIdle
  BY DEF IInv, Discipline
<1> QED
  BY <1>1, InvariantHolds, PTL

\* The session implements the serial port: requests are settled from the head
\* of one line, each at most once, and a close settles the rest.
THEOREM ScpiSessionImplementsSerialPort == Spec => ImplementsSerialPort
<1>1. IInv /\ [Next]_vars => [Port!Next]_(Port!vars)
  BY StepRefines
<1> QED
  BY <1>1, InitRefines, InvariantHolds, PTL DEF Spec, ImplementsSerialPort, Port!Spec

\* What the serial port keeps to, whatever its line is.
PortInv == Port!TypeOK /\ Port!EachWaitsOnce

\* Each step of the port keeps its line free of duplicates and equal to the set of
\* pending requests: what any implementation of it inherits.
THEOREM PortKeepsItsLine == Port!Spec => []PortInv
<1>1. Port!Init => PortInv
  BY DEF Port!Init, PortInv, Port!TypeOK, Port!EachWaitsOnce, Port!Outcomes
<1>2. PortInv /\ [Port!Next]_(Port!vars) => PortInv'
  <2> SUFFICES ASSUME PortInv, [Port!Next]_(Port!vars) PROVE PortInv'
    OBVIOUS
  <2> USE DEF PortInv, Port!TypeOK, Port!EachWaitsOnce, Port!Outcomes
  <2>1. ASSUME NEW j \in Jobs, Port!Submit(j) PROVE PortInv'
    BY <2>1 DEF Port!Submit
  <2>2. ASSUME NEW j \in Jobs, Port!Refuse(j) PROVE PortInv'
    BY <2>2 DEF Port!Refuse
  <2>3. ASSUME NEW result \in {"ok", "failed"}, Port!SettleHead(result) PROVE PortInv'
    <3> DEFINE h == Head(InLine)
    <3>1. /\ InLine \in Seq(Jobs) /\ InLine # <<>> /\ Len(InLine) \in Nat \ {0}
          /\ h \in Jobs /\ h = InLine[1] /\ InLine' = Tail(InLine)
          /\ DOMAIN InLine = 1..Len(InLine)
      BY <2>3 DEF Port!SettleHead
    <3>2. /\ InLine' \in Seq(Jobs)
          /\ DOMAIN InLine' = 1..(Len(InLine) - 1)
          /\ \A i \in DOMAIN InLine' : i + 1 \in DOMAIN InLine /\ InLine'[i] = InLine[i + 1]
      BY <3>1
    <3>3. /\ outcome' = [outcome EXCEPT ![h] = result]
          /\ (~closed)' = ~closed
      BY <2>3 DEF Port!SettleHead
    <3>4. Port!TypeOK'
      BY <3>1, <3>2, <3>3
    <3>5. \A i, k \in DOMAIN InLine' : i # k => InLine'[i] # InLine'[k]
      BY <3>2, <3>1
    <3>6. ASSUME NEW j \in Jobs
          PROVE  outcome'[j] = "pending" <=> \E i \in DOMAIN InLine' : InLine'[i] = j
      <4>1. CASE j = h
        <5>1. outcome'[j] # "pending"
          BY <4>1, <3>1, <3>3
        <5>2. \A i \in DOMAIN InLine' : InLine'[i] # j
          BY <4>1, <3>1, <3>2
        <5> QED
          BY <5>1, <5>2
      <4>2. CASE j # h
        <5>1. outcome'[j] = outcome[j]
          BY <4>2, <3>1, <3>3
        <5>2. ASSUME NEW i \in DOMAIN InLine, InLine[i] = j
              PROVE  \E k \in DOMAIN InLine' : InLine'[k] = j
          <6>1. i \in Nat /\ i # 1 /\ i - 1 \in DOMAIN InLine'
            BY <4>2, <5>2, <3>1, <3>2
          <6>2. InLine'[i - 1] = j
            BY <6>1, <5>2, <3>2
          <6> QED
            BY <6>1, <6>2
        <5> QED
          BY <5>1, <5>2, <3>2
      <4> QED
        BY <4>1, <4>2
    <3> QED
      BY <3>4, <3>5, <3>6
  <2>4. CASE Port!Shut
    <3>1. InLine' = <<>> /\ closed' /\ DOMAIN InLine' = {}
      BY <2>4 DEF Port!Shut
    <3>2. \A j \in Jobs : outcome[j] \in Port!Outcomes
      OBVIOUS
    <3>3. outcome' = [j \in Jobs |-> IF outcome[j] = "pending" THEN "failed" ELSE outcome[j]]
      BY <2>4 DEF Port!Shut
    <3>4. outcome' \in [Jobs -> Port!Outcomes] /\ \A j \in Jobs : outcome'[j] # "pending"
      BY <3>2, <3>3
    <3>. <<>> \in Seq(Jobs)
      OBVIOUS
    <3>5. Port!TypeOK'
      BY <3>1, <3>4
    <3>6. Port!EachWaitsOnce'
      BY <3>1, <3>4
    <3> QED
      BY <3>5, <3>6
  <2>5. CASE UNCHANGED Port!vars
    BY <2>5 DEF Port!vars
  <2> QED
    BY <2>1, <2>2, <2>3, <2>4, <2>5 DEF Port!Next
<1> QED
  BY <1>1, <1>2, PTL DEF Port!Spec

\* No promise is forgotten or settled twice (#pump, #failInFlight, close): the
\* invariant of the serial port, read through the refinement.
THEOREM NoPromiseIsForgotten == Spec => []NoPromiseForgotten
<1>1. PortInv => NoPromiseForgotten
  BY DEF PortInv, Port!EachWaitsOnce, NoPromiseForgotten
<1> QED
  BY <1>1, PortKeepsItsLine, ScpiSessionImplementsSerialPort, PTL DEF ImplementsSerialPort

-----------------------------------------------------------------------------
(* Replies in step with their queries *)

\* No query was given up and no block was read.
InSync == (\A j \in Timed : outcome[j] # "failed") /\ (\A j \in BinaryJobs : outcome[j] = "none")

\* Nothing on its way back.
Silent == Len(buffer) = 0 /\ Len(wire) = 0

IsText(s, j) == Len(s) = 1 /\ s[1] = Text(j)
IsLF(s) == Len(s) = 1 /\ s[1] = LF
IsLine(s, j) == Len(s) = 2 /\ s[1] = Text(j) /\ s[2] = LF

\* The reply of the query in flight, none or some of it received.
Replying ==
  /\ inFlight \in LineJobs
  /\ Len(writing) = 0
  /\ \/ Len(buffer) = 0 /\ IsLine(wire, inFlight)
     \/ IsText(buffer, inFlight) /\ IsLF(wire)

\* The only query that the instrument may hold, once, is the one in flight.
HoldsAtMost(held) ==
  /\ \A i \in DOMAIN held : held[i] \in WriteJobs \/ (Len(writing) = 0 /\ held[i] = inFlight)
  /\ \A i, k \in DOMAIN held : held[i] \notin WriteJobs /\ held[k] \notin WriteJobs => i = k
HoldsNoQuery(held) == \A i \in DOMAIN held : held[i] \in WriteJobs

\* A write under way is that of the job in flight, and a command that needs no reply
\* is in flight only until then.
InStep ==
  /\ Len(writing) = 0 \/ (Len(writing) = 1 /\ writing[1] = inFlight)
  /\ inFlight \in WriteJobs => Len(writing) = 1
  /\ \/ Silent /\ HoldsAtMost(atInstrument)
     \/ Replying /\ HoldsNoQuery(atInstrument)

SyncInv == InSync => RepliesMatch /\ (~closed => InStep)

\* A reply is a text token and a line feed, and the text is what its caller is owed.
LEMMA LineOfReply ==
  ASSUME NEW j \in LineJobs
  PROVE  /\ ReplyOf(j) \in Seq(Tokens) /\ IsLine(ReplyOf(j), j)
         /\ OwnReply(j) \in Seq(Tokens) /\ IsText(OwnReply(j), j)
<1>1. {Text(j), LF} \subseteq Tokens
  BY DEF Text, LF, Tokens, Jobs
<1>2. ReplyOf(j) = <<Text(j), LF>> /\ OwnReply(j) = <<Text(j)>>
  BY DEF ReplyOf, OwnReply
<1> QED
  BY <1>1, <1>2 DEF IsLine, IsText

LEMMA TextIsNoLF == ASSUME NEW j PROVE Text(j) # LF
BY DEF Text, LF

\* Without a line feed the framing waits; a text and a line feed are one reply,
\* and reading it empties the buffer.
LEMMA ReadsOneLine ==
  ASSUME NEW j \in LineJobs, NEW buf \in Seq(Tokens)
  PROVE  /\ Len(buf) = 0 \/ IsText(buf, j) => ~LineReady(buf)
         /\ IsLine(buf, j) => /\ LineReady(buf)
                              /\ LineValue(buf) = OwnReply(j)
                              /\ Len(AfterLine(buf)) = 0
<1>1. DOMAIN buf = 1..Len(buf) /\ Len(buf) \in Nat
  BY LenProperties
<1>2. ASSUME Len(buf) = 0 \/ IsText(buf, j) PROVE ~LineReady(buf)
  BY <1>1, <1>2, TextIsNoLF DEF IsText, LineReady, LineFeeds
<1>3. ASSUME IsLine(buf, j)
      PROVE  LineReady(buf) /\ LineValue(buf) = OwnReply(j) /\ Len(AfterLine(buf)) = 0
  <2>1. Len(buf) = 2 /\ buf[1] = Text(j) /\ buf[2] = LF
    BY <1>3 DEF IsLine
  <2>2. LineFeeds(buf) = {2}
    BY <1>1, <2>1, TextIsNoLF DEF LineFeeds
  <2>3. FirstLF(buf) = 2
    BY <2>2 DEF FirstLF
  <2>4. LineValue(buf) = SubSeq(buf, 1, 1) /\ AfterLine(buf) = SubSeq(buf, 3, 2)
    BY <2>1, <2>3 DEF LineValue, AfterLine
  <2>5. \A i \in 1..1 : buf[i] \in Tokens
    BY <2>1, ElementOfSeq
  <2>6. /\ LineValue(buf) \in Seq(Tokens) /\ Len(LineValue(buf)) = 1
        /\ LineValue(buf)[1] = Text(j)
    BY <2>1, <2>4, <2>5, SubSeqProperties
  <2>7. /\ OwnReply(j) \in Seq(Tokens) /\ Len(OwnReply(j)) = 1
        /\ OwnReply(j)[1] = Text(j)
    BY LineOfReply DEF IsText
  <2>8. LineValue(buf) = OwnReply(j)
    BY <2>6, <2>7, SeqEqual
  <2>9. AfterLine(buf) = <<>>
    BY <2>4, SubSeqEmpty
  <2>10. Len(<<>>) = 0
    OBVIOUS
  <2> QED
    BY <2>2, <2>8, <2>9, <2>10 DEF LineReady
<1> QED
  BY <1>2, <1>3

\* Starting the next job from silence, with no query at the instrument, is in step.
LEMMA PumpInStep ==
  ASSUME NEW q \in Seq(Jobs), NEW w \in Seq(Jobs), Len(w) = 0, Pump(q, w),
         Silent', HoldsNoQuery(atInstrument)'
  PROVE  InStep'
<1>1. HoldsAtMost(atInstrument)'
  BY DEF HoldsNoQuery, HoldsAtMost
<1>2. CASE q = <<>>
  BY <1>1, <1>2, NoJobIsNoJob DEF Pump, InStep, Jobs
<1>3. CASE q # <<>>
  <2>1. Head(q) \in Jobs /\ writing' = Append(w, Head(q)) /\ inFlight' = Head(q)
    BY <1>3, HeadTailProperties DEF Pump
  <2>2. Len(writing') = 1 /\ writing'[1] = inFlight'
    BY <2>1, AppendProperties
  <2> QED
    BY <1>1, <2>2 DEF InStep
<1> QED
  BY <1>2, <1>3

\* Outcomes that are final: what is failed stays so, and what was asked stays asked.
OutcomesGrow ==
  \A j \in Jobs : /\ outcome[j] = "failed" => outcome'[j] = "failed"
                  /\ outcome[j] # "none" => outcome'[j] # "none"

LEMMA InSyncBefore ==
  ASSUME OutcomesGrow, InSync'
  PROVE  InSync
BY TimedAreQueries DEF OutcomesGrow, InSync, Jobs

\* Ending the job in flight settles a promise that was pending.
LEMMA EndingGrows ==
  ASSUME IInv, inFlight \in Jobs, outcome[inFlight] = "pending",
         NEW value, NEW w, NEW timers,
         CompleteInFlight(value, w, timers) \/ FailInFlight(w, timers)
  PROVE  OutcomesGrow
BY DEF OutcomesGrow, CompleteInFlight, FailInFlight, IInv, Discipline, SessionType

\* A failure, or the end of a job that carries no reply, leaves the replies as they match.
LEMMA EndingMatches ==
  ASSUME IInv, inFlight \in Jobs, RepliesMatch,
         NEW value \in Seq(Tokens), NEW w, NEW timers,
         \/ FailInFlight(w, timers)
         \/ /\ CompleteInFlight(value, w, timers)
            /\ inFlight \in WriteJobs \/ value = OwnReply(inFlight)
  PROVE  RepliesMatch'
<1>1. /\ outcome \in [Jobs -> {"none", "pending", "ok", "failed"}]
      /\ reply \in [Jobs -> Seq(Tokens)]
  BY DEF IInv, Discipline, SessionType
<1> SUFFICES ASSUME NEW j \in LineJobs \cup BinaryJobs, outcome'[j] = "ok"
             PROVE  reply'[j] = OwnReply(j)
  BY DEF RepliesMatch, OwnReply
<1>2. j \in Jobs /\ j \notin WriteJobs
  BY ModesDisjoint DEF Jobs
<1>3. CASE j = inFlight
  BY <1>1, <1>2, <1>3 DEF FailInFlight, CompleteInFlight
<1>4. CASE j # inFlight
  BY <1>1, <1>2, <1>4 DEF FailInFlight, CompleteInFlight, RepliesMatch
<1> QED
  BY <1>3, <1>4

\* What InStep says of the job in flight while its bytes are being handed over.
LEMMA WritingInStep ==
  ASSUME IInv, InStep, writing # <<>>
  PROVE  /\ Head(writing) = inFlight /\ inFlight \in Jobs
         /\ Tail(writing) \in Seq(Jobs) /\ Len(Tail(writing)) = 0
         /\ Silent /\ HoldsNoQuery(atInstrument)
<1>1. writing \in Seq(Jobs)
  BY DEF IInv, Discipline, SessionType
<1>2. Len(writing) = 1 /\ writing[1] = inFlight
  BY <1>1, EmptySeq DEF InStep
<1>3. /\ Head(writing) = writing[1] /\ Head(writing) \in Jobs
      /\ Tail(writing) \in Seq(Jobs) /\ Len(Tail(writing)) = Len(writing) - 1
  BY <1>1, HeadTailProperties
<1> QED
  BY <1>2, <1>3 DEF InStep, Replying, HoldsAtMost, HoldsNoQuery

\* Ending the job in flight from silence, with no query at the instrument.
LEMMA EndInStep ==
  ASSUME IInv, SyncInv, InSync', inFlight \in Jobs, outcome[inFlight] = "pending",
         NEW value \in Seq(Tokens), NEW w \in Seq(Jobs), NEW timers, Len(w) = 0,
         Silent', HoldsNoQuery(atInstrument)',
         \/ FailInFlight(w, timers)
         \/ /\ CompleteInFlight(value, w, timers)
            /\ inFlight \in WriteJobs \/ value = OwnReply(inFlight)
  PROVE  SyncInv'
<1>1. RepliesMatch
  BY EndingGrows, InSyncBefore DEF SyncInv
<1>2. RepliesMatch'
  BY <1>1, EndingMatches
<1>3. queue \in Seq(Jobs) /\ Pump(queue, w)
  BY DEF IInv, Discipline, SessionType, CompleteInFlight, FailInFlight
<1>4. InStep'
  BY <1>3, PumpInStep
<1> QED
  BY <1>2, <1>4 DEF SyncInv

LEMMA EnqueueInSync ==
  ASSUME IInv, SyncInv, InSync', NEW j \in Jobs, Enqueue(j)
  PROVE  SyncInv'
<1>1. /\ outcome \in [Jobs -> {"none", "pending", "ok", "failed"}]
      /\ queue \in Seq(Jobs) /\ writing \in Seq(Jobs) /\ atInstrument \in Seq(Jobs)
  BY DEF IInv, Discipline, SessionType, EnvType
<1>2. /\ ~closed /\ outcome[j] = "none"
      /\ outcome' = [outcome EXCEPT ![j] = "pending"]
      /\ UNCHANGED <<reply, buffer, atInstrument, wire>>
  BY DEF Enqueue
<1>3. RepliesMatch /\ InStep
  <2>1. OutcomesGrow
    BY <1>1, <1>2 DEF OutcomesGrow
  <2> QED
    BY <1>2, <2>1, InSyncBefore DEF SyncInv
<1>4. RepliesMatch'
  BY <1>1, <1>2, <1>3 DEF RepliesMatch, OwnReply, Jobs
<1>5. CASE inFlight = NoJob
  <2>1. Len(writing) = 0
    <3>1. writing[1] = NoJob => Len(writing) # 1
      <4>1. writing \in [1..Len(writing) -> Jobs]
        BY <1>1, LenProperties
      <4> QED
        BY <4>1, NoJobIsNoJob
    <3> QED
      BY <1>3, <1>5, <3>1 DEF InStep
  <2>2. Silent /\ HoldsAtMost(atInstrument)
    BY <1>3, <1>5, NoJobIsNoJob DEF InStep, Replying, Jobs
  <2>3. HoldsNoQuery(atInstrument)
    <3>1. \A i \in DOMAIN atInstrument : atInstrument[i] \in Jobs
      BY <1>1, LenProperties, ElementOfSeq
    <3> QED
      BY <1>5, <2>2, <3>1, NoJobIsNoJob DEF HoldsAtMost, HoldsNoQuery
  <2>4. Pump(Append(queue, j), writing) /\ Append(queue, j) \in Seq(Jobs)
    BY <1>1, <1>5, AppendProperties DEF Enqueue
  <2>5. Silent' /\ HoldsNoQuery(atInstrument)'
    BY <1>2, <2>2, <2>3 DEF Silent, HoldsNoQuery
  <2>6. InStep'
    BY <1>1, <2>1, <2>4, <2>5, PumpInStep
  <2> QED
    BY <1>4, <2>6 DEF SyncInv
<1>6. CASE inFlight # NoJob
  <2>1. UNCHANGED <<inFlight, writing>>
    BY <1>6 DEF Enqueue
  <2>2. InStep'
    BY <1>2, <1>3, <2>1 DEF InStep, Silent, Replying, HoldsAtMost, HoldsNoQuery
  <2> QED
    BY <1>4, <2>2 DEF SyncInv
<1> QED
  BY <1>5, <1>6

\* A query that is in flight and in step is a query for a line.
LEMMA QueryIsLine ==
  ASSUME InSync, inFlight \in Jobs, outcome[inFlight] = "pending", inFlight \notin WriteJobs
  PROVE  inFlight \in LineJobs /\ inFlight \notin BinaryJobs
BY ModesDisjoint DEF InSync, Jobs

LEMMA WriteDoneInSync ==
  ASSUME IInv, SyncInv, InSync', WriteDone,
         inFlight # NoJob => outcome[inFlight] = "pending"
  PROVE  SyncInv'
<1>1. /\ outcome \in [Jobs -> {"none", "pending", "ok", "failed"}]
      /\ writing \in Seq(Jobs) /\ atInstrument \in Seq(Jobs) /\ buffer \in Seq(Tokens)
      /\ inFlight \in Jobs \cup {NoJob}
  BY DEF IInv, Discipline, SessionType, EnvType
<1>2. /\ writing # <<>> /\ closed' = closed /\ wire' = wire
      /\ atInstrument' = Append(atInstrument, Head(writing))
  BY DEF WriteDone
<1>3. CASE closed
  <2>1. inFlight = NoJob
    BY <1>3 DEF IInv, Discipline, ClosedIsEmpty
  <2>2. UNCHANGED <<outcome, reply>>
    BY <2>1, NoJobIsNoJob DEF WriteDone, TryDeliver, KeepInFlight, Jobs
  <2>3. OutcomesGrow
    BY <2>2 DEF OutcomesGrow
  <2> QED
    BY <1>2, <1>3, <2>2, <2>3, InSyncBefore DEF SyncInv, RepliesMatch, OwnReply
<1>4. CASE ~closed /\ Head(writing) \in WriteJobs
  <2>1. inFlight # NoJob => CompleteInFlight(<<>>, Tail(writing), armed) /\ buffer' = buffer
    BY <1>4 DEF WriteDone
  <2>2. inFlight # NoJob => OutcomesGrow
    BY <1>1, <2>1, EndingGrows
  <2>3. inFlight = NoJob => OutcomesGrow
    BY <1>4 DEF WriteDone, KeepInFlight, OutcomesGrow
  <2>4. InStep
    BY <1>4, <2>2, <2>3, InSyncBefore DEF SyncInv
  <2>5. /\ Head(writing) = inFlight /\ inFlight \in Jobs
        /\ Tail(writing) \in Seq(Jobs) /\ Len(Tail(writing)) = 0
        /\ Silent /\ HoldsNoQuery(atInstrument)
    BY <1>2, <2>4, WritingInStep
  <2>6. Silent'
    BY <1>2, <2>1, <2>5, NoJobIsNoJob DEF Silent
  <2>7. HoldsNoQuery(atInstrument)'
    <3>1. /\ atInstrument' \in Seq(Jobs) /\ Len(atInstrument') = Len(atInstrument) + 1
          /\ \A i \in 1..Len(atInstrument) : atInstrument'[i] = atInstrument[i]
          /\ atInstrument'[Len(atInstrument) + 1] \in WriteJobs
      BY <1>1, <1>2, <1>4, <2>5, AppendProperties
    <3>2. /\ DOMAIN atInstrument = 1..Len(atInstrument) /\ Len(atInstrument) \in Nat
          /\ DOMAIN atInstrument' = 1..Len(atInstrument')
      BY <1>1, <3>1, LenProperties
    <3> QED
      BY <2>5, <3>1, <3>2 DEF HoldsNoQuery
  <2>8. <<>> \in Seq(Tokens)
    OBVIOUS
  <2> QED
    BY <1>4, <2>1, <2>5, <2>6, <2>7, <2>8, NoJobIsNoJob, EndInStep
<1>5. CASE ~closed /\ Head(writing) \notin WriteJobs
  <2>1. TryDeliver(buffer, Tail(writing), ArmDeadline(Head(writing), armed))
    BY <1>5 DEF WriteDone
  <2>2. OutcomesGrow
    <3>1. CASE KeepInFlight(Tail(writing), ArmDeadline(Head(writing), armed))
      BY <3>1 DEF KeepInFlight, OutcomesGrow
    <3>2. CASE ~KeepInFlight(Tail(writing), ArmDeadline(Head(writing), armed))
      <4>1. inFlight \in LineJobs \cup BinaryJobs
        BY <2>1, <3>2 DEF TryDeliver
      <4>2. inFlight \in Jobs /\ outcome[inFlight] = "pending"
        BY <4>1, NoJobIsNoJob DEF Jobs
      <4> QED
        BY <2>1, <3>2, <4>2, EndingGrows DEF TryDeliver
    <3> QED
      BY <3>1, <3>2
  <2>3. InSync /\ InStep /\ RepliesMatch
    BY <1>5, <2>2, InSyncBefore DEF SyncInv
  <2>4. /\ Head(writing) = inFlight /\ inFlight \in Jobs
        /\ Tail(writing) \in Seq(Jobs) /\ Len(Tail(writing)) = 0
        /\ Silent /\ HoldsNoQuery(atInstrument)
    BY <1>2, <2>3, WritingInStep
  <2>5. inFlight \in LineJobs /\ inFlight \notin BinaryJobs /\ inFlight \notin WriteJobs
    BY <1>5, <2>3, <2>4, NoJobIsNoJob, QueryIsLine
  <2>6. ~LineReady(buffer)
    BY <1>1, <2>4, <2>5, ReadsOneLine DEF Silent
  <2>7. buffer' = buffer /\ KeepInFlight(Tail(writing), ArmDeadline(Head(writing), armed))
    BY <2>1, <2>5, <2>6 DEF TryDeliver
  <2>8. /\ UNCHANGED <<outcome, reply, inFlight>> /\ writing' = Tail(writing)
    BY <2>7 DEF KeepInFlight
  <2>9. RepliesMatch'
    BY <2>3, <2>8 DEF RepliesMatch, OwnReply
  <2>10. HoldsAtMost(atInstrument)'
    <3>1. /\ atInstrument' \in Seq(Jobs) /\ Len(atInstrument') = Len(atInstrument) + 1
          /\ \A i \in 1..Len(atInstrument) : atInstrument'[i] = atInstrument[i]
          /\ atInstrument'[Len(atInstrument) + 1] = inFlight
      BY <1>1, <1>2, <2>4, AppendProperties
    <3>2. /\ DOMAIN atInstrument = 1..Len(atInstrument) /\ Len(atInstrument) \in Nat
          /\ DOMAIN atInstrument' = 1..Len(atInstrument')
      BY <1>1, <3>1, LenProperties
    <3>3. \A i \in DOMAIN atInstrument' :
            atInstrument'[i] \in WriteJobs \/ i = Len(atInstrument) + 1
      BY <2>4, <3>1, <3>2 DEF HoldsNoQuery
    <3> QED
      BY <2>4, <2>8, <3>1, <3>3 DEF HoldsAtMost
  <2>11. Silent'
    BY <1>2, <2>4, <2>7 DEF Silent
  <2> QED
    BY <2>4, <2>5, <2>8, <2>9, <2>10, <2>11 DEF SyncInv, InStep
<1> QED
  BY <1>3, <1>4, <1>5

LEMMA WriteFailedInSync ==
  ASSUME IInv, SyncInv, InSync', WriteFailed,
         inFlight # NoJob => outcome[inFlight] = "pending"
  PROVE  SyncInv'
<1>1. /\ inFlight \in Jobs \cup {NoJob} /\ writing # <<>>
      /\ UNCHANGED <<closed, buffer, atInstrument, wire>>
  BY DEF WriteFailed, IInv, Discipline, SessionType
<1>2. CASE inFlight = NoJob
  <2>1. KeepInFlight(Tail(writing), armed)
    BY <1>2 DEF WriteFailed
  <2>2. OutcomesGrow /\ UNCHANGED <<outcome, reply>>
    BY <2>1 DEF KeepInFlight, OutcomesGrow
  <2>3. closed
    <3>1. CASE ~closed
      <4>1. InStep
        BY <2>2, <3>1, InSyncBefore DEF SyncInv
      <4> QED
        BY <1>1, <1>2, <4>1, WritingInStep, NoJobIsNoJob
    <3> QED
      BY <3>1
  <2> QED
    BY <1>1, <2>2, <2>3, InSyncBefore DEF SyncInv, RepliesMatch, OwnReply
<1>3. CASE inFlight # NoJob
  <2>1. FailInFlight(Tail(writing), armed)
    BY <1>3 DEF WriteFailed
  <2>2. inFlight \in Jobs /\ outcome[inFlight] = "pending" /\ ~closed
    BY <1>1, <1>3 DEF IInv, Discipline, ClosedIsEmpty
  <2>3. OutcomesGrow
    BY <2>1, <2>2, EndingGrows
  <2>4. InStep
    BY <2>2, <2>3, InSyncBefore DEF SyncInv
  <2>5. /\ Tail(writing) \in Seq(Jobs) /\ Len(Tail(writing)) = 0
        /\ Silent /\ HoldsNoQuery(atInstrument)
    BY <1>1, <2>4, WritingInStep
  <2>6. Silent' /\ HoldsNoQuery(atInstrument)'
    BY <1>1, <2>5 DEF Silent, HoldsNoQuery
  <2>7. <<>> \in Seq(Tokens)
    OBVIOUS
  <2> QED
    BY <2>1, <2>2, <2>5, <2>6, <2>7, EndInStep
<1> QED
  BY <1>2, <1>3

\* A deadline that ends its query puts the session out of sync; any other does nothing.
LEMMA DeadlineInSync ==
  ASSUME IInv, SyncInv, InSync', NEW j \in Jobs, DeadlineFires(j)
  PROVE  SyncInv'
<1>1. j \in Timed /\ outcome \in [Jobs -> {"none", "pending", "ok", "failed"}]
  BY DEF DeadlineFires, IInv, Discipline, SessionType
<1>2. inFlight # j
  BY <1>1 DEF DeadlineFires, FailInFlight, InSync
<1>3. UNCHANGED <<outcome, reply, inFlight, writing, closed, buffer, atInstrument, wire>>
  BY <1>2 DEF DeadlineFires, KeepInFlight
<1>4. InSync
  BY <1>3 DEF InSync
<1>5. RepliesMatch => RepliesMatch'
  BY <1>3 DEF RepliesMatch, OwnReply
<1>6. InStep => InStep'
  BY <1>3 DEF InStep, Silent, Replying, HoldsAtMost, HoldsNoQuery
<1> QED
  BY <1>3, <1>4, <1>5, <1>6 DEF SyncInv

\* After a close, or a loss, only what was resolved before counts.
LEMMA ShutInSync ==
  ASSUME IInv, SyncInv, InSync', Close \/ TransportLost
  PROVE  SyncInv'
<1>1. closed' /\ outcome' = RejectPending /\ reply' = reply
  BY DEF Close, TransportLost
<1>2. outcome \in [Jobs -> {"none", "pending", "ok", "failed"}]
  BY DEF IInv, Discipline, SessionType
<1>3. OutcomesGrow /\ \A j \in Jobs : outcome'[j] = "ok" => outcome[j] = "ok"
  BY <1>1, <1>2 DEF RejectPending, OutcomesGrow
<1> QED
  BY <1>1, <1>3, InSyncBefore DEF SyncInv, RepliesMatch, OwnReply, Jobs

\* A chunk brings some or all of the reply of the query in flight.
LEMMA DataInSync ==
  ASSUME IInv, SyncInv, InSync', NEW n \in 1..Len(wire), Data(n),
         inFlight # NoJob => outcome[inFlight] = "pending"
  PROVE  SyncInv'
<1> DEFINE chunk == SubSeq(wire, 1, n)
           buf == buffer \o chunk
<1>1. /\ buffer \in Seq(Tokens) /\ wire \in Seq(Tokens) /\ writing \in Seq(Jobs)
      /\ Len(wire) \in Nat
  BY LenProperties DEF IInv, EnvType, Discipline, SessionType
<1>2. /\ ~closed /\ closed' = closed /\ atInstrument' = atInstrument
      /\ wire' = SubSeq(wire, n + 1, Len(wire))
      /\ TryDeliver(buf, writing, armed)
  BY DEF Data
<1>3. OutcomesGrow
  <2>1. CASE KeepInFlight(writing, armed)
    BY <2>1 DEF KeepInFlight, OutcomesGrow
  <2>2. CASE ~KeepInFlight(writing, armed)
    <3>1. inFlight \in LineJobs \cup BinaryJobs
      BY <1>2, <2>2 DEF TryDeliver
    <3>2. inFlight \in Jobs /\ outcome[inFlight] = "pending"
      BY <3>1, NoJobIsNoJob DEF Jobs
    <3> QED
      BY <1>2, <2>2, <3>2, EndingGrows DEF TryDeliver
  <2> QED
    BY <2>1, <2>2
<1>4. RepliesMatch /\ InStep
  BY <1>2, <1>3, InSyncBefore DEF SyncInv
<1>5. Replying /\ HoldsNoQuery(atInstrument)
  BY <1>1, <1>4 DEF InStep, Silent
<1>6. /\ inFlight \in LineJobs /\ inFlight \in Jobs /\ inFlight \notin BinaryJobs
      /\ inFlight \notin WriteJobs /\ outcome[inFlight] = "pending" /\ Len(writing) = 0
  BY <1>5, ModesDisjoint, NoJobIsNoJob DEF Replying, Jobs
<1>7. /\ chunk \in Seq(Tokens) /\ Len(chunk) = n
      /\ \A i \in 1..n : chunk[i] = wire[i]
  <2>1. \A i \in 1..n : wire[i] \in Tokens
    BY <1>1, ElementOfSeq
  <2>2. \A i \in 1..(n - 1 + 1) : SubSeq(wire, 1, n)[i] = wire[1 + i - 1]
    BY <1>1, <2>1, SubSeqProperties
  <2>3. SubSeq(wire, 1, n) \in Seq(Tokens) /\ Len(SubSeq(wire, 1, n)) = n
    BY <1>1, <2>1, SubSeqProperties
  <2> QED
    BY <1>1, <2>2, <2>3
<1>8. /\ wire' \in Seq(Tokens) /\ Len(wire') = Len(wire) - n
      /\ \A i \in 1..(Len(wire) - n) : wire'[i] = wire[n + i]
  <2>1. \A i \in (n + 1)..Len(wire) : wire[i] \in Tokens
    BY <1>1, ElementOfSeq
  <2>2. \A i \in 1..(Len(wire) - (n + 1) + 1) :
          SubSeq(wire, n + 1, Len(wire))[i] = wire[(n + 1) + i - 1]
    BY <1>1, <2>1, SubSeqProperties
  <2>3. /\ SubSeq(wire, n + 1, Len(wire)) \in Seq(Tokens)
        /\ Len(SubSeq(wire, n + 1, Len(wire))) = Len(wire) - n
    BY <1>1, <2>1, SubSeqProperties
  <2> QED
    BY <1>1, <1>2, <2>2, <2>3
<1>9. /\ buf \in Seq(Tokens) /\ Len(buf) = Len(buffer) + n
      /\ \A i \in 1..(Len(buffer) + n) :
           buf[i] = IF i <= Len(buffer) THEN buffer[i] ELSE chunk[i - Len(buffer)]
  BY <1>1, <1>7, ConcatProperties
<1> HIDE DEF chunk, buf
<1>10. \/ IsText(buf, inFlight) /\ IsLF(wire')
       \/ IsLine(buf, inFlight) /\ Len(wire') = 0
  <2>1. CASE Len(buffer) = 0 /\ IsLine(wire, inFlight)
    <3>1. n = 1 \/ n = 2
      BY <2>1 DEF IsLine
    <3>2. Len(buf) = n /\ \A i \in 1..n : buf[i] = wire[i]
      BY <1>7, <1>9, <2>1
    <3> QED
      BY <1>8, <2>1, <3>1, <3>2 DEF IsLine, IsText, IsLF
  <2>2. CASE IsText(buffer, inFlight) /\ IsLF(wire)
    <3>1. n = 1 /\ Len(buf) = 2 /\ buf[1] = buffer[1] /\ buf[2] = wire[1]
      BY <1>7, <1>9, <2>2 DEF IsText, IsLF
    <3> QED
      BY <1>8, <2>2, <3>1 DEF IsLine, IsText, IsLF
  <2> QED
    BY <1>5, <2>1, <2>2 DEF Replying
<1>11. CASE IsText(buf, inFlight) /\ IsLF(wire')
  <2>1. ~LineReady(buf)
    BY <1>6, <1>9, <1>11, ReadsOneLine
  <2>2. buffer' = buf /\ KeepInFlight(writing, armed)
    BY <1>2, <1>6, <2>1 DEF TryDeliver
  <2>3. UNCHANGED <<outcome, reply, inFlight, writing>>
    BY <2>2 DEF KeepInFlight
  <2>4. RepliesMatch'
    BY <1>4, <2>3 DEF RepliesMatch, OwnReply
  <2>5. Replying' /\ HoldsNoQuery(atInstrument)'
    BY <1>2, <1>5, <1>6, <1>11, <2>2, <2>3 DEF Replying, HoldsNoQuery
  <2> QED
    BY <1>6, <2>3, <2>4, <2>5 DEF SyncInv, InStep
<1>12. CASE IsLine(buf, inFlight) /\ Len(wire') = 0
  <2>1. /\ LineReady(buf) /\ LineValue(buf) = OwnReply(inFlight)
        /\ Len(AfterLine(buf)) = 0
    BY <1>6, <1>9, <1>12, ReadsOneLine
  <2>2. buffer' = AfterLine(buf) /\ CompleteInFlight(LineValue(buf), writing, armed)
    BY <1>2, <1>6, <2>1 DEF TryDeliver, Waits
  <2>3. Silent' /\ HoldsNoQuery(atInstrument)'
    BY <1>2, <1>5, <1>12, <2>1, <2>2 DEF Silent, HoldsNoQuery
  <2>4. LineValue(buf) \in Seq(Tokens)
    BY <1>6, <2>1, LineOfReply
  <2> QED
    BY <1>1, <1>6, <2>1, <2>2, <2>3, <2>4, EndInStep
<1> QED
  BY <1>10, <1>11, <1>12

\* The instrument deals with the oldest command: the reply of a query is that of the
\* query in flight.
LEMMA InstrumentInSync ==
  ASSUME IInv, SyncInv, InSync', Answer \/ Ignore,
         inFlight # NoJob => outcome[inFlight] = "pending"
  PROVE  SyncInv'
<1> DEFINE first == Head(atInstrument)
<1>1. wire \in Seq(Tokens) /\ atInstrument \in Seq(Jobs)
  BY DEF IInv, EnvType
<1>2. /\ UNCHANGED <<outcome, reply, inFlight, writing, closed, buffer>>
      /\ atInstrument # <<>> /\ atInstrument' = Tail(atInstrument)
      /\ wire' = wire \o ReplyOf(first) \/ wire' = wire
  BY DEF Answer, Ignore, session
<1>3. InSync /\ RepliesMatch /\ RepliesMatch'
  BY <1>2 DEF InSync, SyncInv, RepliesMatch, OwnReply
<1>4. /\ first = atInstrument[1] /\ first \in Jobs
      /\ atInstrument' \in Seq(Jobs) /\ Len(atInstrument') = Len(atInstrument) - 1
      /\ \A i \in 1..(Len(atInstrument) - 1) : atInstrument'[i] = atInstrument[i + 1]
      /\ Len(atInstrument) \in Nat /\ 1 <= Len(atInstrument)
      /\ DOMAIN atInstrument = 1..Len(atInstrument)
      /\ DOMAIN atInstrument' = 1..Len(atInstrument')
  <2>1. Len(atInstrument) \in Nat \ {0}
    BY <1>1, <1>2, EmptySeq
  <2>2. /\ first \in Jobs /\ Tail(atInstrument) \in Seq(Jobs)
        /\ Len(Tail(atInstrument)) = Len(atInstrument) - 1
        /\ \A i \in 1..Len(Tail(atInstrument)) : Tail(atInstrument)[i] = atInstrument[i + 1]
    BY <1>1, <1>2, HeadTailProperties
  <2>3. /\ DOMAIN atInstrument = 1..Len(atInstrument)
        /\ DOMAIN Tail(atInstrument) = 1..Len(Tail(atInstrument))
    BY <1>1, <2>2, LenProperties
  <2> QED
    BY <1>1, <1>2, <2>1, <2>2, <2>3
<1> HIDE DEF first
<1>5. CASE closed
  BY <1>2, <1>3, <1>5 DEF SyncInv
<1>6. CASE ~closed /\ first \in WriteJobs
  <2>1. InStep
    BY <1>3, <1>6 DEF SyncInv
  <2>2. Len(wire') = Len(wire) /\ (Len(wire) > 0 => wire' = wire)
    <3>1. ReplyOf(first) = <<>>
      BY <1>6, ModesDisjoint DEF ReplyOf
    <3>2. wire \o <<>> = wire
      BY <1>1, ConcatEmptySeq
    <3> QED
      BY <1>2, <3>1, <3>2
  <2>3. HoldsNoQuery(atInstrument) => HoldsNoQuery(atInstrument)'
    BY <1>4 DEF HoldsNoQuery
  <2>4. HoldsAtMost(atInstrument) => HoldsAtMost(atInstrument)'
    BY <1>2, <1>4 DEF HoldsAtMost
  <2>5. Silent => Silent'
    BY <1>2, <2>2 DEF Silent
  <2>6. Replying => Replying'
    BY <1>2, <2>2 DEF Replying, IsLine, IsLF
  <2> QED
    BY <1>2, <1>3, <2>1, <2>3, <2>4, <2>5, <2>6 DEF SyncInv, InStep
<1>7. CASE ~closed /\ first \notin WriteJobs
  <2>1. InStep
    BY <1>3, <1>7 DEF SyncInv
  <2>2. Silent /\ HoldsAtMost(atInstrument)
    BY <1>4, <1>7, <2>1 DEF InStep, HoldsNoQuery
  <2>3. Len(writing) = 0 /\ first = inFlight
    BY <1>4, <1>7, <2>2 DEF HoldsAtMost
  <2>4. HoldsNoQuery(atInstrument)'
    BY <1>4, <1>7, <2>2 DEF HoldsAtMost, HoldsNoQuery
  <2>5. inFlight \in LineJobs /\ inFlight \notin WriteJobs
    BY <1>3, <1>4, <1>7, <2>3, QueryIsLine, NoJobIsNoJob
  <2>6. CASE wire' = wire
    <3>1. Silent'
      BY <1>2, <2>2, <2>6 DEF Silent
    <3>2. HoldsAtMost(atInstrument)'
      BY <2>4 DEF HoldsAtMost, HoldsNoQuery
    <3> QED
      BY <1>2, <1>3, <2>3, <2>5, <3>1, <3>2 DEF SyncInv, InStep
  <2>7. CASE wire' = wire \o ReplyOf(first)
    <3>1. ReplyOf(first) \in Seq(Tokens) /\ IsLine(ReplyOf(first), inFlight)
      BY <2>3, <2>5, LineOfReply
    <3>2. wire = <<>>
      BY <1>1, <2>2, EmptySeq DEF Silent
    <3>3. wire' = ReplyOf(first)
      BY <2>7, <3>1, <3>2, ConcatEmptySeq
    <3>4. Replying'
      BY <1>2, <2>2, <2>3, <2>5, <3>1, <3>3 DEF Replying, Silent
    <3> QED
      BY <1>2, <1>3, <2>3, <2>4, <2>5, <3>4 DEF SyncInv, InStep
  <2> QED
    BY <1>2, <2>6, <2>7
<1> QED
  BY <1>5, <1>6, <1>7

\* A line query that resolved has the reply to its own command, however the stream was
\* cut and whatever the instrument left unanswered, as long as no query was given up
\* and no block was read: #pump keeps one job in flight and #tryDeliver cuts one line.
THEOREM RepliesStayInStep == Spec => []RepliesMatchInSync
<1>1. Init => SyncInv
  <2> SUFFICES ASSUME Init PROVE RepliesMatch /\ InStep
    BY DEF SyncInv
  <2>1. RepliesMatch
    BY DEF Init, RepliesMatch, Jobs
  <2>2. Len(<<>>) = 0 /\ DOMAIN <<>> = {}
    OBVIOUS
  <2>3. Silent /\ HoldsAtMost(atInstrument) /\ inFlight \notin WriteJobs
    BY <2>2, NoJobIsNoJob DEF Init, Silent, HoldsAtMost, Jobs
  <2> QED
    BY <2>1, <2>2, <2>3 DEF Init, InStep
<1>2. IInv /\ NoPromiseForgotten /\ SyncInv /\ [Next]_vars => SyncInv'
  <2> SUFFICES ASSUME IInv, NoPromiseForgotten, SyncInv, [Next]_vars, InSync'
               PROVE  SyncInv'
    BY DEF SyncInv
  <2>1. inFlight # NoJob => outcome[inFlight] = "pending"
    <3> SUFFICES ASSUME inFlight # NoJob PROVE outcome[inFlight] = "pending"
      OBVIOUS
    <3>1. inFlight \in Jobs /\ queue \in Seq(Jobs)
      BY DEF IInv, Discipline, SessionType
    <3>2. InLine = <<inFlight>> \o queue /\ <<inFlight>> \in Seq(Jobs)
      BY <3>1 DEF InLine
    <3>3. 1 \in DOMAIN InLine /\ InLine[1] = inFlight
      BY <3>1, <3>2
    <3> QED
      BY <3>1, <3>3 DEF NoPromiseForgotten
  <2>2. ASSUME NEW j \in Jobs, EnqueueClosed(j) PROVE SyncInv'
    <3>1. /\ outcome \in [Jobs -> {"none", "pending", "ok", "failed"}]
          /\ outcome' = [outcome EXCEPT ![j] = "failed"] /\ outcome[j] = "none"
          /\ closed' /\ reply' = reply
      BY <2>2 DEF EnqueueClosed, IInv, Discipline, SessionType
    <3>2. OutcomesGrow
      BY <3>1 DEF OutcomesGrow
    <3> QED
      BY <3>1, <3>2, InSyncBefore DEF SyncInv, RepliesMatch, OwnReply, Jobs
  <2>3. CASE UNCHANGED vars
    <3>1. /\ UNCHANGED <<outcome, reply, inFlight, writing, closed>>
          /\ UNCHANGED <<buffer, atInstrument, wire>>
      BY <2>3 DEF vars, session
    <3>2. InSync /\ (RepliesMatch => RepliesMatch')
      BY <3>1 DEF InSync, RepliesMatch, OwnReply
    <3>3. InStep => InStep'
      BY <3>1 DEF InStep, Silent, Replying, HoldsAtMost, HoldsNoQuery
    <3> QED
      BY <3>1, <3>2, <3>3 DEF SyncInv
  <2> QED
    BY <2>1, <2>2, <2>3, EnqueueInSync, WriteDoneInSync, WriteFailedInSync, DeadlineInSync,
       DataInSync, ShutInSync, InstrumentInSync
       DEF Next, Call, WriteCallback
<1>3. SyncInv => RepliesMatchInSync
  BY DEF SyncInv, InSync, RepliesMatchInSync
<1> QED
  BY <1>1, <1>2, <1>3, InvariantHolds, NoPromiseIsForgotten, PTL DEF Spec
=============================================================================
