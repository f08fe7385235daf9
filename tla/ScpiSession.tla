---------------------------- MODULE ScpiSession -----------------------------
(***************************************************************************)
(* packages/core/src/scpi/session.ts: one SCPI conversation over a byte    *)
(* stream.  Callers enqueue jobs (a write, a query for a line, a query for *)
(* an IEEE 488.2 block); one job is in flight at a time; reply bytes are   *)
(* cut off the front of a buffer.                                          *)
(*                                                                         *)
(* An action is one turn of the event loop: the callback and the promise   *)
(* continuations it resolves, which run before the next callback.  Bytes   *)
(* are abstracted to tokens: a line is a text token and a line feed, a     *)
(* block is a header, a body and the line feed instruments send after it.  *)
(* The instrument and the wire are external: commands reach the instrument *)
(* when their write callback fires, it answers them in order or ignores    *)
(* them, and the stream is cut into arbitrary chunks.                      *)
(***************************************************************************)
EXTENDS Naturals, Sequences

CONSTANTS
  WriteJobs,   \* mode "none": resolved once the bytes are handed over
  LineJobs,    \* mode "line"
  BinaryJobs,  \* mode "binary"
  Timed,       \* the queries with timeoutMs > 0
  NoJob

Jobs == WriteJobs \cup LineJobs \cup BinaryJobs

ASSUME ModesDisjoint ==
  /\ WriteJobs \cap LineJobs = {}
  /\ WriteJobs \cap BinaryJobs = {}
  /\ LineJobs \cap BinaryJobs = {}
ASSUME TimedAreQueries == Timed \subseteq LineJobs \cup BinaryJobs
ASSUME NoJobIsNoJob == NoJob \notin Jobs

VARIABLES
  queue,         \* #queue: accepted, not started
  inFlight,      \* #inFlight, or NoJob
  buffer,        \* #buffer: received tokens nobody has consumed
  closed,        \* #closed
  armed,         \* jobs whose deadline timer runs
  outcome,       \* the state of each caller's promise
  reply,         \* the value a resolved promise carries
  lossReported,  \* the onClose listeners have been called
  writing,       \* jobs whose transport.write has not called back, oldest first
  transport,     \* "open", "failing" (a write failed), "lost" or "ended"
  atInstrument,  \* commands the instrument has received and not dealt with
  wire           \* tokens it has sent that have not reached the session

session == <<queue, inFlight, closed, armed, outcome, reply, writing>>
vars == <<session, buffer, lossReported, transport, atInstrument, wire>>

-----------------------------------------------------------------------------
(* Tokens and framing *)

Text(j) == [kind |-> "text", of |-> j]
Hdr(j)  == [kind |-> "hdr",  of |-> j]
Body(j) == [kind |-> "body", of |-> j]
LF      == [kind |-> "lf",   of |-> NoJob]
Tokens  == [kind : {"text", "hdr", "body", "lf"}, of : Jobs \cup {NoJob}]

ReplyOf(j) ==
  IF j \in LineJobs THEN <<Text(j), LF>>
  ELSE IF j \in BinaryJobs THEN <<Hdr(j), Body(j), LF>>
  ELSE <<>>

OwnReply(j) == IF j \in LineJobs THEN <<Text(j)>> ELSE <<Body(j)>>

\* A framing reads the buffer and says whether a reply is there (`ready'),
\* which tokens it hands over, what stays, and whether reading them throws.
LineFeeds(buf) == {i \in DOMAIN buf : buf[i] = LF}
FirstLF(buf) == CHOOSE i \in LineFeeds(buf) : \A k \in LineFeeds(buf) : i <= k

LineReady(buf) == LineFeeds(buf) # {}
LineValue(buf) == SubSeq(buf, 1, FirstLF(buf) - 1)
\* Mutants of AfterLine: the line feed stays; the line is not consumed.
AfterLineKeepsLF(buf) == SubSeq(buf, FirstLF(buf), Len(buf))
AfterLine(buf) == SubSeq(buf, FirstLF(buf) + 1, Len(buf))

BlockReady(buf) == Len(buf) >= 2 /\ buf[1].kind = "hdr" /\ buf[2].kind = "body"
BlockValue(buf) == SubSeq(buf, 2, 2)
AfterBlock(buf) ==
  LET next == IF Len(buf) >= 3 /\ buf[3] = LF THEN 4 ELSE 3
  IN  SubSeq(buf, next, Len(buf))

\* The first two bytes are there and the first is not '#'.  A line feed is one
\* byte, every other token at least two.
BlockMalformed(buf) ==
  /\ buf # <<>>
  /\ buf[1].kind # "hdr"
  /\ buf[1] = LF => Len(buf) >= 2

-----------------------------------------------------------------------------
(* Ending the job in flight and starting the next *)

\* Mutant of Pump: one job of the backlog is dropped when the slot is freed.
PumpDropsOne(q, w) ==
  IF Len(q) < 2
  THEN inFlight' = NoJob /\ queue' = <<>> /\ writing' = w
  ELSE inFlight' = q[2] /\ queue' = Tail(Tail(q)) /\ writing' = Append(w, q[2])

\* #pump with the slot free: start the head of `q', if any, and hand its bytes
\* to the transport.  `w' is the list of writes that have not called back.
Pump(q, w) ==
  IF q = <<>>
  THEN inFlight' = NoJob /\ queue' = <<>> /\ writing' = w
  ELSE inFlight' = Head(q) /\ queue' = Tail(q) /\ writing' = Append(w, Head(q))

CompleteInFlight(value, w, timers) ==
  /\ outcome' = [outcome EXCEPT ![inFlight] = "ok"]
  /\ reply' = [reply EXCEPT ![inFlight] = value]
  /\ armed' = timers \ {inFlight}
  /\ Pump(queue, w)

FailInFlight(w, timers) ==
  /\ outcome' = [outcome EXCEPT ![inFlight] = "failed"]
  /\ armed' = timers \ {inFlight}
  /\ Pump(queue, w)
  /\ UNCHANGED reply

KeepInFlight(w, timers) ==
  /\ armed' = timers
  /\ writing' = w
  /\ UNCHANGED <<outcome, reply, inFlight, queue>>

ArmNever(job, timers) == timers

ArmDeadline(job, timers) == timers \cup (Timed \cap {job})

Waits(buf) ==
  /\ inFlight \in LineJobs => ~LineReady(buf)
  /\ inFlight \in BinaryJobs => ~BlockReady(buf) /\ ~BlockMalformed(buf)

\* #tryDeliver with `buf' in the buffer.  A malformed header throws before the
\* buffer is cut, so the offending bytes stay.
TryDeliver(buf, w, timers) ==
  \/ /\ inFlight \in LineJobs /\ LineReady(buf)
     /\ buffer' = AfterLine(buf)
     /\ CompleteInFlight(LineValue(buf), w, timers)
  \/ /\ inFlight \in BinaryJobs /\ BlockReady(buf)
     /\ buffer' = AfterBlock(buf)
     /\ CompleteInFlight(BlockValue(buf), w, timers)
  \/ /\ inFlight \in BinaryJobs /\ BlockMalformed(buf)
     /\ buffer' = buf
     /\ FailInFlight(w, timers)
  \/ /\ Waits(buf)
     /\ buffer' = buf
     /\ KeepInFlight(w, timers)

-----------------------------------------------------------------------------
(* The session's entry points and callbacks *)

Init ==
  /\ queue = <<>>
  /\ inFlight = NoJob
  /\ buffer = <<>>
  /\ closed = FALSE
  /\ armed = {}
  /\ outcome = [j \in Jobs |-> "none"]
  /\ reply = [j \in Jobs |-> <<>>]
  /\ lossReported = FALSE
  /\ writing = <<>>
  /\ transport = "open"
  /\ atInstrument = <<>>
  /\ wire = <<>>

\* write, writeBinary, query or queryBinary on an open session.
Enqueue(j) ==
  /\ ~closed
  /\ outcome[j] = "none"
  /\ outcome' = [outcome EXCEPT ![j] = "pending"]
  /\ IF inFlight = NoJob
     THEN Pump(Append(queue, j), writing)
     ELSE queue' = Append(queue, j) /\ UNCHANGED <<inFlight, writing>>
  /\ UNCHANGED <<closed, armed, reply, buffer, lossReported, transport, atInstrument, wire>>

\* The same on a closed session: the promise is rejected at once.
EnqueueClosed(j) ==
  /\ closed
  /\ outcome[j] = "none"
  /\ outcome' = [outcome EXCEPT ![j] = "failed"]
  /\ UNCHANGED <<queue, inFlight, closed, armed, reply, writing, buffer, lossReported,
                 transport, atInstrument, wire>>

\* The continuation of #pump after the oldest transport.write resolved.  It was
\* started for job Head(writing), and acts on whatever job is in flight now.
WriteDone ==
  /\ writing # <<>>
  /\ transport \in {"open", "ended"}
  /\ atInstrument' = Append(atInstrument, Head(writing))
  /\ LET job == Head(writing)
         rest == Tail(writing)
     IN  IF job \in WriteJobs
         THEN /\ IF inFlight = NoJob THEN KeepInFlight(rest, armed)
                                     ELSE CompleteInFlight(<<>>, rest, armed)
              /\ UNCHANGED buffer
         ELSE TryDeliver(buffer, rest, ArmDeadline(job, armed))
  /\ UNCHANGED <<closed, lossReported, transport, wire>>

\* The same continuation when the write called back with an error.
WriteFailed ==
  /\ writing # <<>>
  /\ transport' = IF transport = "open" THEN "failing" ELSE transport
  /\ IF inFlight = NoJob THEN KeepInFlight(Tail(writing), armed)
                         ELSE FailInFlight(Tail(writing), armed)
  /\ UNCHANGED <<closed, buffer, lossReported, atInstrument, wire>>

\* The timer armed by #armDeadline.  The buffer is not touched.
DeadlineFires(j) ==
  /\ j \in armed
  /\ IF inFlight = j THEN FailInFlight(writing, armed)
                     ELSE KeepInFlight(writing, armed \ {j})
  /\ UNCHANGED <<closed, buffer, lossReported, transport, atInstrument, wire>>

\* #handleData: a chunk of the stream, cut anywhere.
Data(n) ==
  /\ ~closed
  /\ n \in 1..Len(wire)
  /\ wire' = SubSeq(wire, n + 1, Len(wire))
  /\ TryDeliver(buffer \o SubSeq(wire, 1, n), writing, armed)
  /\ UNCHANGED <<closed, lossReported, transport, atInstrument>>

RejectPending == [j \in Jobs |-> IF outcome[j] = "pending" THEN "failed" ELSE outcome[j]]

\* Mutant of Close: the queue is left behind.
CloseForgetsQueue ==
  /\ ~closed
  /\ closed' = TRUE
  /\ outcome' = IF inFlight = NoJob THEN outcome ELSE [outcome EXCEPT ![inFlight] = "failed"]
  /\ inFlight' = NoJob
  /\ transport' = IF transport = "open" THEN "ended" ELSE transport
  /\ UNCHANGED <<queue, armed, reply, writing, buffer, lossReported, atInstrument, wire>>

\* close(): everything pending is rejected, the transport listeners are
\* removed, the transport is ended.  Armed timers and pending writes stay.
Close ==
  /\ ~closed
  /\ closed' = TRUE
  /\ outcome' = RejectPending
  /\ inFlight' = NoJob
  /\ queue' = <<>>
  /\ transport' = IF transport = "open" THEN "ended" ELSE transport
  /\ UNCHANGED <<armed, reply, writing, buffer, lossReported, atInstrument, wire>>

\* #handleClose: the transport reports that the socket is gone.
TransportLost ==
  /\ ~closed
  /\ transport \in {"open", "failing"}
  /\ transport' = "lost"
  /\ closed' = TRUE
  /\ outcome' = RejectPending
  /\ inFlight' = NoJob
  /\ queue' = <<>>
  /\ armed' = armed \ {inFlight}
  /\ lossReported' = TRUE
  /\ UNCHANGED <<reply, writing, buffer, atInstrument, wire>>

-----------------------------------------------------------------------------
(* The instrument (external) *)

\* It deals with the oldest command it holds: answers, or (an unknown header,
\* a hung front end) stays silent.
Answer ==
  /\ atInstrument # <<>>
  /\ atInstrument' = Tail(atInstrument)
  /\ wire' = wire \o ReplyOf(Head(atInstrument))
  /\ UNCHANGED <<session, buffer, lossReported, transport>>

Ignore ==
  /\ atInstrument # <<>>
  /\ atInstrument' = Tail(atInstrument)
  /\ UNCHANGED <<session, buffer, lossReported, transport, wire>>

-----------------------------------------------------------------------------

Call(j) == Enqueue(j) \/ EnqueueClosed(j)

WriteCallback == WriteDone \/ WriteFailed

Next ==
  \/ \E j \in Jobs : Call(j)
  \/ WriteCallback
  \/ \E j \in Jobs : DeadlineFires(j)
  \/ \E n \in 1..Len(wire) : Data(n)
  \/ Close
  \/ TransportLost
  \/ Answer
  \/ Ignore

Spec == Init /\ [][Next]_vars

\* Node calls every write back, with or without an error, and fires every timer
\* that is due.  Nothing is assumed of the instrument or of the callers.
FairSpec ==
  /\ Spec
  /\ WF_vars(WriteCallback)
  /\ \A j \in Jobs : WF_vars(DeadlineFires(j))

-----------------------------------------------------------------------------
(* Properties *)

\* The variables have their types (the framing fields, the timers, promises).
TypeOK ==
  /\ queue \in Seq(Jobs)
  /\ inFlight \in Jobs \cup {NoJob}
  /\ buffer \in Seq(Tokens)
  /\ closed \in BOOLEAN
  /\ armed \subseteq Timed
  /\ outcome \in [Jobs -> {"none", "pending", "ok", "failed"}]
  /\ reply \in [Jobs -> Seq(Tokens)]
  /\ lossReported \in BOOLEAN
  /\ writing \in Seq(Jobs)
  /\ transport \in {"open", "failing", "lost", "ended"}
  /\ atInstrument \in Seq(Jobs)
  /\ wire \in Seq(Tokens)

\* The line of unsettled jobs: the one in flight, then the queue.
InLine == (IF inFlight = NoJob THEN <<>> ELSE <<inFlight>>) \o queue

\* Every caller still waiting is represented exactly once, in flight or in the
\* queue, and nobody else is: no promise is forgotten by an early return, an
\* error path or a close, and none is settled twice.
NoPromiseForgotten ==
  /\ \A i, k \in DOMAIN InLine : i # k => InLine[i] # InLine[k]
  /\ \A j \in Jobs : outcome[j] = "pending" <=> \E i \in DOMAIN InLine : InLine[i] = j

\* The queue never waits behind an empty slot: each path that ends a job calls
\* #pump, so a request is never parked until somebody makes another one.
NoBacklogWhenIdle == inFlight = NoJob => queue = <<>>

\* A query that resolved carries the reply to its own command.
RepliesMatch == \A j \in LineJobs \cup BinaryJobs : outcome[j] = "ok" => reply[j] = OwnReply(j)

\* As long as no query was given up and no block was read, whatever the chunks
\* and however silent the instrument.
RepliesMatchInSync ==
  (\A j \in Timed : outcome[j] # "failed") /\ (\A j \in BinaryJobs : outcome[j] = "none")
    => RepliesMatch

\* Every accepted command and every query with a deadline is settled, whatever
\* the instrument does, unless a query without one holds the line for good.
EveryRequestSettles ==
  \A j \in WriteJobs \cup Timed :
    outcome[j] = "pending" ~>
      (outcome[j] \in {"ok", "failed"} \/ [](inFlight \in (LineJobs \cup BinaryJobs) \ Timed))

Port == INSTANCE SerialPort WITH waiting <- InLine, open <- ~closed

\* The session implements the serial port.
ImplementsSerialPort == Port!Spec
=============================================================================
