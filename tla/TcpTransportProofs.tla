------------------------- MODULE TcpTransportProofs -------------------------
(***************************************************************************)
(* A lost connection is told once and not mistaken for a live one,         *)
(* whatever writes, closes and events meet.                                *)
(*                                                                         *)
(* Events are queued only when the socket is destroyed, and a socket is    *)
(* destroyed once.  So the invariant follows the socket: before that       *)
(* nothing is queued or told, and from then on what is queued, who listens *)
(* and what has been told go together.                                     *)
(***************************************************************************)
EXTENDS TcpTransport, SequenceTheorems, TLAPS

Kinds == {"error", "close"}

Shape ==
  /\ connected \in BOOLEAN /\ closed \in BOOLEAN /\ held \in BOOLEAN
  /\ connecting \in {"none", "pending", "resolved", "rejected"}
  /\ closing \in {"none", "pending", "resolved"}
  /\ listeners \in {"none", "connect", "steady"}
  /\ told \in {0, 1}
  /\ socket \in {"none", "connecting", "open", "destroyed"}
  /\ events \in Seq(Kinds)
  /\ write \in [Writes -> {"none", "pending", "ok", "failed"}]
  /\ crashed \in BOOLEAN

\* What Node queues for a socket that fails, and for one that ends.
Loss(queue) == Len(queue) = 2 /\ queue[1] = "error" /\ queue[2] = "close"
End(queue) == Len(queue) = 1 /\ queue[1] = "close"

\* The close listeners have heard of the loss, or have not and only close() can
\* have closed the transport.
Heard == told = 1 /\ closed /\ ~connected
Unheard == told = 0 /\ (closed => closing # "none")

\* Until it is destroyed the socket has the listeners of its phase and no events.
AliveOK ==
  socket # "destroyed" =>
    /\ events = <<>> /\ Unheard
    /\ socket = "none" => listeners = "none"
    /\ socket = "connecting" => listeners = "connect"
    /\ socket = "open" => listeners = "steady"
    /\ connected => socket = "open"

\* After a loss the listeners hear of the 'error', or heard of the timeout that
\* caused it; after an end they hear of the 'close'.
DestroyedOK ==
  socket = "destroyed" =>
    \/ Loss(events) /\ listeners = "steady" /\ Unheard
    \/ Loss(events) /\ listeners = "connect" /\ Unheard /\ ~connected
    \/ Loss(events) /\ listeners = "none" /\ Heard
    \/ End(events) /\ listeners = "steady" /\ Unheard
    \/ End(events) /\ Heard
    \/ events = <<>> /\ closed /\ ~connected /\ (told = 1 \/ closing # "none")

\* Before connect() there is no socket.
Begun == connecting = "none" => socket = "none"

IInv == Shape /\ Begun /\ AliveOK /\ DestroyedOK
-----------------------------------------------------------------------------

LEMMA Appended ==
  ASSUME NEW queue \in Seq(Kinds), NEW kind \in Kinds
  PROVE  /\ Append(queue, kind) \in Seq(Kinds)
         /\ Len(Append(queue, kind)) = Len(queue) + 1
         /\ \A i \in 1..Len(queue) : Append(queue, kind)[i] = queue[i]
         /\ Append(queue, kind)[Len(queue) + 1] = kind
BY AppendProperties

\* What is queued for a loss and for an end, and what is left as it is raised.
LEMMA Queued ==
  ASSUME NEW queue \in Seq(Kinds)
  PROVE  /\ queue = <<>> => /\ ~Loss(queue) /\ ~End(queue)
                            /\ Append(queue, "close") \in Seq(Kinds)
                            /\ End(Append(queue, "close"))
                            /\ Append(Append(queue, "error"), "close") \in Seq(Kinds)
                            /\ Loss(Append(Append(queue, "error"), "close"))
         /\ Loss(queue) => /\ queue # <<>> /\ Head(queue) = "error" /\ ~End(queue)
                          /\ Tail(queue) \in Seq(Kinds) /\ End(Tail(queue))
         /\ End(queue) => queue # <<>> /\ Head(queue) = "close" /\ Tail(queue) = <<>>
<1>1. "error" \in Kinds /\ "close" \in Kinds
  BY DEF Kinds
<1>2. Len(<<>>) = 0
  OBVIOUS
<1>3. ASSUME queue = <<>>
      PROVE  /\ ~Loss(queue) /\ ~End(queue)
             /\ Append(queue, "close") \in Seq(Kinds)
             /\ End(Append(queue, "close"))
             /\ Append(Append(queue, "error"), "close") \in Seq(Kinds)
             /\ Loss(Append(Append(queue, "error"), "close"))
  <2> DEFINE failed == Append(queue, "error")
  <2>1. failed \in Seq(Kinds) /\ Len(failed) = 1 /\ failed[1] = "error"
    BY <1>1, <1>2, <1>3, Appended
  <2>2. /\ Append(queue, "close") \in Seq(Kinds) /\ Len(Append(queue, "close")) = 1
        /\ Append(queue, "close")[1] = "close"
    BY <1>1, <1>2, <1>3, Appended
  <2> HIDE DEF failed
  <2>3. /\ Append(failed, "close") \in Seq(Kinds) /\ Len(Append(failed, "close")) = 2
        /\ Append(failed, "close")[1] = "error" /\ Append(failed, "close")[2] = "close"
    <3>1. /\ Append(failed, "close") \in Seq(Kinds) /\ Len(Append(failed, "close")) = Len(failed) + 1
          /\ \A i \in 1..Len(failed) : Append(failed, "close")[i] = failed[i]
          /\ Append(failed, "close")[Len(failed) + 1] = "close"
      BY <1>1, <2>1, Appended
    <3> QED
      BY <2>1, <3>1
  <2> QED
    BY <1>2, <1>3, <2>2, <2>3 DEF failed, Loss, End
<1>4. ASSUME queue # <<>>
      PROVE  /\ Head(queue) = queue[1] /\ Tail(queue) \in Seq(Kinds)
             /\ Len(Tail(queue)) = Len(queue) - 1
             /\ \A i \in 1..Len(Tail(queue)) : Tail(queue)[i] = queue[i + 1]
  BY <1>4, HeadTailProperties
<1>5. Loss(queue) \/ End(queue) => queue # <<>>
  BY <1>2 DEF Loss, End
<1>6. Loss(queue) => Len(Tail(queue)) = 1 /\ Tail(queue)[1] = "close"
  BY <1>4, <1>5 DEF Loss
<1>7. End(queue) => Tail(queue) = <<>>
  <2> SUFFICES ASSUME End(queue) PROVE Tail(queue) = <<>>
    OBVIOUS
  <2>1. Tail(queue) \in Seq(Kinds) /\ Len(Tail(queue)) = 0
    BY <1>4, <1>5 DEF End
  <2> QED
    BY <2>1, EmptySeq
<1> QED
  BY <1>3, <1>4, <1>5, <1>6, <1>7 DEF Loss, End

LEMMA InitiallyIInv == Init => IInv
BY EmptySeq DEF Init, IInv, Begun, Shape, AliveOK, DestroyedOK, Unheard

\* connect() and what becomes of it.
LEMMA ConnectingKeeps ==
  ASSUME IInv, Connect \/ OnConnect \/ OnTimeout
  PROVE  IInv'
<1>1. events \in Seq(Kinds)
  BY DEF IInv, Shape
<1>2. CASE Connect
  BY <1>2 DEF Connect, IInv, Begun, Shape, AliveOK, DestroyedOK, Heard, Unheard
<1>3. CASE OnConnect
  <2>1. Shape'
    BY <1>3 DEF OnConnect, IInv, Shape
  <2>2. socket' = "open" /\ listeners' = "steady" /\ events' = <<>> /\ Unheard'
    BY <1>3 DEF OnConnect, IInv, AliveOK, Unheard
  <2>3. AliveOK' /\ DestroyedOK' /\ Begun'
    BY <1>3, <2>2 DEF OnConnect, AliveOK, DestroyedOK, Begun
  <2> QED
    BY <2>1, <2>3 DEF IInv, Begun
<1>4. CASE OnTimeout
  <2>1. events' \in Seq(Kinds) /\ Loss(events')
    BY <1>1, <1>4, Queued DEF OnTimeout, IInv, AliveOK
  <2>2. told' = 1 /\ closed' /\ ~connected' /\ listeners' = "none" /\ socket' = "destroyed"
    BY <1>4 DEF OnTimeout, Failure, IInv, AliveOK, Unheard
  <2>3. Shape'
    BY <1>4, <2>1, <2>2 DEF OnTimeout, Failure, IInv, Shape
  <2>4. Begun'
    BY <1>4 DEF OnTimeout, IInv, Begun
  <2> QED
    BY <2>1, <2>2, <2>3, <2>4 DEF IInv, Begun, AliveOK, DestroyedOK, Heard
<1> QED
  BY <1>2, <1>3, <1>4

\* The socket is destroyed under the transport.
LEMMA LosingKeeps ==
  ASSUME IInv, SocketFails \/ PeerEnds
  PROVE  IInv'
<1>1. FailWrites \in [Writes -> {"none", "pending", "ok", "failed"}]
  BY DEF FailWrites, IInv, Shape
<1>2. events \in Seq(Kinds) /\ events = <<>> /\ Unheard
  BY DEF SocketFails, PeerEnds, IInv, Shape, AliveOK
<1>3. CASE SocketFails
  <2>1. events' \in Seq(Kinds) /\ Loss(events')
    BY <1>2, <1>3, Queued DEF SocketFails
  <2>2. Shape'
    BY <1>1, <1>3, <2>1 DEF SocketFails, flags, IInv, Shape
  <2>3. listeners' = "steady" \/ (listeners' = "connect" /\ ~connected')
    BY <1>3 DEF SocketFails, flags, IInv, AliveOK
  <2> QED
    BY <1>2, <1>3, <2>1, <2>2, <2>3 DEF SocketFails, flags, IInv, Begun, AliveOK, DestroyedOK, Unheard
<1>4. CASE PeerEnds
  <2>1. events' \in Seq(Kinds) /\ End(events')
    BY <1>2, <1>4, Queued DEF PeerEnds
  <2>2. Shape'
    BY <1>1, <1>4, <2>1 DEF PeerEnds, flags, IInv, Shape
  <2> QED
    BY <1>2, <1>4, <2>1, <2>2 DEF PeerEnds, flags, IInv, Begun, AliveOK, DestroyedOK, Unheard
<1> QED
  BY <1>3, <1>4

\* Only a destroyed socket has events; each is raised to whoever listens by then.
LEMMA RaisingKeeps ==
  ASSUME IInv, Raise
  PROVE  IInv'
<1>1. socket = "destroyed" /\ events \in Seq(Kinds)
  BY DEF Raise, RaiseError, RaiseClose, IInv, Shape, AliveOK
<1>2. CASE RaiseError
  <2>1. Loss(events) /\ events' \in Seq(Kinds) /\ End(events')
    BY <1>1, <1>2, Queued DEF RaiseError, IInv, DestroyedOK
  <2>2. \/ listeners \in {"steady", "connect"} /\ Unheard
        \/ listeners = "none" /\ Heard
    BY <1>1, <2>1, Queued DEF IInv, DestroyedOK
  <2>3. Heard'
    BY <1>2, <2>2 DEF RaiseError, Failure, Heard, Unheard
  <2>4. socket' = "destroyed" /\ connected' \in BOOLEAN /\ closed' \in BOOLEAN
    BY <1>1, <1>2 DEF RaiseError, Failure, IInv, Shape
  <2>5. Shape'
    BY <1>2, <2>1, <2>3, <2>4 DEF RaiseError, IInv, Shape, Heard
  <2>6. Begun'
    BY <1>2 DEF RaiseError, IInv, Begun
  <2> QED
    BY <2>1, <2>3, <2>4, <2>5, <2>6 DEF IInv, Begun, AliveOK, DestroyedOK
<1>3. CASE RaiseClose
  <2>1. End(events) /\ events' = <<>> /\ events' \in Seq(Kinds)
    BY <1>1, <1>3, Queued, EmptySeq DEF RaiseClose, IInv, DestroyedOK
  <2>2. (listeners = "steady" /\ Unheard) \/ Heard
    BY <1>1, <2>1, Queued DEF IInv, DestroyedOK
  <2>3. closed' /\ ~connected' /\ (told' = 1 \/ closing' # "none") /\ told' \in {0, 1}
    BY <1>3, <2>2 DEF RaiseClose, Failure, Heard, Unheard
  <2>4. socket' = "destroyed" /\ connected' \in BOOLEAN /\ closed' \in BOOLEAN
    BY <1>1, <1>3 DEF RaiseClose, Failure, IInv, Shape
  <2>5. Shape'
    BY <1>3, <2>1, <2>3, <2>4 DEF RaiseClose, IInv, Shape
  <2>6. Begun'
    BY <1>3 DEF RaiseClose, IInv, Begun
  <2> QED
    BY <2>1, <2>3, <2>4, <2>5, <2>6 DEF IInv, Begun, AliveOK, DestroyedOK
<1> QED
  BY <1>2, <1>3 DEF Raise

LEMMA ClosingKeeps ==
  ASSUME IInv, Close \/ Ended
  PROVE  IInv'
<1>1. CASE Close
  BY <1>1 DEF Close, IInv, Begun, Shape, AliveOK, DestroyedOK, Heard, Unheard
<1>2. CASE Ended
  <2>1. CASE socket = "open"
    <3>1. events' \in Seq(Kinds) /\ End(events')
      BY <1>2, <2>1, Queued DEF Ended, IInv, Shape, AliveOK
    <3>2. Shape' /\ socket' = "destroyed" /\ listeners' = "steady" /\ told' = 0 /\ closing' = "resolved"
      BY <1>2, <2>1, <3>1 DEF Ended, flags, IInv, Shape, AliveOK, Unheard
    <3>3. Begun'
      BY <1>2 DEF Ended, flags, IInv, Begun
    <3> QED
      BY <3>1, <3>2, <3>3 DEF IInv, Begun, AliveOK, DestroyedOK, Unheard
  <2>2. CASE socket = "destroyed"
    BY <1>2, <2>2 DEF Ended, flags, IInv, Begun, Shape, AliveOK, DestroyedOK, Heard, Unheard
  <2> QED
    BY <1>2, <2>1, <2>2 DEF Ended
<1> QED
  BY <1>1, <1>2

LEMMA WritingKeeps ==
  ASSUME IInv, NEW w \in Writes, Write(w) \/ WriteFlushed(w)
  PROVE  IInv'
<1>1. write' \in [Writes -> {"none", "pending", "ok", "failed"}]
  BY DEF Write, WriteFlushed, IInv, Shape
<1>2. UNCHANGED <<flags, connecting, closing, listeners, told, socket, events, crashed>>
  BY DEF Write, WriteFlushed
<1> QED
  BY <1>1, <1>2 DEF flags, IInv, Begun, Shape, AliveOK, DestroyedOK, Heard, Unheard
-----------------------------------------------------------------------------
(* Theorems *)

\* Through every order of connect, timeout, failure, close and the events Node raises
\* afterwards, tcp-transport.ts knows as much as has been told.
THEOREM IInvHolds == Spec => []IInv
<1>1. Init => IInv
  BY InitiallyIInv
<1>2. IInv /\ [Next]_vars => IInv'
  <2> SUFFICES ASSUME IInv, [Next]_vars PROVE IInv'
    OBVIOUS
  <2>1. CASE Connect \/ OnConnect \/ OnTimeout
    BY <2>1, ConnectingKeeps
  <2>2. CASE SocketFails \/ PeerEnds
    BY <2>2, LosingKeeps
  <2>3. CASE Raise
    BY <2>3, RaisingKeeps
  <2>4. CASE Close \/ Ended
    BY <2>4, ClosingKeeps
  <2>5. CASE \E w \in Writes : Write(w) \/ WriteFlushed(w)
    BY <2>5, WritingKeeps
  <2>6. CASE UNCHANGED vars
    BY <2>6 DEF vars, flags, IInv, Begun, Shape, AliveOK, DestroyedOK, Heard, Unheard
  <2> QED
    BY <2>1, <2>2, <2>3, <2>4, <2>5, <2>6 DEF Next
<1> QED
  BY <1>1, <1>2, PTL DEF Spec

\* #handleFailure is called from the timeout, from 'error' and from 'close', and a
\* loss raises more than one of them: still the close listeners hear of it once,
\* and a destroyed socket leaves a closed transport.
THEOREM ALossIsToldOnce == Spec => []LossToldOnce
<1>1. IInv => LossToldOnce
  <2> SUFFICES ASSUME IInv PROVE LossToldOnce
    OBVIOUS
  <2>1. told <= 1
    BY DEF IInv, Shape
  <2>2. ASSUME socket = "destroyed", events = <<>>
        PROVE  closed /\ ~connected /\ (told > 0 \/ closing # "none")
    <3>1. ~Loss(events) /\ ~End(events)
      BY <2>2, Queued DEF IInv, Shape
    <3> QED
      BY <2>2, <3>1 DEF IInv, Begun, DestroyedOK
  <2> QED
    BY <2>1, <2>2 DEF LossToldOnce
<1> QED
  BY <1>1, IInvHolds, PTL
=============================================================================
