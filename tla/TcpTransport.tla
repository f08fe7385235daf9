---------------------------- MODULE TcpTransport ----------------------------
(***************************************************************************)
(* packages/core/src/scpi/tcp-transport.ts: one TCP connection behind the  *)
(* Transport interface, with the events Node's net.Socket raises.          *)
(*                                                                         *)
(* The socket is external: its state and the events it has queued are      *)
(* modelled from the calls and listeners in the file.  An 'error' event    *)
(* for which no listener is registered is thrown by Node and, since        *)
(* nothing in the repository handles uncaught exceptions, ends the process.*)
(***************************************************************************)
EXTENDS Naturals, Sequences

CONSTANT Writes   \* the write() calls a caller may make

VARIABLES
  connected, closed,   \* #connected, #closed
  held,                \* #socket is not null
  connecting,          \* connect()'s promise: "none", "pending", "resolved", "rejected"
  closing,             \* close()'s promise: "none", "pending", "resolved"
  listeners,           \* listeners on the socket: "none", "connect" or "steady"
  told,                \* how often the close listeners were called with an error
  socket,              \* "none", "connecting", "open" or "destroyed"
  events,              \* 'error' and 'close' events Node will raise, in order
  write,               \* each write(): "none", "pending", "ok", "failed"
  crashed              \* an 'error' event found no listener

flags == <<connected, closed, held>>
vars == <<flags, connecting, closing, listeners, told, socket, events, write, crashed>>

Init ==
  /\ connected = FALSE /\ closed = FALSE /\ held = FALSE
  /\ connecting = "none" /\ closing = "none"
  /\ listeners = "none"
  /\ told = 0
  /\ socket = "none"
  /\ events = <<>>
  /\ write = [w \in Writes |-> "none"]
  /\ crashed = FALSE

\* #handleFailure: the close listeners hear of it every time it is called.
Failure ==
  /\ closed' = TRUE
  /\ connected' = FALSE
  /\ told' = told + 1

\* Destroying a socket fails the writes it still holds.
FailWrites == [w \in Writes |-> IF write[w] = "pending" THEN "failed" ELSE write[w]]

\* connect(): called once, by the factory that creates the transport.
Connect ==
  /\ connecting = "none"
  /\ IF closed
     THEN connecting' = "rejected" /\ UNCHANGED <<held, listeners, socket>>
     ELSE /\ connecting' = "pending"
          /\ held' = TRUE
          /\ listeners' = "connect"
          /\ socket' = "connecting"
  /\ UNCHANGED <<connected, closed, closing, told, events, write, crashed>>

\* onConnect.
OnConnect ==
  /\ socket = "connecting"
  /\ socket' = "open"
  /\ listeners' = "steady"
  /\ connected' = TRUE
  /\ connecting' = "resolved"
  /\ UNCHANGED <<closed, held, closing, told, events, write, crashed>>

\* onTimeout: the listeners are removed, then the socket is destroyed with the
\* error, which Node raises as an 'error' event a tick later.
OnTimeout ==
  /\ socket = "connecting"
  /\ listeners' = "none"
  /\ socket' = "destroyed"
  /\ events' = Append(Append(events, "error"), "close")
  /\ connecting' = "rejected"
  /\ Failure
  /\ UNCHANGED <<held, closing, write, crashed>>

\* Node gives up on the socket: the connection is refused or reset.
SocketFails ==
  /\ socket \in {"connecting", "open"}
  /\ socket' = "destroyed"
  /\ events' = Append(Append(events, "error"), "close")
  /\ write' = FailWrites
  /\ UNCHANGED <<flags, connecting, closing, listeners, told, crashed>>

\* The peer ends the stream: Node closes the socket without an error.
PeerEnds ==
  /\ socket = "open"
  /\ socket' = "destroyed"
  /\ events' = Append(events, "close")
  /\ write' = FailWrites
  /\ UNCHANGED <<flags, connecting, closing, listeners, told, crashed>>

\* Mutant of RaiseError: onError does not pass reject on.
RaiseErrorForgetsReject ==
  /\ events # <<>> /\ Head(events) = "error"
  /\ events' = Tail(events)
  /\ IF listeners = "none"
     THEN crashed' = TRUE /\ UNCHANGED <<connected, closed, told, listeners>>
     ELSE /\ listeners' = IF listeners = "connect" THEN "none" ELSE listeners
          /\ Failure
          /\ UNCHANGED crashed
  /\ UNCHANGED <<held, connecting, closing, socket, write>>

\* Node raises 'error'.
RaiseError ==
  /\ events # <<>> /\ Head(events) = "error"
  /\ events' = Tail(events)
  /\ \/ /\ listeners = "connect"     \* onError
        /\ listeners' = "none"
        /\ connecting' = "rejected"
        /\ Failure
        /\ UNCHANGED crashed
     \/ /\ listeners = "steady"
        /\ Failure
        /\ UNCHANGED <<listeners, connecting, crashed>>
     \/ /\ listeners = "none"
        /\ crashed' = TRUE
        /\ UNCHANGED <<connected, closed, told, listeners, connecting>>
  /\ UNCHANGED <<held, closing, socket, write>>

\* Mutant of RaiseClose: 'close' does not check #closed.
RaiseCloseAlways ==
  /\ events # <<>> /\ Head(events) = "close"
  /\ events' = Tail(events)
  /\ IF listeners = "steady" THEN Failure ELSE UNCHANGED <<connected, closed, told>>
  /\ UNCHANGED <<held, connecting, closing, listeners, socket, write, crashed>>

\* Node raises 'close'.
RaiseClose ==
  /\ events # <<>> /\ Head(events) = "close"
  /\ events' = Tail(events)
  /\ IF listeners = "steady"
     THEN IF closed THEN connected' = FALSE /\ UNCHANGED <<closed, told>>
                    ELSE Failure
     ELSE UNCHANGED <<connected, closed, told>>
  /\ UNCHANGED <<held, connecting, closing, listeners, socket, write, crashed>>

\* Mutant of Close: a connecting socket is forgotten instead of ended.
CloseForgetsSocket ==
  /\ ~closed
  /\ closed' = TRUE
  /\ connected' = FALSE
  /\ held' = FALSE
  /\ closing' = "resolved"
  /\ UNCHANGED <<connecting, listeners, told, socket, events, write, crashed>>

\* close(): a second call, or one after a failure, returns at once.  Otherwise
\* the socket is ended, which waits for a connect that is under way and for the
\* writes it holds.
Close ==
  /\ ~closed
  /\ closed' = TRUE
  /\ connected' = FALSE
  /\ held' = FALSE
  /\ closing' = IF socket \in {"none", "destroyed"} THEN "resolved" ELSE "pending"
  /\ UNCHANGED <<connecting, listeners, told, socket, events, write, crashed>>

\* The callback of socket.end(): the stream is flushed, or was destroyed.
Ended ==
  /\ closing = "pending"
  /\ \/ socket = "open" /\ \A w \in Writes : write[w] # "pending"
     \/ socket = "destroyed"
  /\ closing' = "resolved"
  /\ socket' = "destroyed"
  /\ events' = IF socket = "open" THEN Append(events, "close") ELSE events
  /\ UNCHANGED <<flags, connecting, listeners, told, write, crashed>>

\* write(): rejected unless the transport is connected and holds its socket.
Write(w) ==
  /\ write[w] = "none"
  /\ connecting = "resolved"
  /\ write' = [write EXCEPT ![w] =
                 IF connected /\ held /\ socket # "destroyed" THEN "pending" ELSE "failed"]
  /\ UNCHANGED <<flags, connecting, closing, listeners, told, socket, events, crashed>>

WriteFlushed(w) ==
  /\ write[w] = "pending"
  /\ socket = "open"
  /\ write' = [write EXCEPT ![w] = "ok"]
  /\ UNCHANGED <<flags, connecting, closing, listeners, told, socket, events, crashed>>

Raise == RaiseError \/ RaiseClose

\* Nothing runs after an uncaught exception.
Next ==
  /\ ~crashed
  /\ \/ Connect \/ OnConnect \/ OnTimeout
     \/ SocketFails \/ PeerEnds \/ Raise
     \/ Close \/ Ended
     \/ \E w \in Writes : Write(w) \/ WriteFlushed(w)

Spec == Init /\ [][Next]_vars

\* The connect timer fires if nothing else happens; queued events are raised;
\* the kernel flushes or fails what it was given.
FairSpec ==
  /\ Spec
  /\ WF_vars(~crashed /\ (OnConnect \/ OnTimeout))
  /\ WF_vars(~crashed /\ Raise)
  /\ WF_vars(~crashed /\ Ended)
  /\ \A w \in Writes : WF_vars(~crashed /\ WriteFlushed(w))

-----------------------------------------------------------------------------
(* Properties *)

\* A loss raises 'error' and 'close'; the close listeners hear of it at most once,
\* and unless close() was called they do.  Once the socket is gone and its events are
\* raised the transport is not mistaken for a live one.
LossToldOnce ==
  /\ told <= 1
  /\ socket = "destroyed" /\ events = <<>> => closed /\ ~connected /\ (told > 0 \/ closing # "none")

\* connect() settles.
ConnectSettles == connecting = "pending" ~> connecting \in {"resolved", "rejected"} \/ crashed

\* Disposal closes the socket (docs/steps/1-1-transport-and-scpi-core.md:17).
CloseReleasesSocket == closed ~> (socket \in {"none", "destroyed"} \/ crashed)
=============================================================================
