---------------------------- MODULE SessionStore ----------------------------
(***************************************************************************)
(* packages/web/src/stores/sessions.ts in one browser: the copy it keeps   *)
(* of the server's table of sessions, fed by WebSocket frames and by the   *)
(* answers to HTTP requests, which overtake each other; and the topics its *)
(* panels listen to, which it asks the server for once each, on whatever   *)
(* socket there is.  Of the server there are the table as other browsers   *)
(* and the instruments change it, the frames it broadcasts, and the set of *)
(* subscriptions its route keeps for the socket.                           *)
(*                                                                         *)
(* One topic stands for all: a key of the store is the id of its session.  *)
(* A summary is its status, with a version that tells newer from older.    *)
(***************************************************************************)
EXTENDS Naturals, Sequences, FiniteSets

CONSTANTS
  Ids,          \* session ids, used once each
  Panels,       \* mounted components that listen
  Nowhere,      \* not an id: what an unmounted panel listens to
  MaxVersion,   \* bound: changes of a session, its end and a restart apart
  MaxDrops,     \* bound: lost sockets and server restarts
  MaxAnswers,   \* bound: HTTP answers under way at a time
  MaxUp         \* bound: subscription frames under way when a panel comes or goes

ASSUME IdsAreFinite == IsFiniteSet(Ids)
ASSUME NowhereIsNoId == Nowhere \notin Ids

VARIABLES
  table,        \* the server: per id its status and version; "none" is not in the table
  closing,      \* the server: whose close() of the id awaits the end of its connection
  abandoned,    \* the server: ids deleted while their #establish ran
  wanted,       \* the server: the `subscriptions' its handler keeps for the socket
  accepted,     \* the server: that handler runs
  socket,       \* the browser's WebSocket: none, connecting, open, or no longer but not told
  up, down,     \* frames on the socket, either way
  drops,
  timer,        \* reconnectTimer is set
  answers,      \* HTTP answers under way: the summaries they carry, by id
  shown,        \* byId
  listeners,    \* listeners: the panels per key
  subscribed,   \* subscribedOnServer
  at,           \* the key each mounted panel holds an unsubscribe function for
  served,       \* history: panels that have had a frame by their present subscription
  misled        \* history: ids whose last word came out of order

server == <<table, closing, abandoned>>
wire == <<wanted, accepted, socket, up, down, drops, timer>>
topics == <<listeners, subscribed, at, served>>
store == <<shown, misled>>
vars == <<server, wire, answers, store, topics>>

None == [status |-> "none", version |-> 0]

\* DashboardView has been mounted and has called connect(); its refresh() is a List.
Init ==
  /\ table = [id \in Ids |-> None]
  /\ closing = [id \in Ids |-> "no"]
  /\ abandoned = {}
  /\ wanted = {} /\ accepted = FALSE
  /\ socket = "connecting" /\ up = <<>> /\ down = <<>>
  /\ drops = 0 /\ timer = FALSE
  /\ answers = {}
  /\ shown = [id \in Ids |-> None] /\ misled = {}
  /\ listeners = [id \in Ids |-> {}] /\ subscribed = {}
  /\ at = [p \in Panels |-> Nowhere] /\ served = {}

-----------------------------------------------------------------------------
(* The server *)

\* The news about one session.
Only(id, summary) == [i \in {id} |-> summary]

Frame(type, news) == [type |-> type, news |-> news]

Broadcast(type, news) == down' = IF accepted THEN Append(down, Frame(type, news)) ELSE down

\* The answer to a request of this browser; other browsers' are of no concern.
Reply(mine, news) ==
  IF mine
  THEN Cardinality(answers) < MaxAnswers /\ answers' = answers \union {news}
  ELSE UNCHANGED answers

\* The session takes a new status, and whoever is connected is sent it.
Becomes(id, status) ==
  LET summary == [status |-> status, version |-> table[id].version + 1]
  IN  /\ table[id].version < MaxVersion
      /\ table' = [table EXCEPT ![id] = summary]
      /\ Broadcast("update", Only(id, summary))

\* POST /api/sessions: the answer is the summary of the moment.
Open(id, mine) ==
  /\ table[id] = None
  /\ Becomes(id, "connecting")
  /\ Reply(mine, Only(id, table'[id]))
  /\ UNCHANGED <<closing, abandoned, wanted, accepted, socket, up, drops, timer, store, topics>>

\* POST .../reconnect: without effect unless the session is in error.
Reconnect(id, mine) ==
  /\ table[id].status # "none"
  /\ \/ table[id].status = "error" /\ Becomes(id, "connecting")
     \/ table[id].status # "error" /\ mine /\ UNCHANGED <<table, down>>
  /\ Reply(mine, Only(id, table'[id]))
  /\ UNCHANGED <<closing, abandoned, wanted, accepted, socket, up, drops, timer, store, topics>>

\* #establish ends, or an established connection is lost.
Moves(id) ==
  /\ \/ table[id].status = "connecting" /\ \E s \in {"connected", "error"} : Becomes(id, s)
     \/ table[id].status = "connected" /\ Becomes(id, "error")
  /\ UNCHANGED <<closing, abandoned, wanted, accepted, socket, up, drops, timer, answers, store, topics>>

\* DELETE: close() takes the session out of the table at once, ...
Close(id, mine) ==
  /\ table[id].status # "none"
  /\ table' = [table EXCEPT ![id] = [status |-> "none", version |-> @.version + 1]]
  /\ closing' = [closing EXCEPT ![id] = IF mine THEN "mine" ELSE "other"]
  /\ abandoned' = IF table[id].status = "connecting" THEN abandoned \union {id} ELSE abandoned
  /\ UNCHANGED <<wire, answers, store, topics>>

\* ... and announces and answers it when the connection has ended.
CloseEnds(id) ==
  /\ closing[id] # "no"
  /\ closing' = [closing EXCEPT ![id] = "no"]
  /\ Broadcast("removed", Only(id, table[id]))
  /\ Reply(closing[id] = "mine", Only(id, table[id]))
  /\ UNCHANGED <<table, abandoned, wanted, accepted, socket, up, drops, timer, store, topics>>

\* The catch block of #establish does not ask whether the session is still there.
LateUpdate(id) ==
  /\ id \in abandoned
  /\ abandoned' = abandoned \ {id}
  /\ Broadcast("update", Only(id, [status |-> "error", version |-> 0]))
  /\ UNCHANGED <<table, closing, wanted, accepted, socket, up, drops, timer, answers, store, topics>>

\* GET /api/sessions.
List ==
  /\ Reply(TRUE, table)
  /\ UNCHANGED <<server, wire, store, topics>>

\* A frame of a key that is wanted, be it a reading or an error.
Read(id) ==
  /\ id \in wanted
  /\ table[id].status # "none"
  /\ \A i \in DOMAIN down : down[i].type # "reading" \/ id \notin DOMAIN down[i].news
  /\ Broadcast("reading", Only(id, table[id]))
  /\ UNCHANGED <<server, wanted, accepted, socket, up, drops, timer, answers, store, topics>>

-----------------------------------------------------------------------------
(* The socket *)

\* The route takes the connection: sessions:init.
Accept ==
  /\ socket = "connecting" /\ ~accepted
  /\ accepted' = TRUE
  /\ down' = <<Frame("init", table)>>
  /\ UNCHANGED <<server, wanted, socket, up, drops, timer, answers, store, topics>>

\* A "subscribe" the route has already is ignored; "unsubscribe" takes it back.
Receive ==
  /\ up # <<>>
  /\ up' = Tail(up)
  /\ wanted' = IF Head(up).type = "subscribe" THEN wanted \union {Head(up).id} ELSE wanted \ {Head(up).id}
  /\ UNCHANGED <<server, accepted, socket, down, drops, timer, answers, store, topics>>

Cut ==
  /\ drops < MaxDrops
  /\ drops' = drops + 1
  /\ socket' = IF socket = "none" THEN "none" ELSE "closed"
  /\ accepted' = FALSE
  /\ wanted' = {}
  /\ up' = <<>> /\ down' = <<>>

\* The socket, or the attempt to open one, fails; frames on their way are lost.
Drop ==
  /\ socket \in {"connecting", "open"}
  /\ Cut
  /\ UNCHANGED <<server, timer, answers, store, topics>>

\* The server starts again, with an empty table; what it has not answered it never will.
Restart ==
  /\ Cut
  /\ table' = [id \in Ids |-> IF table[id].status = "none" THEN table[id]
                              ELSE [status |-> "none", version |-> table[id].version + 1]]
  /\ closing' = [id \in Ids |-> "no"]
  /\ abandoned' = {}
  /\ answers' = {}
  /\ UNCHANGED <<timer, store, topics>>

-----------------------------------------------------------------------------
(* The store *)

Send(type, ids) ==
  up' = IF socket = "open" /\ ids # {}
        THEN Append(up, [type |-> type, id |-> CHOOSE id \in ids : TRUE]) ELSE up

\* connect(): only when there is no socket.
Connect ==
  /\ socket = "none"
  /\ socket' = "connecting"
  /\ UNCHANGED <<server, wanted, accepted, up, down, drops, timer, answers, store, topics>>

\* The timer of scheduleReconnect; connect() may have been called meanwhile.
TimerFires ==
  /\ timer
  /\ timer' = FALSE
  /\ socket' = IF socket = "none" THEN "connecting" ELSE socket
  /\ UNCHANGED <<server, wanted, accepted, up, down, drops, answers, store, topics>>

Listened == {id \in Ids : listeners[id] # {}}

\* Mutant of Opened: what was subscribed before is not asked for again.
OpenedSilently ==
  /\ socket = "connecting" /\ accepted
  /\ socket' = "open"
  /\ UNCHANGED <<server, wanted, accepted, up, down, drops, timer, answers, store, topics>>

\* The open handler: every key that is listened to is subscribed.
Opened ==
  /\ socket = "connecting" /\ accepted
  /\ socket' = "open"
  /\ \E order \in [1..Cardinality(Listened) -> Listened] :
       /\ \A id \in Listened : \E i \in DOMAIN order : order[i] = id
       /\ up' = [i \in DOMAIN order |-> [type |-> "subscribe", id |-> order[i]]]
  /\ subscribed' = subscribed \union Listened
  /\ UNCHANGED <<server, wanted, accepted, down, drops, timer, answers, store, listeners, at, served>>

\* The close handler.
Closed ==
  /\ socket = "closed"
  /\ socket' = "none"
  /\ subscribed' = {}
  /\ timer' = TRUE
  /\ served' = {}
  /\ UNCHANGED <<server, wanted, accepted, up, down, drops, answers, store, listeners, at>>

\* byId with what is news in it.
Taking(news) == [id \in Ids |-> IF id \in DOMAIN news THEN news[id] ELSE shown[id]]

\* Mutant of Apply: sessions:init adds to the map.
ApplyMerging(f) ==
  shown' = [id \in Ids |-> IF id \in DOMAIN f.news /\ ~(f.type = "init" /\ f.news[id].status = "none")
                           THEN f.news[id] ELSE shown[id]]

\* apply(), as far as the map goes: what a frame says of a session is taken over, and
\* sessions:init says of those it does not list that they are not there.
Apply(f) ==
  shown' = IF f.type = "reading" THEN shown ELSE Taking(f.news)

\* The listeners of a removed session are told once more and dropped, without a word
\* to the server.
Deliver ==
  LET f == Head(down)
      ids == DOMAIN f.news
      gone == IF f.type = "removed" THEN ids ELSE {}
  IN  /\ socket = "open" /\ down # <<>>
      /\ down' = Tail(down)
      /\ Apply(f)
      /\ misled' = IF f.type = "reading" THEN misled
                   ELSE (misled \ ids) \union {id \in ids : f.news[id] # None /\ f.news[id].version = 0}
      /\ listeners' = [id \in Ids |-> IF id \in gone THEN {} ELSE listeners[id]]
      /\ subscribed' = subscribed \ gone
      /\ served' = IF f.type = "reading" THEN served \union UNION {listeners[id] : id \in ids} ELSE served
      /\ UNCHANGED <<server, wanted, accepted, socket, up, drops, timer, answers, at>>

\* The end of open(), reconnect(), remove() or refresh(): the answer is taken over,
\* however old it is.
Answered(a) ==
  /\ a \in answers
  /\ answers' = answers \ {a}
  /\ shown' = Taking(a)
  /\ misled' = misled \union {id \in DOMAIN a : a[id].version < shown[id].version}
  /\ UNCHANGED <<server, wire, topics>>

\* subscribeTopic(), when a panel of a session that the store has is mounted or enabled:
\* the first listener of a key subscribes.
Attach(p, id) ==
  /\ at[p] = Nowhere
  /\ Len(up) < MaxUp
  /\ shown[id].status # "none"
  /\ at' = [at EXCEPT ![p] = id]
  /\ listeners' = [listeners EXCEPT ![id] = @ \union {p}]
  /\ Send("subscribe", {id} \ subscribed)
  /\ subscribed' = IF socket = "open" THEN subscribed \union {id} ELSE subscribed
  /\ UNCHANGED <<server, wanted, accepted, socket, down, drops, timer, answers, store, served>>

\* Mutant of Detach: the key stays in subscribedOnServer.
DetachHalf(p) ==
  LET id == at[p]
      last == listeners[id] = {p}
  IN  /\ id # Nowhere
      /\ Len(up) < MaxUp
      /\ at' = [at EXCEPT ![p] = Nowhere]
      /\ listeners' = [listeners EXCEPT ![id] = @ \ {p}]
      /\ Send("unsubscribe", IF last THEN {id} \intersect subscribed ELSE {})
      /\ served' = served \ {p}
      /\ UNCHANGED <<server, wanted, accepted, socket, down, drops, timer, answers, store, subscribed>>

\* The unsubscribe function, when the panel goes: the last listener unsubscribes, if
\* the key has listeners still.
Detach(p) ==
  LET id == at[p]
      last == listeners[id] = {p}
  IN  /\ id # Nowhere
      /\ Len(up) < MaxUp
      /\ at' = [at EXCEPT ![p] = Nowhere]
      /\ listeners' = [listeners EXCEPT ![id] = @ \ {p}]
      /\ Send("unsubscribe", IF last THEN {id} \intersect subscribed ELSE {})
      /\ subscribed' = IF last THEN subscribed \ {id} ELSE subscribed
      /\ served' = served \ {p}
      /\ UNCHANGED <<server, wanted, accepted, socket, down, drops, timer, answers, store>>

-----------------------------------------------------------------------------

Serve ==
  \/ \E id \in Ids, mine \in BOOLEAN : Open(id, mine) \/ Reconnect(id, mine) \/ Close(id, mine)
  \/ \E id \in Ids : Moves(id) \/ CloseEnds(id) \/ LateUpdate(id) \/ Read(id)
  \/ List

Carry == Accept \/ Receive \/ Drop \/ Restart

Browse ==
  \/ Connect \/ TimerFires \/ Opened \/ Closed \/ Deliver
  \/ \E a \in answers : Answered(a)
  \/ \E p \in Panels, id \in Ids : Attach(p, id)
  \/ \E p \in Panels : Detach(p)

Next == Serve \/ Carry \/ Browse

Spec == Init /\ [][Next]_vars

\* A server that runs accepts and reads what was subscribed, an open socket carries its
\* frames, the browser raises its events and its timer.  Users and instruments may rest.
FairSpec ==
  /\ Spec
  /\ WF_vars(Accept) /\ WF_vars(Receive) /\ WF_vars(Opened)
  /\ WF_vars(Closed) /\ WF_vars(TimerFires) /\ WF_vars(Deliver)
  /\ \A id \in Ids : WF_vars(Read(id))

-----------------------------------------------------------------------------
(* Properties *)

\* Whenever the socket is open and its frames have been applied, the store shows each
\* session as the server has it, after any lost sockets, restarts and overlapping HTTP
\* answers.  Only an answer older than what it replaced, or the update of a session
\* that is already removed, can mislead it, until the next frame about that session.
StoreAgrees ==
  socket = "open" /\ down = <<>> =>
    \A id \in Ids : shown[id].status = table[id].status \/ closing[id] # "no" \/ id \in misled

\* Whenever the socket is open and the server has received what was sent on it, the
\* server polls exactly what panels listen to, each key once however many they are; the
\* keys of removed sessions apart, which stay in the route's set without effect.
FeedsAgree ==
  socket = "open" /\ up = <<>> =>
    \A id \in Ids : table[id].status # "none" => (id \in wanted <=> listeners[id] # {})

\* A panel that listens is sent a frame, again after every reconnect, unless it goes or
\* its session does.
ListenersAreServed ==
  \A p \in Panels, id \in Ids :
    p \in listeners[id] ~> (p \in served \/ p \notin listeners[id] \/ table[id].status = "none")
=============================================================================
