--------------------------- MODULE TranscriptTail ---------------------------
(***************************************************************************)
(* The transcript of one session from the sink to the screen: the ring and *)
(* the batches of the server (packages/server/src/sessions/ring-buffers.ts *)
(* and ws/observability-scheduler.ts), the page fetched over HTTP (routes/ *)
(* transcript.ts) and the panel that merges the two (packages/web/src/     *)
(* components/panels/TranscriptPanel.vue).                                 *)
(*                                                                         *)
(* A panel has a WebSocket, ordered in each direction, and an HTTP request *)
(* whose answer is ordered with nothing.  Device errors take the same path *)
(* through the scheduler, with a timer and a map of their own.             *)
(***************************************************************************)
EXTENDS Naturals, Sequences, FiniteSets

CONSTANTS
  Panels,       \* sockets followed to the screen
  Others,       \* sockets of which only the subscription matters
  RingMax,      \* #transcriptRingMax
  MaxEntries,   \* bound: entries recorded
  MaxAttempts,  \* bound: connections of the session, each with a ring of its own
  MaxTails      \* bound: times a panel subscribes

ASSUME SocketsDisjoint == Panels \cap Others = {}
ASSUME NumbersPositive ==
  /\ RingMax \in Nat \ {0} /\ MaxEntries \in Nat \ {0}
  /\ MaxAttempts \in Nat \ {0} /\ MaxTails \in Nat \ {0}

\* `seq' is what the ring numbers the entry with.
Entries == [attempt : 1..MaxAttempts, seq : 1..MaxEntries]

VARIABLES
  attempt,      \* the session's connection
  up,           \* the session is connected: its ring can be read
  removed,      \* the session is gone
  ring,         \* #buf of the connection's TranscriptRing
  recorded,     \* every entry, in order
  pending,      \* #transcriptPending
  subscribers,  \* the sockets in #transcriptLoops
  timer,        \* the loop's flush is scheduled
  upstream,     \* per panel: "subscribe" and "unsubscribe" frames under way
  downstream,   \* per panel: batches under way
  mounted,      \* panels on screen
  tailing,      \* panels that listen
  get,          \* per panel: the page request: "none", "asked" or "answered"
  page,         \* its answer
  shown,        \* entries.value, in the order of their seq
  tails,        \* per panel: times it subscribed
  owed,         \* history: per subscribed socket, entries recorded since it was
  got           \* history: per panel, entries of the batches that reached it

server == <<attempt, up, removed, ring, recorded, pending, subscribers, timer, owed>>
panel == <<mounted, tailing, get, page, shown, tails>>
vars == <<server, panel, upstream, downstream, got>>

SetOf(s) == {s[i] : i \in DOMAIN s}

Init ==
  /\ attempt = 1 /\ up = TRUE /\ removed = FALSE
  /\ ring = <<>> /\ recorded = <<>> /\ pending = <<>>
  /\ subscribers = {} /\ timer = FALSE
  /\ upstream = [p \in Panels |-> <<>>]
  /\ downstream = [p \in Panels |-> <<>>]
  /\ mounted = {} /\ tailing = {}
  /\ get = [p \in Panels |-> "none"]
  /\ page = [p \in Panels |-> {}]
  /\ shown = [p \in Panels |-> {}]
  /\ tails = [p \in Panels |-> 0]
  /\ owed = [p \in Panels |-> {}]
  /\ got = [p \in Panels |-> {}]

-----------------------------------------------------------------------------
(* The server *)

\* TranscriptRing.push.
Pushed(r, e) ==
  LET all == Append(r, e)
  IN  IF Len(all) > RingMax THEN Tail(all) ELSE all

\* TranscriptRing numbers from one; so does the next connection's.
NextSeq == Cardinality({i \in DOMAIN recorded : recorded[i].attempt = attempt}) + 1

\* An exchange is recorded, also one that fails because the connection is gone.
\* The flush is scheduled unless nobody listens.
Record ==
  LET e == [attempt |-> attempt, seq |-> NextSeq]
  IN  /\ Len(recorded) < MaxEntries
      /\ recorded' = Append(recorded, e)
      /\ ring' = Pushed(ring, e)
      /\ pending' = Append(pending, e)
      /\ timer' = (timer \/ subscribers # {})
      /\ owed' = [p \in Panels |-> IF p \in subscribers THEN owed[p] \cup {e} ELSE owed[p]]
      /\ UNCHANGED <<attempt, up, removed, subscribers, panel, upstream, downstream, got>>

\* Mutant of Flush: the entries stay for the next batch.
FlushKeepsPending ==
  /\ timer
  /\ timer' = FALSE
  /\ downstream' = [p \in Panels |-> IF p \in subscribers THEN Append(downstream[p], pending)
                                     ELSE downstream[p]]
  /\ UNCHANGED <<pending, attempt, up, removed, ring, recorded, subscribers, owed, panel, upstream, got>>

\* The timer of #scheduleTranscriptFlush: whatever is pending goes to whoever is
\* subscribed by now.
Flush ==
  /\ timer
  /\ timer' = FALSE
  /\ pending' = <<>>
  /\ downstream' = [p \in Panels |-> IF p \in subscribers /\ pending # <<>>
                                     THEN Append(downstream[p], pending) ELSE downstream[p]]
  /\ UNCHANGED <<attempt, up, removed, ring, recorded, subscribers, owed, panel, upstream, got>>

\* Mutant of Join: what waited for a listener is not scheduled.
JoinWaits(p) ==
  /\ subscribers' = subscribers \cup {p}
  /\ UNCHANGED <<timer, pending>>

\* Mutant of Join: a tail starts empty.
JoinFresh(p) ==
  /\ subscribers' = subscribers \cup {p}
  /\ pending' = <<>>
  /\ UNCHANGED timer

\* subscribe()
Join(p) ==
  /\ subscribers' = subscribers \cup {p}
  /\ timer' = (timer \/ pending # <<>>)
  /\ UNCHANGED pending

\* unsubscribe(), removeSubscriber(): what is pending stays.
Part(p) ==
  /\ subscribers' = subscribers \ {p}
  /\ timer' = (timer /\ subscribers # {p})
  /\ UNCHANGED pending

\* The route gets the panel's next frame.
Receive(p) ==
  /\ upstream[p] # <<>>
  /\ upstream' = [upstream EXCEPT ![p] = Tail(@)]
  /\ IF Head(upstream[p]) = "subscribe" THEN Join(p) ELSE Part(p)
  /\ owed' = [owed EXCEPT ![p] = {}]
  /\ UNCHANGED <<attempt, up, removed, ring, recorded, panel, downstream, got>>

\* Another browser, or another panel of this one, comes or goes.
OtherJoins(o) ==
  /\ o \notin subscribers
  /\ Join(o)
  /\ UNCHANGED <<attempt, up, removed, ring, recorded, owed, panel, upstream, downstream, got>>

OtherParts(o) ==
  /\ o \in subscribers
  /\ Part(o)
  /\ UNCHANGED <<attempt, up, removed, ring, recorded, owed, panel, upstream, downstream, got>>

\* The page: the whole ring, or 409 while the session is not connected.
AnswerGet(p) ==
  /\ get[p] = "asked"
  /\ IF up
     THEN /\ get' = [get EXCEPT ![p] = "answered"]
          /\ page' = [page EXCEPT ![p] = SetOf(ring)]
     ELSE get' = [get EXCEPT ![p] = "none"] /\ UNCHANGED page
  /\ UNCHANGED <<server, mounted, tailing, shown, tails, upstream, downstream, got>>

Lose ==
  /\ up
  /\ up' = FALSE
  /\ UNCHANGED <<attempt, removed, ring, recorded, pending, subscribers, timer, owed,
                 panel, upstream, downstream, got>>

\* #establish makes a new ring.
Reconnect ==
  /\ ~up /\ ~removed
  /\ attempt < MaxAttempts
  /\ attempt' = attempt + 1
  /\ up' = TRUE
  /\ ring' = <<>>
  /\ UNCHANGED <<removed, recorded, pending, subscribers, timer, owed,
                 panel, upstream, downstream, got>>

\* removeSession()
Remove ==
  /\ ~removed
  /\ removed' = TRUE /\ up' = FALSE
  /\ pending' = <<>> /\ subscribers' = {} /\ timer' = FALSE
  /\ owed' = [p \in Panels |-> {}]
  /\ UNCHANGED <<attempt, ring, recorded, panel, upstream, downstream, got>>

-----------------------------------------------------------------------------
(* The panel *)

Send(p, frame) == upstream' = [upstream EXCEPT ![p] = Append(@, frame)]

\* A panel is opened on a connected session: it asks for the page and subscribes.
Mount(p) ==
  /\ p \notin mounted
  /\ up
  /\ get[p] = "none"
  /\ tails[p] < MaxTails
  /\ tails' = [tails EXCEPT ![p] = @ + 1]
  /\ mounted' = mounted \cup {p}
  /\ tailing' = tailing \cup {p}
  /\ get' = [get EXCEPT ![p] = "asked"]
  /\ shown' = [shown EXCEPT ![p] = {}]
  /\ Send(p, "subscribe")
  /\ UNCHANGED <<server, page, downstream, got>>

\* Paused, or disabled because the session is not connected.
Untail(p) ==
  /\ p \in tailing
  /\ tailing' = tailing \ {p}
  /\ Send(p, "unsubscribe")
  /\ got' = [got EXCEPT ![p] = {}]
  /\ UNCHANGED <<server, mounted, get, page, shown, tails, downstream>>

\* Resumed, or enabled again: nothing is fetched.
Retail(p) ==
  /\ p \in mounted \ tailing
  /\ up
  /\ tails[p] < MaxTails
  /\ tails' = [tails EXCEPT ![p] = @ + 1]
  /\ tailing' = tailing \cup {p}
  /\ Send(p, "subscribe")
  /\ UNCHANGED <<server, mounted, get, page, shown, downstream, got>>

\* The panel is closed; a page under way will find nobody.
Unmount(p) ==
  /\ p \in mounted \ tailing
  /\ mounted' = mounted \ {p}
  /\ get' = [get EXCEPT ![p] = "none"]
  /\ UNCHANGED <<server, tailing, page, shown, tails, upstream, downstream, got>>

\* loadInitial: the page replaces what is shown.
PageArrives(p) ==
  /\ get[p] = "answered"
  /\ get' = [get EXCEPT ![p] = "none"]
  /\ shown' = [shown EXCEPT ![p] = page[p]]
  /\ page' = [page EXCEPT ![p] = {}]
  /\ UNCHANGED <<server, mounted, tailing, tails, upstream, downstream, got>>

\* onUpdate: an entry replaces the one with its number.
Merged(entries, batch) ==
  {e \in entries : \A i \in DOMAIN batch : batch[i].seq # e.seq} \cup
  {batch[i] : i \in {j \in DOMAIN batch : \A k \in DOMAIN batch : k > j => batch[k].seq # batch[j].seq}}

\* A batch reaches the page: the store hands it to the panel that listens.
BatchArrives(p) ==
  /\ downstream[p] # <<>>
  /\ downstream' = [downstream EXCEPT ![p] = Tail(@)]
  /\ IF p \in tailing
     THEN /\ shown' = [shown EXCEPT ![p] = Merged(@, Head(downstream[p]))]
          /\ got' = [got EXCEPT ![p] = @ \cup SetOf(Head(downstream[p]))]
     ELSE UNCHANGED <<shown, got>>
  /\ UNCHANGED <<server, mounted, tailing, get, page, tails, upstream>>

-----------------------------------------------------------------------------

Next ==
  \/ Record \/ Flush \/ Lose \/ Reconnect \/ Remove
  \/ \E o \in Others : OtherJoins(o) \/ OtherParts(o)
  \/ \E p \in Panels :
       \/ Receive(p) \/ AnswerGet(p)
       \/ Mount(p) \/ Untail(p) \/ Retail(p) \/ Unmount(p)
       \/ PageArrives(p) \/ BatchArrives(p)

Spec == Init /\ [][Next]_vars

\* Timers fire and what was sent arrives.
FairSpec ==
  /\ Spec
  /\ WF_vars(Flush)
  /\ \A p \in Panels : WF_vars(Receive(p)) /\ WF_vars(BatchArrives(p))

-----------------------------------------------------------------------------
(* Properties *)

\* What a panel's socket is still to get: the batches under way and the next one.
Line(p) == Append(downstream[p], pending)

Position(e) == CHOOSE i \in DOMAIN recorded : recorded[i] = e

\* What is under way to a subscribed panel and what waits for it is in the order
\* of recording, each entry once, across reconnects of the session too.
BatchesInOrder ==
  \A p \in subscribers \cap Panels : \A i, j \in DOMAIN Line(p) :
    \A m \in DOMAIN Line(p)[i], n \in DOMAIN Line(p)[j] :
      i < j \/ (i = j /\ m < n) => Position(Line(p)[i][m]) < Position(Line(p)[j][n])

\* What was recorded since a socket subscribed is waiting, under way or arrived:
\* no flush, leaver or newcomer takes an entry from it.
NothingLostToTail ==
  \A p \in subscribers \cap tailing :
    "unsubscribe" \notin SetOf(upstream[p]) =>
      owed[p] \subseteq (UNION {SetOf(Line(p)[i]) : i \in DOMAIN Line(p)}) \cup got[p]

\* A tail is followed: what waits for a listener goes out while there is one.
PendingIsFlushed == pending # <<>> ~> (pending = <<>> \/ subscribers = {})
=============================================================================
