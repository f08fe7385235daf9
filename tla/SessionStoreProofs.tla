------------------------- MODULE SessionStoreProofs -------------------------
(***************************************************************************)
(* What a browser shows is what the server has, and what the server polls  *)
(* is what the browser's panels listen to, however many sessions, panels,  *)
(* lost sockets and answers under way there are.                           *)
(*                                                                         *)
(* Both sides agree only once everything under way has arrived.  So the    *)
(* invariant is about the last word: what the route will have in its set   *)
(* once it has read every frame sent to it, and what the last frame about  *)
(* a session on its way to the browser says of it.                         *)
(***************************************************************************)
EXTENDS SessionStore, FiniteSetTheorems, TLAPS

Statuses == {"none", "connecting", "connected", "error"}
Summaries == [status : Statuses, version : Nat]
News == UNION {[ids -> Summaries] : ids \in SUBSET Ids}
Frames == [type : {"init", "update", "removed", "reading"}, news : News]
Asks == [type : {"subscribe", "unsubscribe"}, id : Ids]

Shape ==
  /\ table \in [Ids -> Summaries]
  /\ closing \in [Ids -> {"no", "mine", "other"}]
  /\ abandoned \subseteq Ids
  /\ wanted \subseteq Ids
  /\ accepted \in BOOLEAN
  /\ socket \in {"none", "connecting", "open", "closed"}
  /\ up \in Seq(Asks) /\ down \in Seq(Frames)
  /\ answers \subseteq News
  /\ shown \in [Ids -> Summaries]
  /\ misled \subseteq Ids
  /\ listeners \in [Ids -> SUBSET Panels]
  /\ subscribed \subseteq Ids
  /\ at \in [Panels -> Ids \cup {Nowhere}]

\* What is left of a socket that is gone or not yet open.
SocketOK ==
  /\ accepted => socket \in {"connecting", "open"}
  /\ socket = "open" => accepted
  /\ ~accepted => down = <<>>
  /\ socket # "open" => up = <<>> /\ wanted = {}
  /\ socket \in {"none", "connecting"} => subscribed = {}

\* The server's set has `id' once the frames u are read on top of w.
WillWant(id, w, u) ==
  \/ \E i \in 1..Len(u) : /\ u[i].type = "subscribe" /\ u[i].id = id
                          /\ \A j \in (i + 1)..Len(u) : u[j].id # id
  \/ id \in w /\ \A i \in 1..Len(u) : u[i].id # id

\* Frame i is the last one in d that says what has become of `id'.
About(id, f) == f.type # "reading" /\ id \in DOMAIN f.news
LastWord(id, d, i) ==
  /\ i \in 1..Len(d) /\ About(id, d[i])
  /\ \A j \in (i + 1)..Len(d) : ~About(id, d[j])
Unmentioned(id, d) == \A i \in 1..Len(d) : ~About(id, d[i])

\* A session that has been in the table and is no more.
Gone(id) == table[id].status = "none" /\ table[id].version > 0

\* A summary that a catch block emitted after its session was removed.
Late(summary) == summary.version = 0 /\ summary.status # "none"

GoneOK(id) ==
  /\ table[id].version = 0 => table[id].status = "none"
  /\ closing[id] # "no" \/ id \in abandoned => Gone(id)
  /\ \A i \in 1..Len(down) : down[i].type = "removed" /\ id \in DOMAIN down[i].news => Gone(id)

\* Nobody has heard of a session that was never opened.
UnheardOK(id) ==
  table[id].version = 0 =>
    /\ id \notin subscribed /\ listeners[id] = {} /\ ~WillWant(id, wanted, up)
    /\ shown[id].status = "none"
    /\ \A i \in 1..Len(down) : id \in DOMAIN down[i].news => down[i].news[id].status = "none"

FeedOK(id) ==
  socket = "open" =>
    /\ id \in subscribed <=> listeners[id] # {}
    /\ id \in subscribed => WillWant(id, wanted, up)
    /\ WillWant(id, wanted, up) /\ table[id].status # "none" => id \in subscribed

\* An answer under way is what the table was.
AnswersOK(id) ==
  \A a \in answers : id \in DOMAIN a =>
    /\ a[id].version <= table[id].version
    /\ a[id].version = table[id].version => a[id] = table[id]

\* The last word about a session is what the server has, and so is what is shown
\* when no word is under way.
Current(id, summary) == summary = table[id] \/ closing[id] # "no" \/ Late(summary)

WordOK(id) ==
  /\ \A i \in 1..Len(down) : LastWord(id, down, i) => Current(id, down[i].news[id])
  /\ accepted /\ socket = "connecting" => ~Unmentioned(id, down)
  /\ socket = "open" /\ Unmentioned(id, down) =>
       shown[id] = table[id] \/ closing[id] # "no" \/ id \in misled

Sound(id) ==
  GoneOK(id) /\ UnheardOK(id) /\ FeedOK(id) /\ AnswersOK(id) /\ WordOK(id)

IInv == Shape /\ SocketOK /\ \A id \in Ids : Sound(id)
-----------------------------------------------------------------------------
(* Sequences of frames *)

LEMMA AppendTail ==
  ASSUME NEW S, NEW d \in Seq(S), NEW f \in S
  PROVE  /\ Len(d) \in Nat /\ \A i \in 1..Len(d) : d[i] \in S
         /\ Append(d, f) \in Seq(S) /\ Len(Append(d, f)) = Len(d) + 1
         /\ \A i \in 1..Len(d) : Append(d, f)[i] = d[i]
         /\ Append(d, f)[Len(d) + 1] = f
         /\ d # <<>> => /\ Head(d) \in S /\ Head(d) = d[1] /\ Len(d) > 0
                        /\ Tail(d) \in Seq(S) /\ Len(Tail(d)) = Len(d) - 1
                        /\ \A i \in 1..(Len(d) - 1) : Tail(d)[i] = d[i + 1]
OBVIOUS

\* Reading the first ask changes nothing about what will be wanted.
LEMMA WantAfterTail ==
  ASSUME NEW id, NEW w, NEW u \in Seq(Asks), u # <<>>,
         NEW v, v = IF Head(u).type = "subscribe" THEN w \union {Head(u).id}
                    ELSE w \ {Head(u).id}
  PROVE  WillWant(id, v, Tail(u)) <=> WillWant(id, w, u)
<1> DEFINE t == Tail(u)
<1>1. /\ Len(u) \in Nat /\ Len(u) > 0 /\ Head(u) = u[1] /\ Len(t) = Len(u) - 1
      /\ \A i \in 1..(Len(u) - 1) : t[i] = u[i + 1]
  BY AppendTail, Head(u) \in Asks
<1> HIDE DEF t
<1>2. ASSUME WillWant(id, v, t) PROVE WillWant(id, w, u)
  <2>1. CASE id \in v /\ \A i \in 1..Len(t) : t[i].id # id
    <3>1. \A i \in 2..Len(u) : u[i].id # id
      <4> SUFFICES ASSUME NEW i \in 2..Len(u) PROVE u[i].id # id
        OBVIOUS
      <4>1. i - 1 \in 1..Len(t) /\ t[i - 1] = u[i]
        BY <1>1
      <4> QED
        BY <2>1, <4>1
    <3>2. CASE u[1].id = id
      <4>1. u[1].type = "subscribe"
        BY <1>1, <2>1, <3>2
      <4> QED
        BY <1>1, <3>1, <3>2, <4>1 DEF WillWant
    <3>3. CASE u[1].id # id
      <4>1. id \in w
        BY <1>1, <2>1, <3>3
      <4>2. \A i \in 1..Len(u) : u[i].id # id
        BY <1>1, <3>1, <3>3
      <4> QED
        BY <4>1, <4>2 DEF WillWant
    <3> QED
      BY <3>2, <3>3
  <2>2. ASSUME NEW i \in 1..Len(t), t[i].type = "subscribe", t[i].id = id,
               \A j \in (i + 1)..Len(t) : t[j].id # id
        PROVE  WillWant(id, w, u)
    <3>1. i + 1 \in 1..Len(u) /\ u[i + 1] = t[i]
      BY <1>1
    <3>2. ASSUME NEW j \in (i + 2)..Len(u) PROVE u[j].id # id
      <4>1. j - 1 \in (i + 1)..Len(t) /\ t[j - 1] = u[j]
        BY <1>1
      <4> QED
        BY <2>2, <4>1
    <3> QED
      BY <1>1, <2>2, <3>1, <3>2 DEF WillWant
  <2> QED
    BY <1>2, <2>1, <2>2 DEF WillWant
<1>3. ASSUME WillWant(id, w, u) PROVE WillWant(id, v, t)
  <2>1. CASE id \in w /\ \A i \in 1..Len(u) : u[i].id # id
    <3>1. id \in v
      BY <1>1, <2>1
    <3>2. \A i \in 1..Len(t) : t[i].id # id
      BY <1>1, <2>1
    <3> QED
      BY <3>1, <3>2 DEF WillWant
  <2>2. ASSUME NEW i \in 1..Len(u), u[i].type = "subscribe", u[i].id = id,
               \A j \in (i + 1)..Len(u) : u[j].id # id
        PROVE  WillWant(id, v, t)
    <3>1. CASE i = 1
      <4>1. id \in v
        BY <1>1, <2>2, <3>1
      <4>2. \A j \in 1..Len(t) : t[j].id # id
        BY <1>1, <2>2, <3>1
      <4> QED
        BY <4>1, <4>2 DEF WillWant
    <3>2. CASE i # 1
      <4>1. i - 1 \in 1..Len(t) /\ t[i - 1] = u[i]
        BY <1>1, <3>2
      <4>2. ASSUME NEW j \in i..Len(t) PROVE t[j].id # id
        <5>1. j + 1 \in (i + 1)..Len(u) /\ t[j] = u[j + 1]
          BY <1>1
        <5> QED
          BY <2>2, <5>1
      <4>3. (i - 1) + 1 = i
        OBVIOUS
      <4> QED
        BY <2>2, <4>1, <4>2, <4>3 DEF WillWant
    <3> QED
      BY <3>1, <3>2
  <2> QED
    BY <1>3, <2>1, <2>2 DEF WillWant
<1> QED
  BY <1>2, <1>3 DEF t

\* The last ask decides.
LEMMA WantAfterAppend ==
  ASSUME NEW id, NEW w, NEW u \in Seq(Asks), NEW f \in Asks
  PROVE  WillWant(id, w, Append(u, f)) <=>
           IF f.id = id THEN f.type = "subscribe" ELSE WillWant(id, w, u)
<1> DEFINE t == Append(u, f)
<1>1. /\ Len(u) \in Nat /\ Len(t) = Len(u) + 1 /\ t[Len(u) + 1] = f
      /\ \A i \in 1..Len(u) : t[i] = u[i]
  BY AppendTail
<1> HIDE DEF t
<1>2. ASSUME f.id # id, WillWant(id, w, u) PROVE WillWant(id, w, t)
  <2>1. ASSUME NEW i \in 1..Len(u), \A j \in (i + 1)..Len(u) : u[j].id # id
        PROVE  \A j \in (i + 1)..Len(t) : t[j].id # id
    BY <1>1, <1>2, <2>1
  <2>2. (\A i \in 1..Len(u) : u[i].id # id) => \A i \in 1..Len(t) : t[i].id # id
    BY <1>1, <1>2
  <2>3. \A i \in 1..Len(u) : i \in 1..Len(t)
    BY <1>1
  <2> QED
    BY <1>1, <1>2, <2>1, <2>2, <2>3 DEF WillWant
<1>3. ASSUME f.id # id, WillWant(id, w, t) PROVE WillWant(id, w, u)
  <2>1. ASSUME NEW i \in 1..Len(t), t[i].id = id, \A j \in (i + 1)..Len(t) : t[j].id # id
        PROVE  i \in 1..Len(u) /\ \A j \in (i + 1)..Len(u) : u[j].id # id
    BY <1>1, <1>3, <2>1
  <2>2. (\A i \in 1..Len(t) : t[i].id # id) => \A i \in 1..Len(u) : u[i].id # id
    BY <1>1
  <2> QED
    BY <1>1, <1>3, <2>1, <2>2 DEF WillWant
<1>4. ASSUME f.id = id, f.type = "subscribe" PROVE WillWant(id, w, t)
  BY <1>1, <1>4 DEF WillWant
<1>5. ASSUME f.id = id, f.type # "subscribe" PROVE ~WillWant(id, w, t)
  <2>1. ASSUME NEW i \in 1..Len(t), \A j \in (i + 1)..Len(t) : t[j].id # id
        PROVE  i = Len(u) + 1
    BY <1>1, <1>5, <2>1
  <2>2. Len(u) + 1 \in 1..Len(t)
    BY <1>1
  <2> QED
    BY <1>1, <1>5, <2>1, <2>2 DEF WillWant
<1> QED
  BY <1>2, <1>3, <1>4, <1>5 DEF t

\* A frame at the end has the last word on what it is about.
LEMMA LastWordAfterAppend ==
  ASSUME NEW id, NEW d \in Seq(Frames), NEW f \in Frames,
         NEW t, t = Append(d, f), NEW i, LastWord(id, t, i)
  PROVE  \/ About(id, f) /\ t[i] = f
         \/ ~About(id, f) /\ LastWord(id, d, i) /\ t[i] = d[i]
<1>1. /\ Len(d) \in Nat /\ Len(t) = Len(d) + 1 /\ t[Len(d) + 1] = f
      /\ \A j \in 1..Len(d) : t[j] = d[j]
  BY AppendTail
<1>2. i \in 1..Len(t) /\ About(id, t[i]) /\ \A j \in (i + 1)..Len(t) : ~About(id, t[j])
  BY DEF LastWord
<1>3. CASE i = Len(d) + 1
  BY <1>1, <1>2, <1>3
<1>4. CASE i # Len(d) + 1
  <2>1. i \in 1..Len(d) /\ ~About(id, f)
    BY <1>1, <1>2, <1>4
  <2>2. \A j \in (i + 1)..Len(d) : ~About(id, d[j])
    BY <1>1, <1>2, <2>1
  <2> QED
    BY <1>1, <1>2, <2>1, <2>2 DEF LastWord
<1> QED
  BY <1>3, <1>4

\* The rest of the frames after the first.
LEMMA LastWordInTail ==
  ASSUME NEW id, NEW d \in Seq(Frames), d # <<>>
  PROVE  /\ \A i : LastWord(id, Tail(d), i) => LastWord(id, d, i + 1) /\ Tail(d)[i] = d[i + 1]
         /\ Unmentioned(id, Tail(d)) /\ About(id, Head(d)) => LastWord(id, d, 1)
         /\ Unmentioned(id, Tail(d)) /\ ~About(id, Head(d)) => Unmentioned(id, d)
<1> DEFINE t == Tail(d)
<1>1. /\ Len(d) \in Nat /\ Len(d) > 0 /\ Head(d) = d[1] /\ Len(t) = Len(d) - 1
      /\ \A i \in 1..(Len(d) - 1) : t[i] = d[i + 1]
  BY AppendTail, Head(d) \in Frames
<1> HIDE DEF t
<1>2. ASSUME NEW i, LastWord(id, t, i) PROVE LastWord(id, d, i + 1) /\ t[i] = d[i + 1]
  <2>1. i \in 1..Len(t) /\ About(id, t[i]) /\ \A j \in (i + 1)..Len(t) : ~About(id, t[j])
    BY <1>2 DEF LastWord
  <2>2. i + 1 \in 1..Len(d) /\ t[i] = d[i + 1]
    BY <1>1, <2>1
  <2>3. ASSUME NEW j \in (i + 1 + 1)..Len(d) PROVE ~About(id, d[j])
    <3>1. j - 1 \in (i + 1)..Len(t) /\ t[j - 1] = d[j]
      BY <1>1, <2>1
    <3> QED
      BY <2>1, <3>1
  <2> QED
    BY <2>1, <2>2, <2>3 DEF LastWord
<1>3. ASSUME Unmentioned(id, t), NEW j \in 2..Len(d) PROVE ~About(id, d[j])
  <2>1. j - 1 \in 1..Len(t) /\ t[j - 1] = d[j]
    BY <1>1
  <2> QED
    BY <1>3, <2>1 DEF Unmentioned
<1>4. Unmentioned(id, t) /\ About(id, Head(d)) => LastWord(id, d, 1)
  BY <1>1, <1>3 DEF LastWord
<1>5. Unmentioned(id, t) /\ ~About(id, Head(d)) => Unmentioned(id, d)
  BY <1>1, <1>3 DEF Unmentioned
<1> QED
  BY <1>2, <1>4, <1>5 DEF t

LEMMA NewsOfSessions ==
  /\ \A id \in Ids, summary \in Summaries :
       Only(id, summary) \in News /\ DOMAIN Only(id, summary) = {id}
         /\ Only(id, summary)[id] = summary
  /\ \A news \in News : DOMAIN news \subseteq Ids /\ \A id \in DOMAIN news : news[id] \in Summaries
  /\ [Ids -> Summaries] \subseteq News
  /\ None \in Summaries /\ None.status = "none" /\ None.version = 0
<1>1. ASSUME NEW id \in Ids, NEW summary \in Summaries
      PROVE  /\ Only(id, summary) \in News /\ DOMAIN Only(id, summary) = {id}
             /\ Only(id, summary)[id] = summary
  <2>1. Only(id, summary) \in [{id} -> Summaries] /\ {id} \in SUBSET Ids
    BY DEF Only
  <2> QED
    BY <2>1 DEF Only, News
<1>2. \A news \in News : DOMAIN news \subseteq Ids /\ \A id \in DOMAIN news : news[id] \in Summaries
  BY DEF News
<1>3. [Ids -> Summaries] \subseteq News
  BY DEF News
<1>4. None \in Summaries /\ None.status = "none" /\ None.version = 0
  BY DEF None, Summaries, Statuses
<1> QED
  BY <1>1, <1>2, <1>3, <1>4
-----------------------------------------------------------------------------
(* The server *)

LEMMA InitSound == Init => IInv
<1> SUFFICES ASSUME Init PROVE IInv
  OBVIOUS
<1>1. Shape
  <2>1. /\ table \in [Ids -> Summaries] /\ shown \in [Ids -> Summaries]
        /\ up \in Seq(Asks) /\ down \in Seq(Frames)
    BY NewsOfSessions DEF Init
  <2>2. /\ listeners \in [Ids -> SUBSET Panels] /\ at \in [Panels -> Ids \cup {Nowhere}]
        /\ closing \in [Ids -> {"no", "mine", "other"}]
    BY DEF Init
  <2> QED
    BY <2>1, <2>2 DEF Init, Shape
<1>2. SocketOK
  BY DEF Init, SocketOK
<1>3. ASSUME NEW id \in Ids PROVE Sound(id)
  <2>1. /\ table[id].status = "none" /\ table[id].version = 0 /\ shown[id].status = "none"
        /\ closing[id] = "no" /\ listeners[id] = {} /\ subscribed = {} /\ wanted = {}
        /\ up = <<>> /\ down = <<>> /\ Len(down) = 0 /\ Len(up) = 0 /\ answers = {}
        /\ abandoned = {} /\ socket = "connecting" /\ ~accepted
    BY NewsOfSessions DEF Init
  <2>2. ~WillWant(id, wanted, up)
    BY <2>1 DEF WillWant
  <2>3. GoneOK(id) /\ UnheardOK(id)
    BY <2>1, <2>2 DEF GoneOK, UnheardOK
  <2>4. FeedOK(id) /\ AnswersOK(id) /\ WordOK(id)
    BY <2>1 DEF FeedOK, AnswersOK, WordOK, LastWord
  <2> QED
    BY <2>3, <2>4 DEF Sound
<1> QED
  BY <1>1, <1>2, <1>3 DEF IInv

\* What every step of the server does to a session: its version grows with each
\* change, and none comes back.
Forward(id) ==
  \/ table'[id] = table[id]
  \/ /\ table'[id].version > table[id].version
     /\ table[id].status = "none" => table[id].version = 0

\* A change of a session is announced, or its end is still to be.
Announced(id, f) ==
  \/ table'[id] = table[id] /\ closing'[id] = closing[id]
  \/ closing'[id] # "no"
  \/ About(id, f) /\ (accepted => down' = Append(down, f))

\* A step of the server that may send one frame and one answer.
LEMMA ServerKeeps ==
  ASSUME IInv, NEW f \in Frames,
         down' \in {down, IF accepted THEN Append(down, f) ELSE down},
         UNCHANGED <<wanted, accepted, socket, up, drops, timer, store, topics>>,
         table' \in [Ids -> Summaries], closing' \in [Ids -> {"no", "mine", "other"}],
         abandoned' \subseteq Ids, answers' \subseteq News,
         \A a \in answers' : a \in answers \/ \A i \in DOMAIN a : a[i] = table'[i],
         \A i \in Ids : /\ Forward(i) /\ Announced(i, f)
                        /\ table'[i].version = 0 => table'[i].status = "none"
                        /\ closing'[i] # "no" \/ i \in abandoned' => Gone(i)',
         \A i \in DOMAIN f.news :
           /\ About(i, f) => f.news[i] = table'[i] \/ Late(f.news[i])
           /\ f.type = "removed" => Gone(i)'
           /\ table'[i].version = 0 => f.news[i].status = "none"
  PROVE  IInv'
<1>1. /\ Len(down) \in Nat /\ \A j \in 1..Len(down) : down[j] \in Frames
      /\ Append(down, f) \in Seq(Frames) /\ Len(Append(down, f)) = Len(down) + 1
      /\ \A j \in 1..Len(down) : Append(down, f)[j] = down[j]
      /\ Append(down, f)[Len(down) + 1] = f
  BY AppendTail DEF IInv, Shape
<1>2. /\ \A j \in 1..Len(down') : (j \in 1..Len(down) /\ down'[j] = down[j]) \/ down'[j] = f
      /\ \A j \in 1..Len(down) : j \in 1..Len(down') /\ down'[j] = down[j]
  BY <1>1
<1>3. Shape'
  BY <1>1 DEF IInv, Shape, store, topics
<1>4. SocketOK'
  BY DEF IInv, SocketOK, topics
<1>5. ASSUME NEW id \in Ids PROVE Sound(id)'
  <2>1. /\ Sound(id) /\ Forward(id) /\ table[id] \in Summaries /\ table'[id] \in Summaries
        /\ table'[id].version = 0 => table'[id].status = "none"
        /\ closing'[id] # "no" \/ id \in abandoned' => Gone(id)'
    BY DEF IInv, Shape
  <2>2. table[id].version \in Nat /\ table'[id].version \in Nat
    BY <2>1 DEF Summaries
  <2>3. Gone(id) => Gone(id)'
    BY <2>1, <2>2 DEF Forward, Gone
  <2>4. table'[id].version = 0 => table[id].version = 0 /\ table'[id] = table[id]
    BY <2>1, <2>2 DEF Forward
  <2>5. GoneOK(id)'
    BY <1>2, <2>1, <2>3 DEF Sound, GoneOK
  <2>6. UnheardOK(id)'
    BY <1>2, <2>1, <2>4 DEF Sound, UnheardOK, topics, store
  <2>7. FeedOK(id)'
    BY <2>1 DEF Sound, FeedOK, UnheardOK, Forward, topics
  <2>8. AnswersOK(id)'
    <3> SUFFICES ASSUME NEW a \in answers', id \in DOMAIN a
                 PROVE  /\ a[id].version <= table'[id].version
                        /\ a[id].version = table'[id].version => a[id] = table'[id]
      BY DEF AnswersOK
    <3>1. CASE a \in answers
      <4>1. a[id].version \in Nat
        BY NewsOfSessions DEF Summaries, IInv, Shape
      <4>2. /\ a[id].version <= table[id].version
            /\ a[id].version = table[id].version => a[id] = table[id]
        BY <2>1, <3>1 DEF Sound, AnswersOK
      <4> QED
        BY <2>1, <2>2, <4>1, <4>2 DEF Forward
    <3>2. CASE \A i \in DOMAIN a : a[i] = table'[i]
      BY <2>2, <3>2
    <3> QED
      BY <3>1, <3>2
  <2>9. WordOK(id)'
    <3>1. Announced(id, f)
      OBVIOUS
    <3>2. ASSUME NEW i, LastWord(id, down, i)' PROVE Current(id, down[i].news[id])'
      <4>1. \/ About(id, f) /\ down'[i] = f
            \/ LastWord(id, down, i) /\ down'[i] = down[i] /\ ~(About(id, f) /\ down' = Append(down, f))
        <5>1. CASE down' = down
          <6>1. down' # Append(down, f)
            BY <1>1, <5>1
          <6> QED
            BY <3>2, <5>1, <6>1
        <5>2. CASE down' = Append(down, f)
          <6>1. LastWord(id, down', i) /\ down \in Seq(Frames)
            BY <3>2 DEF LastWord, IInv, Shape
          <6>2. \/ About(id, f) /\ down'[i] = f
                \/ ~About(id, f) /\ LastWord(id, down, i) /\ down'[i] = down[i]
            BY <5>2, <6>1, LastWordAfterAppend DEF LastWord
          <6> QED
            BY <6>2
        <5> QED
          BY <5>1, <5>2
      <4>2. CASE About(id, f) /\ down'[i] = f
        BY <4>2 DEF About, Current
      <4>3. CASE LastWord(id, down, i) /\ down'[i] = down[i] /\ ~(About(id, f) /\ down' = Append(down, f))
        <5>1. Current(id, down[i].news[id]) /\ accepted
          BY <2>1, <4>3 DEF Sound, WordOK, IInv, SocketOK, LastWord
        <5> QED
          BY <3>1, <4>3, <5>1 DEF Announced, Current
      <4> QED
        BY <4>1, <4>2, <4>3
    <3>3. accepted /\ socket = "connecting" => ~Unmentioned(id, down')
      BY <1>2, <2>1 DEF Sound, WordOK, Unmentioned
    <3>4. ASSUME socket = "open", Unmentioned(id, down')
          PROVE  shown[id] = table'[id] \/ closing'[id] # "no" \/ id \in misled
      <4>1. Unmentioned(id, down) /\ accepted
        BY <1>2, <3>4 DEF Unmentioned, IInv, SocketOK
      <4>2. ~(About(id, f) /\ down' = Append(down, f))
        BY <1>1, <3>4 DEF Unmentioned
      <4> QED
        BY <2>1, <3>1, <3>4, <4>1, <4>2 DEF Announced, Sound, WordOK
    <3> QED
      BY <3>2, <3>3, <3>4 DEF WordOK, store
  <2> QED
    BY <2>5, <2>6, <2>7, <2>8, <2>9 DEF Sound
<1> QED
  BY <1>3, <1>4, <1>5 DEF IInv

\* A frame about one session.
LEMMA FrameAboutOne ==
  ASSUME NEW id \in Ids, NEW summary \in Summaries, NEW type \in {"update", "removed", "reading"}
  PROVE  LET f == Frame(type, Only(id, summary)) IN
           /\ f \in Frames /\ f.type = type /\ DOMAIN f.news = {id} /\ f.news[id] = summary
           /\ \A i : About(i, f) <=> i = id /\ type # "reading"
<1> DEFINE f == Frame(type, Only(id, summary))
<1>1. f \in Frames /\ f.type = type /\ f.news = Only(id, summary)
  BY NewsOfSessions DEF Frame, Frames
<1> HIDE DEF f
<1>2. DOMAIN f.news = {id} /\ f.news[id] = summary
  BY <1>1 DEF Only
<1> QED
  BY <1>1, <1>2 DEF About, f

\* A session that takes a new status is announced.
LEMMA BecomesKeeps ==
  ASSUME IInv, NEW id \in Ids, NEW status \in Statuses \ {"none"}, Becomes(id, status),
         table[id].status # "none" \/ table[id].version = 0,
         UNCHANGED <<wanted, accepted, socket, up, drops, timer, store, topics>>,
         UNCHANGED <<closing, abandoned>>,
         answers' \subseteq answers \union {Only(id, table'[id])}
  PROVE  IInv'
<1> DEFINE s == [status |-> status, version |-> table[id].version + 1]
           f == Frame("update", Only(id, s))
<1>1. table[id] \in Summaries /\ table[id].version \in Nat /\ Sound(id)
  BY DEF IInv, Shape, Summaries
<1>2. s \in Summaries /\ s.version = table[id].version + 1 /\ s.status = status
  BY <1>1 DEF Summaries
<1>3. table' = [table EXCEPT ![id] = s] /\ down' = IF accepted THEN Append(down, f) ELSE down
  BY DEF Becomes, Broadcast
<1> HIDE DEF s
<1>4. /\ f \in Frames /\ f.type = "update" /\ DOMAIN f.news = {id} /\ f.news[id] = s
      /\ About(id, f)
  BY <1>2, FrameAboutOne
<1> HIDE DEF f
<1>5. table' \in [Ids -> Summaries] /\ table'[id] = s /\ \A i \in Ids \ {id} : table'[i] = table[i]
  BY <1>2, <1>3 DEF IInv, Shape
<1>6. ASSUME NEW a \in answers'
      PROVE  a \in News /\ (a \in answers \/ \A i \in DOMAIN a : a[i] = table'[i])
  <2>1. CASE a \in answers
    BY <2>1 DEF IInv, Shape
  <2>2. CASE a = Only(id, s)
    <3>1. a \in News /\ DOMAIN a = {id} /\ a[id] = s
      BY <1>2, <2>2, NewsOfSessions
    <3> QED
      BY <1>5, <3>1
  <2> QED
    BY <1>5, <2>1, <2>2
<1>7. \A i \in Ids : Forward(i) /\ Announced(i, f)
  BY <1>1, <1>2, <1>3, <1>4, <1>5 DEF Forward, Announced
<1>8. ASSUME NEW i \in Ids
      PROVE  /\ table'[i].version = 0 => table'[i].status = "none"
             /\ closing'[i] # "no" \/ i \in abandoned' => Gone(i)'
  <2>1. GoneOK(i)
    BY DEF IInv, Sound
  <2> QED
    BY <1>1, <1>2, <1>5, <2>1 DEF GoneOK, Gone
<1>9. \A i \in DOMAIN f.news : /\ f.news[i] = table'[i] /\ f.type # "removed"
                               /\ table'[i].version # 0
  BY <1>1, <1>2, <1>4, <1>5
<1>10. \A i \in DOMAIN f.news :
        /\ About(i, f) => f.news[i] = table'[i] \/ Late(f.news[i])
        /\ f.type = "removed" => Gone(i)'
        /\ table'[i].version = 0 => f.news[i].status = "none"
  BY <1>9
<1>11. /\ table' \in [Ids -> Summaries] /\ closing' \in [Ids -> {"no", "mine", "other"}]
      /\ abandoned' \subseteq Ids /\ answers' \subseteq News
      /\ down' \in {down, IF accepted THEN Append(down, f) ELSE down}
  BY <1>3, <1>5, <1>6 DEF IInv, Shape
<1> QED
  BY <1>4, <1>6, <1>7, <1>8, <1>10, <1>11, ServerKeeps

\* An answer that tells what the table is, and nothing else.
LEMMA UnannouncedKeeps ==
  ASSUME IInv, UNCHANGED <<server, wire, store, topics>>,
         NEW news \in News, \A i \in DOMAIN news : news[i] = table[i],
         answers' \subseteq answers \union {news}
  PROVE  IInv'
<1> DEFINE f == Frame("reading", [i \in {} |-> None])
<1>1. f \in Frames /\ DOMAIN f.news = {} /\ f.type = "reading"
  <2>1. [i \in {} |-> None] \in [{} -> Summaries] /\ {} \in SUBSET Ids
    OBVIOUS
  <2>2. [i \in {} |-> None] \in News
    BY <2>1 DEF News
  <2> QED
    BY <2>2 DEF Frame, Frames
<1> HIDE DEF f
<1>2. \A i \in Ids : /\ GoneOK(i) /\ Forward(i) /\ Announced(i, f)
                     /\ Gone(i)' <=> Gone(i)
  BY DEF IInv, Sound, Forward, Announced, server, Gone
<1>3. \A i \in Ids : /\ table'[i].version = 0 => table'[i].status = "none"
                     /\ closing'[i] # "no" \/ i \in abandoned' => Gone(i)'
  BY <1>2 DEF GoneOK, server
<1>4. UNCHANGED <<wanted, accepted, socket, up, down, drops, timer, store, topics, table>>
  BY DEF server, wire
<1>5. /\ table' \in [Ids -> Summaries] /\ closing' \in [Ids -> {"no", "mine", "other"}]
      /\ abandoned' \subseteq Ids /\ answers' \subseteq News
      /\ down' \in {down, IF accepted THEN Append(down, f) ELSE down}
  BY DEF server, wire, IInv, Shape
<1>6. \A a \in answers' : a \in answers \/ \A i \in DOMAIN a : a[i] = table'[i]
  BY <1>4
<1> QED
  BY <1>1, <1>2, <1>3, <1>4, <1>5, <1>6, ServerKeeps

LEMMA OpenKeeps ==
  ASSUME IInv, NEW id \in Ids, NEW mine \in BOOLEAN, Open(id, mine)
  PROVE  IInv'
BY BecomesKeeps, NewsOfSessions DEF Open, Reply, Statuses

LEMMA ReconnectKeeps ==
  ASSUME IInv, NEW id \in Ids, NEW mine \in BOOLEAN, Reconnect(id, mine)
  PROVE  IInv'
<1>1. CASE table[id].status = "error" /\ Becomes(id, "connecting")
  BY <1>1, BecomesKeeps DEF Reconnect, Reply, Statuses
<1>2. CASE UNCHANGED <<table, down>>
  <2>1. UNCHANGED <<server, wire, store, topics>>
    BY <1>2 DEF Reconnect, server, wire
  <2>2. /\ Only(id, table[id]) \in News /\ DOMAIN Only(id, table[id]) = {id}
        /\ Only(id, table[id])[id] = table[id]
    BY NewsOfSessions DEF IInv, Shape
  <2>3. answers' \subseteq answers \union {Only(id, table[id])}
    BY <1>2 DEF Reconnect, Reply
  <2> QED
    BY <2>1, <2>2, <2>3, UnannouncedKeeps
<1> QED
  BY <1>1, <1>2 DEF Reconnect

LEMMA MovesKeeps ==
  ASSUME IInv, NEW id \in Ids, Moves(id)
  PROVE  IInv'
BY BecomesKeeps DEF Moves, Statuses

LEMMA CloseKeeps ==
  ASSUME IInv, NEW id \in Ids, NEW mine \in BOOLEAN, Close(id, mine)
  PROVE  IInv'
<1> DEFINE f == Frame("reading", Only(id, table[id]))
           s == [status |-> "none", version |-> table[id].version + 1]
<1>1. table[id] \in Summaries /\ table[id].version \in Nat /\ Sound(id)
  BY DEF IInv, Shape, Summaries
<1>2. s \in Summaries /\ s.version = table[id].version + 1 /\ s.status = "none"
  BY <1>1 DEF Summaries, Statuses
<1>3. f \in Frames /\ f.type = "reading" /\ DOMAIN f.news = {id} /\ ~About(id, f)
  BY <1>1, FrameAboutOne
<1> HIDE DEF f
<1>4. table' = [table EXCEPT ![id] = s]
  BY DEF Close
<1> HIDE DEF s
<1>5. table' \in [Ids -> Summaries] /\ table'[id] = s /\ \A i \in Ids \ {id} : table'[i] = table[i]
  BY <1>2, <1>4 DEF IInv, Shape
<1>6. /\ closing' \in [Ids -> {"no", "mine", "other"}] /\ closing'[id] # "no"
      /\ \A i \in Ids \ {id} : closing'[i] = closing[i] /\ (i \in abandoned' <=> i \in abandoned)
      /\ abandoned' \subseteq Ids
  BY DEF Close, IInv, Shape
<1>7. Gone(id)' /\ table[id].status # "none"
  BY <1>1, <1>2, <1>5 DEF Gone, Close
<1>8. \A i \in Ids : Forward(i)
  BY <1>1, <1>2, <1>5, <1>7 DEF Forward
<1>9. \A i \in Ids : Announced(i, f)
  BY <1>5, <1>6 DEF Announced
<1>10. ASSUME NEW i \in Ids
       PROVE  /\ table'[i].version = 0 => table'[i].status = "none"
              /\ closing'[i] # "no" \/ i \in abandoned' => Gone(i)'
  <2>1. GoneOK(i)
    BY DEF IInv, Sound
  <2>2. CASE i = id
    BY <1>2, <1>5, <1>7, <2>2
  <2>3. CASE i # id
    BY <1>5, <1>6, <2>1, <2>3 DEF GoneOK, Gone
  <2> QED
    BY <2>2, <2>3
<1>11. table'[id].version # 0
  BY <1>1, <1>2, <1>5
<1>12. UNCHANGED <<wanted, accepted, socket, up, down, drops, timer, store, topics, answers>>
  BY DEF Close, wire
<1>13. \A i \in DOMAIN f.news :
        /\ About(i, f) => f.news[i] = table'[i] \/ Late(f.news[i])
        /\ f.type = "removed" => Gone(i)'
        /\ table'[i].version = 0 => f.news[i].status = "none"
  BY <1>3, <1>11
<1>14. /\ table' \in [Ids -> Summaries] /\ closing' \in [Ids -> {"no", "mine", "other"}]
      /\ abandoned' \subseteq Ids /\ answers' \subseteq News
      /\ down' \in {down, IF accepted THEN Append(down, f) ELSE down}
  BY <1>5, <1>6, <1>12 DEF IInv, Shape
<1> QED
  BY <1>3, <1>8, <1>9, <1>10, <1>12, <1>13, <1>14, ServerKeeps

LEMMA CloseEndsKeeps ==
  ASSUME IInv, NEW id \in Ids, CloseEnds(id)
  PROVE  IInv'
<1> DEFINE f == Frame("removed", Only(id, table[id]))
<1>1. table[id] \in Summaries /\ Sound(id) /\ Gone(id)
  BY DEF IInv, Shape, Sound, GoneOK, CloseEnds
<1>2. /\ f \in Frames /\ f.type = "removed" /\ DOMAIN f.news = {id} /\ f.news[id] = table[id]
      /\ About(id, f)
  BY <1>1, FrameAboutOne
<1>3. down' = IF accepted THEN Append(down, f) ELSE down
  BY DEF CloseEnds, Broadcast
<1> HIDE DEF f
<1>4. /\ closing' \in [Ids -> {"no", "mine", "other"}] /\ closing'[id] = "no"
      /\ \A i \in Ids \ {id} : closing'[i] = closing[i]
      /\ UNCHANGED <<table, abandoned, wanted, accepted, socket, up, drops, timer, store, topics>>
  BY DEF CloseEnds, IInv, Shape
<1>5. ASSUME NEW a \in answers'
      PROVE  a \in News /\ (a \in answers \/ \A i \in DOMAIN a : a[i] = table'[i])
  <2>1. a \in answers \/ a = Only(id, table[id])
    BY DEF CloseEnds, Reply
  <2>2. CASE a \in answers
    BY <2>2 DEF IInv, Shape
  <2>3. CASE a = Only(id, table[id])
    <3>1. a \in News /\ DOMAIN a = {id} /\ a[id] = table[id]
      BY <1>1, <2>3, NewsOfSessions
    <3> QED
      BY <1>4, <3>1
  <2> QED
    BY <2>1, <2>2, <2>3
<1>6. \A i \in Ids : Forward(i) /\ Announced(i, f)
  BY <1>2, <1>3, <1>4 DEF Forward, Announced
<1>7. \A i \in Ids : Gone(i)' <=> Gone(i)
  BY <1>4 DEF Gone
<1>8. ASSUME NEW i \in Ids
      PROVE  /\ table'[i].version = 0 => table'[i].status = "none"
             /\ closing'[i] # "no" \/ i \in abandoned' => Gone(i)'
  <2>1. GoneOK(i)
    BY DEF IInv, Sound
  <2> QED
    BY <1>1, <1>4, <1>7, <2>1 DEF GoneOK
<1>9. table'[id].status = "none" /\ f.news[id] = table'[id] /\ Gone(id)'
  BY <1>1, <1>2, <1>4, <1>7 DEF Gone
<1>10. \A i \in DOMAIN f.news :
        /\ About(i, f) => f.news[i] = table'[i] \/ Late(f.news[i])
        /\ f.type = "removed" => Gone(i)'
        /\ table'[i].version = 0 => f.news[i].status = "none"
  BY <1>2, <1>9
<1>11. /\ table' \in [Ids -> Summaries] /\ closing' \in [Ids -> {"no", "mine", "other"}]
      /\ abandoned' \subseteq Ids /\ answers' \subseteq News
      /\ down' \in {down, IF accepted THEN Append(down, f) ELSE down}
  BY <1>3, <1>4, <1>5 DEF IInv, Shape
<1> QED
  BY <1>2, <1>4, <1>5, <1>6, <1>8, <1>10, <1>11, ServerKeeps

LEMMA LateUpdateKeeps ==
  ASSUME IInv, NEW id \in Ids, LateUpdate(id)
  PROVE  IInv'
<1> DEFINE s == [status |-> "error", version |-> 0]
           f == Frame("update", Only(id, s))
<1>1. s \in Summaries /\ Late(s)
  BY DEF Summaries, Statuses, Late
<1>2. down' = IF accepted THEN Append(down, f) ELSE down
  BY DEF LateUpdate, Broadcast
<1> HIDE DEF s
<1>3. f \in Frames /\ f.type = "update" /\ DOMAIN f.news = {id} /\ Late(f.news[id])
  BY <1>1, FrameAboutOne
<1> HIDE DEF f
<1>4. /\ abandoned' \subseteq abandoned /\ table[id].version > 0
      /\ UNCHANGED <<table, closing, wanted, accepted, socket, up, drops, timer, answers, store, topics>>
  BY DEF LateUpdate, IInv, Sound, GoneOK, Gone
<1>5. \A i \in Ids : Forward(i) /\ Announced(i, f) /\ GoneOK(i) /\ (Gone(i)' <=> Gone(i))
  BY <1>4 DEF Forward, Announced, Gone, IInv, Sound
<1>6. \A i \in Ids : /\ table'[i].version = 0 => table'[i].status = "none"
                     /\ closing'[i] # "no" \/ i \in abandoned' => Gone(i)'
  BY <1>4, <1>5 DEF GoneOK
<1>7. Late(f.news[id]) /\ table'[id].version # 0
  BY <1>3, <1>4
<1>8. \A i \in DOMAIN f.news :
        /\ About(i, f) => f.news[i] = table'[i] \/ Late(f.news[i])
        /\ f.type = "removed" => Gone(i)'
        /\ table'[i].version = 0 => f.news[i].status = "none"
  BY <1>3, <1>7
<1>9. /\ table' \in [Ids -> Summaries] /\ closing' \in [Ids -> {"no", "mine", "other"}]
      /\ abandoned' \subseteq Ids /\ answers' \subseteq News
      /\ down' \in {down, IF accepted THEN Append(down, f) ELSE down}
  BY <1>2, <1>4 DEF IInv, Shape
<1>10. \A a \in answers' : a \in answers
  BY <1>4
<1> QED
  BY <1>3, <1>4, <1>5, <1>6, <1>8, <1>9, <1>10, ServerKeeps

LEMMA ReadKeeps ==
  ASSUME IInv, NEW id \in Ids, Read(id)
  PROVE  IInv'
<1> DEFINE f == Frame("reading", Only(id, table[id]))
<1>1. table[id] \in Summaries
  BY DEF IInv, Shape
<1>2. /\ f \in Frames /\ f.type = "reading" /\ DOMAIN f.news = {id} /\ f.news[id] = table[id]
      /\ ~About(id, f)
  BY <1>1, FrameAboutOne
<1>3. down' = IF accepted THEN Append(down, f) ELSE down
  BY DEF Read, Broadcast
<1> HIDE DEF f
<1>4. UNCHANGED <<table, closing, abandoned, wanted, accepted, socket, up, drops, timer, answers,
                  store, topics>>
  BY DEF Read, server
<1>5. \A i \in Ids : Forward(i) /\ Announced(i, f) /\ GoneOK(i) /\ (Gone(i)' <=> Gone(i))
  BY <1>4 DEF Forward, Announced, Gone, IInv, Sound
<1>6. \A i \in Ids : /\ table'[i].version = 0 => table'[i].status = "none"
                     /\ closing'[i] # "no" \/ i \in abandoned' => Gone(i)'
  BY <1>4, <1>5 DEF GoneOK
<1>7. \A i \in DOMAIN f.news : f.news[i] = table'[i] /\ table'[i].version # 0
  BY <1>2, <1>4, <1>5 DEF Read, GoneOK
<1>8. \A i \in DOMAIN f.news :
        /\ About(i, f) => f.news[i] = table'[i] \/ Late(f.news[i])
        /\ f.type = "removed" => Gone(i)'
        /\ table'[i].version = 0 => f.news[i].status = "none"
  BY <1>2, <1>7
<1>9. /\ table' \in [Ids -> Summaries] /\ closing' \in [Ids -> {"no", "mine", "other"}]
      /\ abandoned' \subseteq Ids /\ answers' \subseteq News
      /\ down' \in {down, IF accepted THEN Append(down, f) ELSE down}
  BY <1>3, <1>4 DEF IInv, Shape
<1>10. \A a \in answers' : a \in answers
  BY <1>4
<1> QED
  BY <1>2, <1>4, <1>5, <1>6, <1>8, <1>9, <1>10, ServerKeeps

LEMMA ListKeeps == ASSUME IInv, List PROVE IInv'
<1>1. UNCHANGED <<server, wire, store, topics>> /\ answers' = answers \union {table}
  BY DEF List, Reply
<1>2. table \in News
  BY NewsOfSessions DEF IInv, Shape
<1> QED
  BY <1>1, <1>2, UnannouncedKeeps
-----------------------------------------------------------------------------
(* The socket *)

LEMMA AcceptKeeps == ASSUME IInv, Accept PROVE IInv'
<1> DEFINE f == Frame("init", table)
<1>1. f \in Frames /\ f.type = "init" /\ f.news = table
  BY NewsOfSessions DEF Frame, Frames, IInv, Shape
<1>2. /\ socket = "connecting" /\ accepted' = TRUE /\ down' = <<f>>
      /\ UNCHANGED <<server, wanted, socket, up, drops, timer, answers, store, topics>>
  BY DEF Accept
<1> HIDE DEF f
<1>3. down' \in Seq(Frames) /\ Len(down') = 1 /\ down'[1] = f /\ 1..1 = {1}
  BY <1>1, <1>2
<1>4. Shape'
  BY <1>2, <1>3 DEF IInv, Shape, server, store, topics
<1>5. SocketOK'
  BY <1>2 DEF IInv, SocketOK, topics
<1>6. ASSUME NEW id \in Ids PROVE Sound(id)'
  <2>1. Sound(id) /\ DOMAIN table = Ids
    BY DEF IInv, Shape
  <2>2. GoneOK(id)'
    BY <1>1, <1>2, <1>3, <2>1 DEF Sound, GoneOK, Gone, server
  <2>3. UnheardOK(id)'
    BY <1>1, <1>2, <1>3, <2>1 DEF Sound, GoneOK, UnheardOK, server, store, topics
  <2>4. FeedOK(id)' /\ AnswersOK(id)'
    BY <1>2, <2>1 DEF Sound, FeedOK, AnswersOK, server
  <2>5. WordOK(id)'
    <3>1. ASSUME NEW i, LastWord(id, down, i)' PROVE Current(id, down[i].news[id])'
      <4>1. i = 1
        BY <1>3, <3>1 DEF LastWord
      <4> QED
        BY <1>1, <1>2, <1>3, <4>1 DEF Current, server
    <3>2. ~Unmentioned(id, down)'
      BY <1>1, <1>3, <2>1 DEF Unmentioned, About
    <3> QED
      BY <1>2, <3>1, <3>2 DEF WordOK
  <2> QED
    BY <2>2, <2>3, <2>4, <2>5 DEF Sound
<1> QED
  BY <1>4, <1>5, <1>6 DEF IInv

LEMMA ReceiveKeeps == ASSUME IInv, Receive PROVE IInv'
<1>1. /\ up # <<>> /\ up \in Seq(Asks) /\ Head(up) \in Asks /\ up' = Tail(up)
      /\ Tail(up) \in Seq(Asks) /\ socket = "open"
  BY AppendTail DEF Receive, IInv, Shape, SocketOK
<1>2. /\ wanted' = IF Head(up).type = "subscribe" THEN wanted \union {Head(up).id}
                   ELSE wanted \ {Head(up).id}
      /\ UNCHANGED <<server, accepted, socket, down, drops, timer, answers, store, topics>>
  BY DEF Receive
<1>3. Shape'
  <2>1. wanted' \subseteq Ids
    BY <1>1, <1>2 DEF IInv, Shape, Asks
  <2> QED
    BY <1>1, <1>2, <2>1 DEF IInv, Shape, server, store, topics
<1>4. SocketOK'
  BY <1>1, <1>2 DEF IInv, SocketOK, topics
<1>5. \A id \in Ids : WillWant(id, wanted', up') <=> WillWant(id, wanted, up)
  BY <1>1, <1>2, WantAfterTail
<1>6. ASSUME NEW id \in Ids PROVE Sound(id)'
  <2>1. Sound(id)
    BY DEF IInv
  <2>2. GoneOK(id)' /\ AnswersOK(id)'
    BY <1>2, <2>1 DEF Sound, GoneOK, Gone, AnswersOK, server
  <2>3. UnheardOK(id)' /\ FeedOK(id)'
    BY <1>2, <1>5, <2>1 DEF Sound, UnheardOK, FeedOK, server, store, topics
  <2>4. WordOK(id)'
    BY <1>2, <2>1 DEF Sound, WordOK, Current, server, store
  <2> QED
    BY <2>2, <2>3, <2>4 DEF Sound
<1> QED
  BY <1>3, <1>4, <1>6 DEF IInv

\* A socket without a route behind it promises nothing.
LEMMA CutOffSound ==
  ASSUME IInv, Shape', SocketOK', ~accepted',
         down' = <<>>, up' = <<>>, wanted' = {},
         UNCHANGED <<shown, misled, listeners>>, abandoned' \subseteq abandoned,
         answers' \subseteq answers, subscribed' \subseteq subscribed,
         \A id \in Ids : /\ Forward(id) /\ closing'[id] \in {"no", closing[id]}
                         /\ table'[id].version = 0 => table'[id].status = "none"
                         /\ Gone(id) => Gone(id)'
  PROVE  IInv'
<1>1. Len(down') = 0 /\ Len(up') = 0 /\ socket' # "open" /\ 1..0 = {}
  BY DEF SocketOK
<1>2. ASSUME NEW id \in Ids PROVE Sound(id)'
  <2>1. Sound(id) /\ table[id] \in Summaries /\ table'[id] \in Summaries
    BY DEF IInv, Shape
  <2>2. table[id].version \in Nat /\ table'[id].version \in Nat
    BY <2>1 DEF Summaries
  <2>3. GoneOK(id)'
    BY <1>1, <2>1 DEF Sound, GoneOK
  <2>4. UnheardOK(id)'
    <3>1. ~WillWant(id, wanted, up)'
      BY <1>1 DEF WillWant
    <3> QED
      BY <1>1, <2>1, <2>2, <3>1 DEF Sound, UnheardOK, Forward
  <2>5. FeedOK(id)'
    BY <1>1 DEF FeedOK
  <2>6. AnswersOK(id)'
    <3> SUFFICES ASSUME NEW a \in answers, id \in DOMAIN a
                 PROVE  /\ a[id].version <= table'[id].version
                        /\ a[id].version = table'[id].version => a[id] = table'[id]
      BY DEF AnswersOK
    <3>1. a[id].version \in Nat
      BY NewsOfSessions DEF Summaries, IInv, Shape
    <3> QED
      BY <2>1, <2>2, <3>1 DEF Sound, AnswersOK, Forward
  <2>7. WordOK(id)'
    BY <1>1 DEF WordOK, LastWord
  <2> QED
    BY <2>3, <2>4, <2>5, <2>6, <2>7 DEF Sound
<1> QED
  BY <1>2 DEF IInv

LEMMA DropKeeps == ASSUME IInv, Drop PROVE IInv'
<1>1. Shape' /\ SocketOK'
  <2>1. down' \in Seq(Frames) /\ up' \in Seq(Asks)
    BY DEF Drop, Cut
  <2>2. Shape'
    BY <2>1 DEF Drop, Cut, IInv, Shape, server, store, topics
  <2>3. SocketOK'
    BY DEF Drop, Cut, IInv, SocketOK, topics
  <2> QED
    BY <2>2, <2>3
<1>2. \A id \in Ids : GoneOK(id) /\ Forward(id) /\ (Gone(id) => Gone(id)')
  BY DEF Drop, IInv, Sound, Forward, Gone, server
<1> QED
  BY <1>1, <1>2, CutOffSound DEF Drop, Cut, GoneOK, server, store, topics

LEMMA RestartKeeps == ASSUME IInv, Restart PROVE IInv'
<1>1. ASSUME NEW id \in Ids
      PROVE  /\ table'[id] \in Summaries /\ Forward(id) /\ closing'[id] = "no"
             /\ table'[id].version = 0 => table'[id].status = "none"
             /\ Gone(id) => Gone(id)'
  <2> DEFINE s == [status |-> "none", version |-> table[id].version + 1]
  <2>1. table[id] \in Summaries /\ table[id].version \in Nat /\ Sound(id)
    BY DEF IInv, Shape, Summaries
  <2>2. s \in Summaries /\ s.version = table[id].version + 1 /\ s.status = "none"
    BY <2>1 DEF Summaries, Statuses
  <2>3. table'[id] = (IF table[id].status = "none" THEN table[id] ELSE s) /\ closing'[id] = "no"
    BY DEF Restart
  <2> HIDE DEF s
  <2> QED
    BY <2>1, <2>2, <2>3 DEF Forward, Gone
<1>2. Shape'
  <2>1. table' \in [Ids -> Summaries]
    BY <1>1 DEF Restart
  <2>2. closing' \in [Ids -> {"no", "mine", "other"}]
    BY DEF Restart
  <2>3. down' \in Seq(Frames) /\ up' \in Seq(Asks)
    BY DEF Restart, Cut
  <2> QED
    BY <2>1, <2>2, <2>3 DEF Restart, Cut, IInv, Shape, store, topics
<1>3. SocketOK'
  BY DEF Restart, Cut, IInv, Shape, SocketOK, topics
<1>4. /\ ~accepted' /\ down' = <<>> /\ up' = <<>> /\ wanted' = {} /\ answers' = {}
      /\ abandoned' = {} /\ UNCHANGED <<store, topics>>
  BY DEF Restart, Cut
<1> QED
  BY <1>1, <1>2, <1>3, <1>4, CutOffSound DEF store, topics

-----------------------------------------------------------------------------
(* The store *)

LEMMA ConnectKeeps == ASSUME IInv, Connect \/ TimerFires PROVE IInv'
<1>1. /\ UNCHANGED <<server, wanted, accepted, up, down, answers, store, topics>>
      /\ \/ socket' = socket
         \/ socket = "none" /\ socket' = "connecting"
  BY DEF Connect, TimerFires
<1>2. Shape' /\ SocketOK'
  BY <1>1 DEF IInv, Shape, SocketOK, server, store, topics
<1>3. ASSUME NEW id \in Ids PROVE Sound(id)'
  <2>1. Sound(id) /\ (socket = "none" => ~accepted)
    BY DEF IInv, SocketOK
  <2>2. GoneOK(id)' /\ UnheardOK(id)' /\ AnswersOK(id)'
    BY <1>1, <2>1 DEF Sound, GoneOK, Gone, UnheardOK, AnswersOK, server, store, topics
  <2>3. FeedOK(id)'
    BY <1>1, <2>1 DEF Sound, FeedOK, server, topics
  <2>4. WordOK(id)'
    BY <1>1, <2>1 DEF Sound, WordOK, Current, server, store
  <2> QED
    BY <2>2, <2>3, <2>4 DEF Sound
<1> QED
  BY <1>2, <1>3 DEF IInv

\* The open handler asks for every key that is listened to.
LEMMA OpenedKeeps == ASSUME IInv, Opened PROVE IInv'
<1>1. /\ socket = "connecting" /\ accepted /\ socket' = "open" /\ subscribed' = Listened
      /\ wanted = {} /\ Listened \subseteq Ids
      /\ UNCHANGED <<server, wanted, accepted, down, drops, timer, answers, store, listeners,
                     at, served>>
  BY DEF Opened, Listened, IInv, SocketOK
<1>2. PICK order \in [1..Cardinality(Listened) -> Listened] :
        /\ \A id \in Listened : \E i \in DOMAIN order : order[i] = id
        /\ up' = [i \in DOMAIN order |-> [type |-> "subscribe", id |-> order[i]]]
  BY DEF Opened
<1> DEFINE n == Cardinality(Listened)
<1>3. n \in Nat
  BY <1>1, IdsAreFinite, FS_Subset, FS_CardinalityType
<1> HIDE DEF n
<1>4. /\ up' \in Seq(Asks) /\ Len(up') = n
      /\ \A i \in 1..n : up'[i].type = "subscribe" /\ up'[i].id = order[i]
  <2>1. up' \in [1..n -> Asks]
    BY <1>1, <1>2 DEF Asks, n
  <2>2. up' \in Seq(Asks)
    BY <1>3, <2>1
  <2>3. Len(up') = n
    BY <1>3, <2>1, <2>2
  <2> QED
    BY <1>2, <2>2, <2>3 DEF n
<1>5. \A i, j \in 1..n : order[i] = order[j] => i = j
  <2>1. order \in Surjection(1..n, Listened)
    BY <1>2 DEF Surjection, n
  <2>2. IsFiniteSet(1..n) /\ Cardinality(1..n) = Cardinality(Listened)
    BY <1>3, FS_Interval DEF n
  <2>3. order \in Injection(1..n, Listened)
    BY <2>1, <2>2, FS_SurjSameCardinalityImpliesInj
  <2> QED
    BY <2>3 DEF Injection, IsInjective
<1>6. ASSUME NEW id \in Ids PROVE WillWant(id, wanted', up') <=> id \in Listened
  <2>1. ASSUME WillWant(id, wanted', up') PROVE id \in Listened
    BY <1>1, <1>2, <1>4, <2>1 DEF WillWant, n
  <2>2. ASSUME id \in Listened PROVE WillWant(id, wanted', up')
    <3>1. PICK i \in 1..n : order[i] = id
      BY <1>2, <2>2 DEF n
    <3>2. \A j \in 1..n : order[j] = id => j = i
      BY <1>5, <3>1
    <3> QED
      BY <1>3, <1>4, <3>1, <3>2 DEF WillWant
  <2> QED
    BY <2>1, <2>2
<1>7. Shape'
  BY <1>1, <1>4 DEF IInv, Shape, server, store
<1>8. SocketOK'
  BY <1>1 DEF IInv, SocketOK
<1>9. ASSUME NEW id \in Ids PROVE Sound(id)'
  <2>1. Sound(id)
    BY DEF IInv
  <2>2. GoneOK(id)' /\ AnswersOK(id)'
    BY <1>1, <2>1 DEF Sound, GoneOK, Gone, AnswersOK, server
  <2>3. UnheardOK(id)'
    BY <1>1, <1>6, <2>1 DEF Sound, UnheardOK, server, store, Listened
  <2>4. FeedOK(id)'
    BY <1>1, <1>6 DEF FeedOK, Listened
  <2>5. WordOK(id)'
    BY <1>1, <2>1 DEF Sound, WordOK, Current, server
  <2> QED
    BY <2>2, <2>3, <2>4, <2>5 DEF Sound
<1> QED
  BY <1>7, <1>8, <1>9 DEF IInv

LEMMA ClosedKeeps == ASSUME IInv, Closed PROVE IInv'
<1>1. /\ socket = "closed" /\ socket' = "none" /\ subscribed' = {}
      /\ UNCHANGED <<server, wanted, accepted, up, down, drops, answers, store, listeners, at>>
  BY DEF Closed
<1>2. ~accepted /\ down = <<>> /\ up = <<>> /\ wanted = {}
  BY <1>1 DEF IInv, SocketOK
<1>3. Shape' /\ SocketOK'
  BY <1>1, <1>2 DEF IInv, Shape, SocketOK, server, store
<1>4. \A id \in Ids : GoneOK(id) /\ Forward(id) /\ (Gone(id) => Gone(id)')
  BY <1>1 DEF IInv, Sound, Forward, Gone, server
<1> QED
  BY <1>1, <1>2, <1>3, <1>4, CutOffSound DEF GoneOK, server, store

\* A frame is taken over: what it says is shown when it is the last word.
LEMMA DeliverKeeps == ASSUME IInv, Deliver PROVE IInv'
<1> DEFINE f == Head(down)
           gone == IF f.type = "removed" THEN DOMAIN f.news ELSE {}
<1>1. /\ socket = "open" /\ down # <<>> /\ down \in Seq(Frames) /\ Len(down) \in Nat
      /\ Len(down) > 0 /\ f \in Frames /\ f = down[1] /\ down' = Tail(down)
      /\ down' \in Seq(Frames) /\ Len(down') = Len(down) - 1
      /\ \A i \in 1..(Len(down) - 1) : down'[i] = down[i + 1]
      /\ UNCHANGED <<server, wanted, accepted, socket, up, drops, timer, answers, at>>
  BY AppendTail DEF Deliver, IInv, Shape
<1>2. /\ shown' = IF f.type = "reading" THEN shown ELSE Taking(f.news)
      /\ misled' = IF f.type = "reading" THEN misled
                   ELSE (misled \ DOMAIN f.news) \union
                          {id \in DOMAIN f.news : f.news[id] # None /\ f.news[id].version = 0}
      /\ listeners' = [id \in Ids |-> IF id \in gone THEN {} ELSE listeners[id]]
      /\ subscribed' = subscribed \ gone
  BY DEF Deliver, Apply
<1>3. f.news \in News /\ DOMAIN f.news \subseteq Ids /\ \A id \in DOMAIN f.news : f.news[id] \in Summaries
  BY <1>1, NewsOfSessions DEF Frames
<1> HIDE DEF f, gone
<1>4. \A id \in Ids :
        /\ About(id, f) => shown'[id] = f.news[id]
        /\ ~About(id, f) => shown'[id] = shown[id] /\ (id \in misled' <=> id \in misled)
        /\ About(id, f) /\ Late(f.news[id]) => id \in misled'
  BY <1>2, <1>3, NewsOfSessions DEF About, Taking, Late, None, Summaries
<1>5. Shape'
  <2>1. shown' \in [Ids -> Summaries]
    BY <1>2, <1>3 DEF Taking, IInv, Shape
  <2>2. misled' \subseteq Ids /\ subscribed' \subseteq Ids
    BY <1>2, <1>3 DEF IInv, Shape
  <2>3. listeners' \in [Ids -> SUBSET Panels]
    BY <1>2 DEF IInv, Shape
  <2> QED
    BY <1>1, <2>1, <2>2, <2>3 DEF IInv, Shape, server
<1>6. SocketOK'
  BY <1>1 DEF IInv, SocketOK
<1>7. \A i \in 1..Len(down') : i + 1 \in 1..Len(down) /\ down'[i] = down[i + 1]
  BY <1>1
<1>8. ASSUME NEW id \in Ids PROVE Sound(id)'
  <2>1. Sound(id) /\ 1 \in 1..Len(down)
    BY <1>1 DEF IInv
  <2>2. id \in gone => Gone(id)
    BY <1>1, <2>1 DEF Sound, GoneOK, gone
  <2>3. GoneOK(id)'
    BY <1>1, <1>7, <2>1 DEF Sound, GoneOK, Gone, server
  <2>4. AnswersOK(id)'
    BY <1>1, <2>1 DEF Sound, AnswersOK, server
  <2>5. UnheardOK(id)'
    <3>1. table[id].version = 0 => shown'[id].status = "none"
      BY <1>1, <1>4, <2>1 DEF Sound, UnheardOK, About
    <3> QED
      BY <1>1, <1>2, <1>7, <2>1, <3>1 DEF Sound, UnheardOK, server
  <2>6. FeedOK(id)'
    BY <1>1, <1>2, <2>1, <2>2 DEF Sound, FeedOK, Gone, server
  <2>7. WordOK(id)'
    <3>1. ASSUME NEW i, LastWord(id, down, i)' PROVE Current(id, down[i].news[id])'
      <4>1. LastWord(id, down, i + 1) /\ down'[i] = down[i + 1]
        BY <1>1, <3>1, LastWordInTail DEF LastWord
      <4>2. i + 1 \in 1..Len(down) /\ Current(id, down[i + 1].news[id])
        BY <2>1, <4>1 DEF Sound, WordOK, LastWord
      <4> QED
        BY <1>1, <4>1, <4>2 DEF Current, server
    <3>2. ASSUME Unmentioned(id, down)'
          PROVE  (shown[id] = table[id] \/ closing[id] # "no" \/ id \in misled)'
      <4>1. Unmentioned(id, Tail(down))
        BY <1>1, <3>2 DEF Unmentioned
      <4>2. CASE About(id, f)
        <5>1. LastWord(id, down, 1)
          BY <1>1, <4>1, <4>2, LastWordInTail DEF f
        <5>2. Current(id, f.news[id])
          BY <1>1, <2>1, <5>1 DEF Sound, WordOK
        <5> QED
          BY <1>1, <1>4, <4>2, <5>2 DEF Current, server
      <4>3. CASE ~About(id, f)
        <5>1. Unmentioned(id, down)
          BY <1>1, <4>1, <4>3, LastWordInTail DEF f
        <5> QED
          BY <1>1, <1>4, <2>1, <4>3, <5>1 DEF Sound, WordOK, server
      <4> QED
        BY <4>2, <4>3
    <3> QED
      BY <1>1, <3>1, <3>2 DEF WordOK
  <2> QED
    BY <2>3, <2>4, <2>5, <2>6, <2>7 DEF Sound
<1> QED
  BY <1>5, <1>6, <1>8 DEF IInv

\* An answer that is not older than what is shown is what the server has.
LEMMA AnsweredKeeps ==
  ASSUME IInv, NEW a \in answers, Answered(a)
  PROVE  IInv'
<1>1. /\ a \in News /\ DOMAIN a \subseteq Ids /\ \A id \in DOMAIN a : a[id] \in Summaries
      /\ answers' \subseteq answers /\ shown' = Taking(a)
      /\ misled' = misled \union {id \in DOMAIN a : a[id].version < shown[id].version}
      /\ UNCHANGED <<server, wire, topics>>
  BY NewsOfSessions DEF Answered, IInv, Shape
<1>2. \A id \in Ids : shown'[id] = IF id \in DOMAIN a THEN a[id] ELSE shown[id]
  BY <1>1 DEF Taking
<1>3. Shape'
  <2>1. shown' \in [Ids -> Summaries]
    BY <1>1 DEF Taking, IInv, Shape
  <2>2. misled' \subseteq Ids /\ answers' \subseteq News
    BY <1>1 DEF IInv, Shape
  <2> QED
    BY <1>1, <2>1, <2>2 DEF IInv, Shape, server, wire, topics
<1>4. SocketOK'
  BY <1>1 DEF IInv, SocketOK, wire, topics
<1>5. ASSUME NEW id \in Ids PROVE Sound(id)'
  <2>1. Sound(id) /\ table[id] \in Summaries /\ table[id].version \in Nat
    BY DEF IInv, Shape, Summaries
  <2>2. id \in DOMAIN a => /\ a[id].version \in Nat /\ a[id].version <= table[id].version
                           /\ a[id].version = table[id].version => a[id] = table[id]
    BY <1>1, <2>1 DEF Sound, AnswersOK, Summaries
  <2>3. GoneOK(id)' /\ AnswersOK(id)' /\ FeedOK(id)'
    BY <1>1, <2>1 DEF Sound, GoneOK, Gone, AnswersOK, FeedOK, server, wire, topics
  <2>4. UnheardOK(id)'
    <3>1. table[id].version = 0 => shown'[id].status = "none"
      BY <1>2, <2>1, <2>2 DEF Sound, UnheardOK, GoneOK
    <3> QED
      BY <1>1, <2>1, <3>1 DEF Sound, UnheardOK, server, wire, topics
  <2>5. WordOK(id)'
    <3>1. ASSUME shown[id] = table[id] \/ closing[id] # "no" \/ id \in misled
          PROVE  shown'[id] = table[id] \/ closing[id] # "no" \/ id \in misled'
      BY <1>1, <1>2, <2>1, <2>2, <3>1
    <3> QED
      BY <1>1, <2>1, <3>1 DEF Sound, WordOK, Current, server, wire
  <2> QED
    BY <2>3, <2>4, <2>5 DEF Sound
<1> QED
  BY <1>3, <1>4, <1>5 DEF IInv

\* A panel comes or goes: what the store does to the topics leaves the rest alone.
LEMMA TopicsKeep ==
  ASSUME IInv, NEW id \in Ids,
         UNCHANGED <<server, wanted, accepted, socket, down, drops, timer, answers, store>>,
         up' \in Seq(Asks), socket # "open" => up' = up,
         listeners' \in [Ids -> SUBSET Panels], subscribed' \subseteq Ids,
         socket # "open" => subscribed' \subseteq subscribed,
         at' \in [Panels -> Ids \cup {Nowhere}],
         \A i \in Ids \ {id} : /\ listeners'[i] = listeners[i]
                               /\ i \in subscribed' <=> i \in subscribed
                               /\ WillWant(i, wanted, up') <=> WillWant(i, wanted, up),
         UnheardOK(id)', FeedOK(id)'
  PROVE  IInv'
<1>1. Shape'
  BY DEF IInv, Shape, server, store
<1>2. SocketOK'
  BY DEF IInv, SocketOK
<1>3. ASSUME NEW i \in Ids PROVE Sound(i)'
  <2>1. Sound(i)
    BY DEF IInv
  <2>2. GoneOK(i)' /\ AnswersOK(i)'
    BY <2>1 DEF Sound, GoneOK, Gone, AnswersOK, server
  <2>3. UnheardOK(i)' /\ FeedOK(i)'
    <3>1. CASE i = id
      BY <3>1
    <3>2. CASE i # id
      BY <2>1, <3>2 DEF Sound, UnheardOK, FeedOK, server, store
    <3> QED
      BY <3>1, <3>2
  <2>4. WordOK(i)'
    BY <2>1 DEF Sound, WordOK, Current, server, store
  <2> QED
    BY <2>2, <2>3, <2>4 DEF Sound
<1> QED
  BY <1>1, <1>2, <1>3 DEF IInv

\* send() of one ask, or of nothing.
LEMMA SendOne ==
  ASSUME IInv, NEW type \in {"subscribe", "unsubscribe"}, NEW id \in Ids, NEW ids \in {{id}, {}},
         Send(type, ids)
  PROVE  /\ up' \in Seq(Asks) /\ (socket # "open" => up' = up)
         /\ \A i : WillWant(i, wanted, up') <=>
                     IF i = id /\ ids = {id} /\ socket = "open" THEN type = "subscribe"
                     ELSE WillWant(i, wanted, up)
<1> DEFINE f == [type |-> type, id |-> id]
<1>1. f \in Asks /\ f.type = type /\ f.id = id /\ up \in Seq(Asks)
  BY DEF Asks, IInv, Shape
<1>2. up' = IF socket = "open" /\ ids = {id} THEN Append(up, f) ELSE up
  <2>1. ids = {id} => ids # {} /\ (CHOOSE i \in ids : TRUE) = id
    OBVIOUS
  <2> QED
    BY <2>1 DEF Send
<1> HIDE DEF f
<1>3. \A i : WillWant(i, wanted, Append(up, f)) <=>
               IF f.id = i THEN f.type = "subscribe" ELSE WillWant(i, wanted, up)
  BY <1>1, WantAfterAppend
<1>4. up' \in Seq(Asks)
  BY <1>1, <1>2, AppendTail
<1> QED
  BY <1>1, <1>2, <1>3, <1>4

LEMMA AttachKeeps ==
  ASSUME IInv, NEW p \in Panels, NEW id \in Ids, Attach(p, id)
  PROVE  IInv'
<1> DEFINE ids == {id} \ subscribed
<1>1. /\ shown[id].status # "none" /\ Send("subscribe", ids) /\ ids \in {{id}, {}}
      /\ listeners' = [listeners EXCEPT ![id] = @ \union {p}]
      /\ at' = [at EXCEPT ![p] = id]
      /\ subscribed' = IF socket = "open" THEN subscribed \union {id} ELSE subscribed
      /\ UNCHANGED <<server, wanted, accepted, socket, down, drops, timer, answers, store>>
  BY DEF Attach
<1>2. ids = {id} <=> id \notin subscribed
  OBVIOUS
<1> HIDE DEF ids
<1>3. /\ up' \in Seq(Asks) /\ (socket # "open" => up' = up)
      /\ \A i : WillWant(i, wanted, up') <=>
                  IF i = id /\ ids = {id} /\ socket = "open" THEN TRUE
                  ELSE WillWant(i, wanted, up)
  BY <1>1, SendOne
<1>4. /\ listeners' \in [Ids -> SUBSET Panels] /\ listeners'[id] # {}
      /\ \A i \in Ids \ {id} : listeners'[i] = listeners[i]
      /\ at' \in [Panels -> Ids \cup {Nowhere}] /\ subscribed' \subseteq Ids
  BY <1>1 DEF IInv, Shape
<1>5. Sound(id)
  BY DEF IInv
<1>6. UnheardOK(id)'
  BY <1>1, <1>5 DEF Sound, UnheardOK, server, store
<1>7. FeedOK(id)'
  BY <1>1, <1>2, <1>3, <1>4, <1>5 DEF Sound, FeedOK, server
<1> QED
  BY <1>1, <1>3, <1>4, <1>6, <1>7, TopicsKeep

LEMMA DetachKeeps ==
  ASSUME IInv, NEW p \in Panels, Detach(p)
  PROVE  IInv'
<1>1. PICK id \in Ids : id = at[p]
  BY DEF Detach, IInv, Shape
<1> DEFINE last == listeners[id] = {p}
           ids == IF last THEN {id} \intersect subscribed ELSE {}
<1>2. /\ Send("unsubscribe", ids) /\ ids \in {{id}, {}}
      /\ listeners' = [listeners EXCEPT ![id] = @ \ {p}]
      /\ at' = [at EXCEPT ![p] = Nowhere]
      /\ subscribed' = IF last THEN subscribed \ {id} ELSE subscribed
      /\ UNCHANGED <<server, wanted, accepted, socket, down, drops, timer, answers, store>>
  BY <1>1 DEF Detach
<1>3. ids = {id} <=> last /\ id \in subscribed
  OBVIOUS
<1>4. /\ listeners' \in [Ids -> SUBSET Panels] /\ listeners'[id] = listeners[id] \ {p}
      /\ \A i \in Ids \ {id} : listeners'[i] = listeners[i]
      /\ at' \in [Panels -> Ids \cup {Nowhere}] /\ subscribed' \subseteq Ids
  BY <1>2 DEF IInv, Shape
<1>5. listeners'[id] = {} <=> last \/ listeners[id] = {}
  BY <1>4
<1> HIDE DEF last, ids
<1>6. /\ up' \in Seq(Asks) /\ (socket # "open" => up' = up)
      /\ \A i : WillWant(i, wanted, up') <=>
                  IF i = id /\ ids = {id} /\ socket = "open" THEN FALSE
                  ELSE WillWant(i, wanted, up)
  BY <1>2, SendOne
<1>7. Sound(id) /\ (last => listeners[id] # {})
  BY DEF IInv, last
<1>8. UnheardOK(id)'
  BY <1>2, <1>4, <1>5, <1>6, <1>7 DEF Sound, UnheardOK, server, store
<1>9. FeedOK(id)'
  BY <1>2, <1>3, <1>4, <1>5, <1>6, <1>7 DEF Sound, FeedOK, server
<1> QED
  BY <1>2, <1>4, <1>6, <1>8, <1>9, TopicsKeep

-----------------------------------------------------------------------------

\* The last frame about a session on its way to stores/sessions.ts says what the server
\* has, and the frames on their way to ws.ts make its set what the panels listen to.
THEOREM IInvHolds == Spec => []IInv
<1>1. Init => IInv
  BY InitSound
<1>2. IInv /\ [Next]_vars => IInv'
  <2> SUFFICES ASSUME IInv, [Next]_vars PROVE IInv'
    OBVIOUS
  <2>1. CASE Serve
    <3>1. ASSUME NEW id \in Ids, NEW mine \in BOOLEAN,
                 Open(id, mine) \/ Reconnect(id, mine) \/ Close(id, mine)
          PROVE  IInv'
      BY <3>1, OpenKeeps, ReconnectKeeps, CloseKeeps
    <3>2. ASSUME NEW id \in Ids, Moves(id) \/ CloseEnds(id) \/ LateUpdate(id) \/ Read(id)
          PROVE  IInv'
      BY <3>2, MovesKeeps, CloseEndsKeeps, LateUpdateKeeps, ReadKeeps
    <3> QED
      BY <2>1, <3>1, <3>2, ListKeeps DEF Serve
  <2>2. CASE Carry
    BY <2>2, AcceptKeeps, ReceiveKeeps, DropKeeps, RestartKeeps DEF Carry
  <2>3. CASE Browse
    BY <2>3, ConnectKeeps, OpenedKeeps, ClosedKeeps, DeliverKeeps, AnsweredKeeps,
       AttachKeeps, DetachKeeps DEF Browse
  <2>4. CASE UNCHANGED vars
    <3>1. UNCHANGED <<server, wire, answers, store, topics>>
      BY <2>4 DEF vars
    <3>2. [i \in {} |-> None] \in News
      <4>1. [i \in {} |-> None] \in [{} -> Summaries] /\ {} \in SUBSET Ids
        OBVIOUS
      <4> QED
        BY <4>1 DEF News
    <3> QED
      BY <3>1, <3>2, UnannouncedKeeps
  <2> QED
    BY <2>1, <2>2, <2>3, <2>4 DEF Next
<1> QED
  BY <1>1, <1>2, PTL DEF Spec

\* Every variable of the browser's store, of the socket and of the server's table is of
\* its type.
THEOREM TypeCorrect == Spec => []Shape
<1>1. IInv => Shape
  BY DEF IInv
<1> QED
  BY <1>1, IInvHolds, PTL

\* With the socket open and its frames applied, the map shows each session as the
\* server's table has it, whatever answers to HTTP requests came in between; but for a
\* session being closed, and one that an older answer or a late update spoke of last.
THEOREM TheStoreAgrees == Spec => []StoreAgrees
<1>1. IInv => StoreAgrees
  <2> SUFFICES ASSUME IInv, socket = "open", down = <<>>, NEW id \in Ids
               PROVE  shown[id].status = table[id].status \/ closing[id] # "no" \/ id \in misled
    BY DEF StoreAgrees
  <2>1. Unmentioned(id, down)
    BY DEF Unmentioned
  <2> QED
    BY <2>1 DEF IInv, Sound, WordOK
<1> QED
  BY <1>1, IInvHolds, PTL

\* With the socket open and read, the server polls for the browser exactly the keys that
\* some panel listens to: none twice, none left behind by a panel that has gone, none
\* forgotten by a reconnect.
THEOREM TheFeedsAgree == Spec => []FeedsAgree
<1>1. IInv => FeedsAgree
  <2> SUFFICES ASSUME IInv, socket = "open", up = <<>>, NEW id \in Ids, table[id].status # "none"
               PROVE  id \in wanted <=> listeners[id] # {}
    BY DEF FeedsAgree
  <2>1. WillWant(id, wanted, up) <=> id \in wanted
    BY DEF WillWant
  <2> QED
    BY <2>1 DEF IInv, Sound, FeedOK
<1> QED
  BY <1>1, IInvHolds, PTL
=============================================================================
