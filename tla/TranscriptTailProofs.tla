------------------------ MODULE TranscriptTailProofs ------------------------
(***************************************************************************)
(* A tail gets every entry, once and in order, however many panels, other  *)
(* browsers, connections and entries there are.                            *)
(*                                                                         *)
(* An entry is told apart by its connection and its number there, so the   *)
(* order of recording is known only because no two entries agree in both.  *)
(* And a batch that finds a panel not listening is lost: that takes        *)
(* nothing from a subscribed one, for it has an "unsubscribe" under way.   *)
(***************************************************************************)
EXTENDS TranscriptTail, FiniteSetTheorems, SequenceTheorems, TLAPS

Commands == {"subscribe", "unsubscribe"}

Shape ==
  /\ attempt \in 1..MaxAttempts /\ up \in BOOLEAN /\ removed \in BOOLEAN
  /\ ring \in Seq(Entries) /\ Len(ring) <= RingMax
  /\ recorded \in Seq(Entries) /\ Len(recorded) <= MaxEntries
  /\ pending \in Seq(Entries)
  /\ subscribers \subseteq Panels \cup Others /\ timer \in BOOLEAN
  /\ owed \in [Panels -> SUBSET Entries]
  /\ mounted \subseteq Panels /\ tailing \subseteq mounted
  /\ get \in [Panels -> {"none", "asked", "answered"}]
  /\ page \in [Panels -> SUBSET Entries]
  /\ shown \in [Panels -> SUBSET Entries]
  /\ tails \in [Panels -> 0..MaxTails]
  /\ upstream \in [Panels -> Seq(Commands)]
  /\ downstream \in [Panels -> Seq(Seq(Entries))]
  /\ got \in [Panels -> SUBSET Entries]

\* A connection numbers its entries one after the other.
Of(r, a) == {i \in DOMAIN r : r[i].attempt = a}
Numbered(r) ==
  /\ \A i \in DOMAIN r : r[i].seq <= Cardinality(Of(r, r[i].attempt))
  /\ \A i, j \in DOMAIN r : r[i] = r[j] => i = j

Known(r, e) == \E i \in DOMAIN r : r[i] = e
Before(r, e, f) == \E i, j \in DOMAIN r : i < j /\ r[i] = e /\ r[j] = f

\* A batch is in the order of recording.
InOrder(r, batch) ==
  /\ \A m \in DOMAIN batch : Known(r, batch[m])
  /\ \A m, n \in DOMAIN batch : m < n => Before(r, batch[m], batch[n])

\* All of a batch was recorded before all of the next.
Precedes(r, batch, next) == \A m \in DOMAIN batch, n \in DOMAIN next : Before(r, batch[m], next[n])

\* The batches under way, and the one that waits.
Ordered(r, batches, next) ==
  \A i \in DOMAIN batches :
    /\ InOrder(r, batches[i])
    /\ Precedes(r, batches[i], next)
    /\ \A j \in DOMAIN batches : i < j => Precedes(r, batches[i], batches[j])

\* The last frame that a panel sent is about what it is now.
UpOK(p) ==
  IF upstream[p] = <<>> THEN p \in subscribers => p \in tailing
  ELSE upstream[p][Len(upstream[p])] = "subscribe" <=> p \in tailing

UnderWay(batches) == UNION {SetOf(batches[i]) : i \in DOMAIN batches}

OwedOK(p) ==
  p \in subscribers /\ "unsubscribe" \notin SetOf(upstream[p]) =>
    owed[p] \subseteq SetOf(pending) \cup UnderWay(downstream[p]) \cup got[p]

\* The order holds for every socket, subscribed or not: it may be again while batches
\* of its last subscription are under way.
IInv ==
  /\ Shape
  /\ Numbered(recorded)
  /\ InOrder(recorded, pending)
  /\ \A p \in Panels : Ordered(recorded, downstream[p], pending)
  /\ \A p \in Panels : UpOK(p) /\ OwedOK(p)
-----------------------------------------------------------------------------
(* Sequences *)

LEMMA Appended ==
  ASSUME NEW S, NEW s \in Seq(S), NEW e \in S
  PROVE  /\ Append(s, e) \in Seq(S) /\ Append(s, e) # <<>>
         /\ Len(s) \in Nat /\ Len(Append(s, e)) = Len(s) + 1
         /\ DOMAIN s = 1..Len(s) /\ DOMAIN Append(s, e) = 1..(Len(s) + 1)
         /\ \A i \in 1..Len(s) : Append(s, e)[i] = s[i] /\ s[i] \in S
         /\ Append(s, e)[Len(s) + 1] = e
BY AppendProperties, LenProperties, ElementOfSeq

LEMMA Shortened ==
  ASSUME NEW S, NEW s \in Seq(S), s # <<>>
  PROVE  /\ Head(s) \in S /\ Head(s) = s[1] /\ Tail(s) \in Seq(S)
         /\ Len(s) \in Nat /\ Len(s) > 0 /\ Len(Tail(s)) = Len(s) - 1
         /\ DOMAIN s = 1..Len(s) /\ DOMAIN Tail(s) = 1..(Len(s) - 1)
         /\ \A i \in 1..(Len(s) - 1) : Tail(s)[i] = s[i + 1]
BY HeadTailProperties, LenProperties, EmptySeq

LEMMA NothingThere == DOMAIN <<>> = {} /\ SetOf(<<>>) = {} /\ UnderWay(<<>>) = {}
BY DEF SetOf, UnderWay

LEMMA SetOfAppended ==
  ASSUME NEW S, NEW s \in Seq(S), NEW e \in S
  PROVE  SetOf(Append(s, e)) = SetOf(s) \cup {e}
BY Appended DEF SetOf

LEMMA SetOfTail ==
  ASSUME NEW S, NEW s \in Seq(S), s # <<>>
  PROVE  SetOf(s) = {Head(s)} \cup SetOf(Tail(s))
<1>1. \A i \in DOMAIN s : s[i] = Head(s) \/ (i - 1 \in DOMAIN Tail(s) /\ Tail(s)[i - 1] = s[i])
  BY Shortened
<1>2. \A i \in DOMAIN Tail(s) : i + 1 \in DOMAIN s /\ Tail(s)[i] = s[i + 1]
  BY Shortened
<1>3. 1 \in DOMAIN s /\ Head(s) = s[1]
  BY Shortened
<1> QED
  BY <1>1, <1>2, <1>3 DEF SetOf

LEMMA UnderWayAppended ==
  ASSUME NEW batches \in Seq(Seq(Entries)), NEW batch \in Seq(Entries)
  PROVE  UnderWay(Append(batches, batch)) = UnderWay(batches) \cup SetOf(batch)
<1> DEFINE longer == Append(batches, batch)
<1>1. /\ Len(batches) \in Nat
      /\ DOMAIN batches = 1..Len(batches) /\ DOMAIN longer = 1..(Len(batches) + 1)
      /\ \A i \in 1..Len(batches) : longer[i] = batches[i]
      /\ longer[Len(batches) + 1] = batch
  BY Appended
<1> HIDE DEF longer
<1>2. DOMAIN longer = DOMAIN batches \cup {Len(batches) + 1}
  BY <1>1
<1>3. UnderWay(longer) = UnderWay(batches) \cup SetOf(batch)
  BY <1>1, <1>2 DEF UnderWay
<1> QED
  BY <1>3 DEF longer

LEMMA UnderWayTail ==
  ASSUME NEW batches \in Seq(Seq(Entries)), batches # <<>>
  PROVE  UnderWay(batches) = SetOf(Head(batches)) \cup UnderWay(Tail(batches))
<1>1. \A i \in DOMAIN batches :
        batches[i] = Head(batches) \/ (i - 1 \in DOMAIN Tail(batches) /\ Tail(batches)[i - 1] = batches[i])
  BY Shortened
<1>2. \A i \in DOMAIN Tail(batches) : i + 1 \in DOMAIN batches /\ Tail(batches)[i] = batches[i + 1]
  BY Shortened
<1>3. 1 \in DOMAIN batches /\ Head(batches) = batches[1]
  BY Shortened
<1> QED
  BY <1>1, <1>2, <1>3 DEF UnderWay
-----------------------------------------------------------------------------
(* The order of recording *)

\* What was in order stays so as another entry is recorded, and that one is the last.
LEMMA Recorded ==
  ASSUME NEW r \in Seq(Entries), NEW e \in Entries
  PROVE  /\ Known(Append(r, e), e)
         /\ \A x : Known(r, x) => Known(Append(r, e), x) /\ Before(Append(r, e), x, e)
         /\ \A x, y : Before(r, x, y) => Before(Append(r, e), x, y)
<1> DEFINE l == Append(r, e)
<1>1. /\ Len(r) \in Nat /\ DOMAIN r = 1..Len(r) /\ DOMAIN l = 1..(Len(r) + 1)
      /\ \A i \in 1..Len(r) : l[i] = r[i]
      /\ l[Len(r) + 1] = e
  BY Appended
<1> HIDE DEF l
<1>2. \A i \in DOMAIN r : i \in DOMAIN l /\ l[i] = r[i] /\ i < Len(r) + 1
  BY <1>1
<1>3. Len(r) + 1 \in DOMAIN l
  BY <1>1
<1>4. Known(l, e)
  BY <1>1, <1>3 DEF Known
<1>5. \A x : Known(r, x) => Known(l, x) /\ Before(l, x, e)
  BY <1>1, <1>2, <1>3 DEF Known, Before
<1>6. \A x, y : Before(r, x, y) => Before(l, x, y)
  BY <1>2 DEF Before
<1> QED
  BY <1>4, <1>5, <1>6 DEF l

LEMMA BatchRecorded ==
  ASSUME NEW r \in Seq(Entries), NEW e \in Entries, NEW batch \in Seq(Entries), InOrder(r, batch)
  PROVE  InOrder(Append(r, e), batch) /\ InOrder(Append(r, e), Append(batch, e))
<1> DEFINE l == Append(r, e)
<1>1. InOrder(l, batch)
  BY Recorded DEF InOrder
<1>2. /\ Known(l, e)
      /\ \A m \in DOMAIN batch : Known(l, batch[m]) /\ Before(l, batch[m], e)
      /\ \A m, n \in DOMAIN batch : m < n => Before(l, batch[m], batch[n])
  BY Recorded DEF InOrder
<1> HIDE DEF l
<1> DEFINE longer == Append(batch, e)
<1>3. /\ Len(batch) \in Nat /\ DOMAIN batch = 1..Len(batch) /\ DOMAIN longer = 1..(Len(batch) + 1)
      /\ \A m \in 1..Len(batch) : longer[m] = batch[m]
      /\ longer[Len(batch) + 1] = e
  BY Appended
<1> HIDE DEF longer
<1>4. ASSUME NEW m \in DOMAIN longer PROVE Known(l, longer[m])
  <2>1. m \in DOMAIN batch \/ m = Len(batch) + 1
    BY <1>3
  <2> QED
    BY <1>2, <1>3, <2>1
<1>5. ASSUME NEW m \in DOMAIN longer, NEW n \in DOMAIN longer, m < n
      PROVE  Before(l, longer[m], longer[n])
  <2>1. m \in DOMAIN batch /\ longer[m] = batch[m]
    BY <1>3, <1>5
  <2>2. (n \in DOMAIN batch /\ longer[n] = batch[n]) \/ longer[n] = e
    BY <1>3
  <2> QED
    BY <1>2, <1>5, <2>1, <2>2
<1>6. InOrder(l, longer)
  BY <1>4, <1>5 DEF InOrder
<1> QED
  BY <1>1, <1>6 DEF l, longer

LEMMA OrderedRecorded ==
  ASSUME NEW r \in Seq(Entries), NEW e \in Entries,
         NEW batches \in Seq(Seq(Entries)), NEW next \in Seq(Entries), Ordered(r, batches, next)
  PROVE  Ordered(Append(r, e), batches, Append(next, e))
<1> DEFINE l == Append(r, e)
           longer == Append(next, e)
<1>1. \A i \in DOMAIN batches : batches[i] \in Seq(Entries)
  BY LenProperties
<1>2. /\ Len(next) \in Nat /\ DOMAIN next = 1..Len(next) /\ DOMAIN longer = 1..(Len(next) + 1)
      /\ \A n \in 1..Len(next) : longer[n] = next[n]
      /\ longer[Len(next) + 1] = e
  BY Appended
<1>3. /\ \A x : Known(r, x) => Before(l, x, e)
      /\ \A x, y : Before(r, x, y) => Before(l, x, y)
  BY Recorded
<1>4. ASSUME NEW i \in DOMAIN batches
      PROVE  InOrder(l, batches[i])
  BY <1>1, BatchRecorded DEF Ordered
<1> HIDE DEF l, longer
<1>5. ASSUME NEW i \in DOMAIN batches
      PROVE  Precedes(l, batches[i], longer)
  <2> SUFFICES ASSUME NEW m \in DOMAIN batches[i], NEW n \in DOMAIN longer
               PROVE  Before(l, batches[i][m], longer[n])
    BY DEF Precedes
  <2>1. Known(r, batches[i][m]) /\ \A k \in DOMAIN next : Before(r, batches[i][m], next[k])
    BY DEF Ordered, InOrder, Precedes
  <2>2. (n \in DOMAIN next /\ longer[n] = next[n]) \/ longer[n] = e
    BY <1>2
  <2> QED
    BY <1>3, <2>1, <2>2
<1>6. ASSUME NEW i \in DOMAIN batches, NEW j \in DOMAIN batches, i < j
      PROVE  Precedes(l, batches[i], batches[j])
  BY <1>3, <1>6 DEF Ordered, Precedes
<1> QED
  BY <1>4, <1>5, <1>6 DEF Ordered, l, longer

\* What waits goes out last, and what goes out first is gone.
LEMMA OrderedFlushed ==
  ASSUME NEW r, NEW batches \in Seq(Seq(Entries)), NEW next \in Seq(Entries),
         Ordered(r, batches, next), InOrder(r, next)
  PROVE  Ordered(r, Append(batches, next), <<>>) /\ Ordered(r, batches, <<>>)
<1> DEFINE longer == Append(batches, next)
<1>1. /\ Len(batches) \in Nat
      /\ DOMAIN batches = 1..Len(batches) /\ DOMAIN longer = 1..(Len(batches) + 1)
      /\ \A i \in 1..Len(batches) : longer[i] = batches[i]
      /\ longer[Len(batches) + 1] = next
  BY Appended
<1> HIDE DEF longer
<1>2. \A batch : Precedes(r, batch, <<>>)
  BY NothingThere DEF Precedes
<1>3. ASSUME NEW i \in DOMAIN longer
      PROVE  InOrder(r, longer[i])
  <2>1. (i \in DOMAIN batches /\ longer[i] = batches[i]) \/ longer[i] = next
    BY <1>1
  <2> QED
    BY <2>1 DEF Ordered
<1>4. ASSUME NEW i \in DOMAIN longer, NEW j \in DOMAIN longer, i < j
      PROVE  Precedes(r, longer[i], longer[j])
  <2>1. i \in DOMAIN batches /\ longer[i] = batches[i]
    BY <1>1, <1>4
  <2>2. (j \in DOMAIN batches /\ longer[j] = batches[j]) \/ longer[j] = next
    BY <1>1
  <2> QED
    BY <1>4, <2>1, <2>2 DEF Ordered
<1>5. Ordered(r, longer, <<>>)
  BY <1>2, <1>3, <1>4 DEF Ordered
<1>6. Ordered(r, batches, <<>>)
  BY <1>2 DEF Ordered
<1> QED
  BY <1>5, <1>6 DEF longer

LEMMA OrderedTail ==
  ASSUME NEW r, NEW batches \in Seq(Seq(Entries)), NEW next, batches # <<>>, Ordered(r, batches, next)
  PROVE  Ordered(r, Tail(batches), next)
<1>1. \A i \in DOMAIN Tail(batches) : i \in Nat /\ i + 1 \in DOMAIN batches /\ Tail(batches)[i] = batches[i + 1]
  BY Shortened
<1>2. \A i, j \in DOMAIN Tail(batches) : i < j => i + 1 < j + 1
  BY <1>1
<1> QED
  BY <1>1, <1>2 DEF Ordered

\* No two entries agree in connection and number.
LEMMA NumberedRecorded ==
  ASSUME NEW r \in Seq(Entries), NEW a, NEW e \in Entries, Numbered(r),
         e.attempt = a, e.seq = Cardinality(Of(r, a)) + 1
  PROVE  Numbered(Append(r, e))
<1> DEFINE l == Append(r, e)
<1>1. /\ Len(r) \in Nat /\ DOMAIN r = 1..Len(r) /\ DOMAIN l = 1..(Len(r) + 1)
      /\ \A i \in 1..Len(r) : l[i] = r[i] /\ r[i] \in Entries
      /\ l[Len(r) + 1] = e
  BY Appended
<1> HIDE DEF l
<1>2. \A b : IsFiniteSet(Of(r, b)) /\ Cardinality(Of(r, b)) \in Nat
  <2> TAKE b
  <2>1. IsFiniteSet(1..Len(r))
    BY <1>1, 1 \in Int, Len(r) \in Int, FS_Interval
  <2>2. Of(r, b) \subseteq 1..Len(r)
    BY <1>1 DEF Of
  <2>3. IsFiniteSet(Of(r, b))
    BY <2>1, <2>2, FS_Subset
  <2> QED
    BY <2>3, FS_CardinalityType
<1>3. \A b : b # a => Of(l, b) = Of(r, b)
  BY <1>1 DEF Of
<1>4. Of(l, a) = Of(r, a) \cup {Len(r) + 1} /\ Len(r) + 1 \notin Of(r, a)
  BY <1>1 DEF Of
<1>5. Cardinality(Of(l, a)) = Cardinality(Of(r, a)) + 1
  <2>1. IsFiniteSet(Of(r, a))
    BY <1>2
  <2>2. Cardinality(Of(r, a) \cup {Len(r) + 1}) = Cardinality(Of(r, a)) + 1
    BY <1>4, <2>1, FS_AddElement
  <2> QED
    BY <1>4, <2>2
<1>6. ASSUME NEW i \in DOMAIN l
      PROVE  l[i].seq <= Cardinality(Of(l, l[i].attempt))
  <2>1. CASE i \in DOMAIN r
    <3>1. l[i] = r[i] /\ r[i].seq \in Nat /\ r[i].seq <= Cardinality(Of(r, r[i].attempt))
      BY <1>1, <2>1, NumbersPositive DEF Numbered, Entries
    <3>2. Cardinality(Of(r, r[i].attempt)) <= Cardinality(Of(l, r[i].attempt))
          /\ Cardinality(Of(r, r[i].attempt)) \in Nat
          /\ Cardinality(Of(l, r[i].attempt)) \in Nat
      BY <1>2, <1>3, <1>5
    <3> QED
      BY <3>1, <3>2
  <2>2. CASE i = Len(r) + 1
    BY <1>1, <1>2, <1>5, <2>2
  <2> QED
    BY <1>1, <2>1, <2>2
<1>7. \A i \in DOMAIN r : r[i] # e
  <2> SUFFICES ASSUME NEW i \in DOMAIN r, r[i] = e PROVE FALSE
    OBVIOUS
  <2>1. Cardinality(Of(r, a)) + 1 <= Cardinality(Of(r, a))
    BY DEF Numbered
  <2> QED
    BY <1>2, <2>1
<1>8. ASSUME NEW i \in DOMAIN l, NEW j \in DOMAIN l, l[i] = l[j] PROVE i = j
  <2>1. i \in DOMAIN r \/ i = Len(r) + 1
    BY <1>1
  <2>2. j \in DOMAIN r \/ j = Len(r) + 1
    BY <1>1
  <2> QED
    BY <1>1, <1>7, <1>8, <2>1, <2>2 DEF Numbered
<1> QED
  BY <1>6, <1>8 DEF Numbered, l
-----------------------------------------------------------------------------
(* Types *)

LEMMA NumberFits ==
  ASSUME Shape, Len(recorded) < MaxEntries
  PROVE  /\ [attempt |-> attempt, seq |-> NextSeq] \in Entries
         /\ NextSeq = Cardinality(Of(recorded, attempt)) + 1
<1>1. DOMAIN recorded = 1..Len(recorded) /\ Len(recorded) \in Nat
  BY LenProperties DEF Shape
<1>2. NextSeq = Cardinality(Of(recorded, attempt)) + 1
  BY DEF NextSeq, Of
<1>3. Of(recorded, attempt) \subseteq 1..Len(recorded)
  BY <1>1 DEF Of
<1>4. IsFiniteSet(1..Len(recorded)) /\ Cardinality(1..Len(recorded)) = Len(recorded)
  <2>1. 1 \in Int /\ Len(recorded) \in Int
    BY <1>1
  <2>2. /\ IsFiniteSet(1..Len(recorded))
        /\ Cardinality(1..Len(recorded)) = IF 1 > Len(recorded) THEN 0 ELSE Len(recorded) - 1 + 1
    BY <2>1, FS_Interval
  <2> QED
    BY <1>1, <2>2
<1>5. /\ Cardinality(Of(recorded, attempt)) <= Len(recorded)
      /\ Cardinality(Of(recorded, attempt)) \in Nat
  BY <1>3, <1>4, FS_Subset, FS_CardinalityType
<1>6. NextSeq \in 1..MaxEntries
  BY <1>1, <1>2, <1>5, NumbersPositive
<1> QED
  BY <1>2, <1>6 DEF Shape, Entries

LEMMA SetOfTyped ==
  ASSUME NEW S, NEW s \in Seq(S)
  PROVE  SetOf(s) \subseteq S
BY ElementOfSeq, LenProperties DEF SetOf

LEMMA PushedTyped ==
  ASSUME NEW r \in Seq(Entries), NEW e \in Entries, Len(r) <= RingMax
  PROVE  Pushed(r, e) \in Seq(Entries) /\ Len(Pushed(r, e)) <= RingMax
<1> DEFINE all == Append(r, e)
<1>1. all \in Seq(Entries) /\ all # <<>> /\ Len(all) = Len(r) + 1 /\ Len(r) \in Nat
  BY Appended
<1> HIDE DEF all
<1>2. Tail(all) \in Seq(Entries) /\ Len(Tail(all)) = Len(r)
  BY <1>1, Shortened
<1>3. Pushed(r, e) = IF Len(all) > RingMax THEN Tail(all) ELSE all
  BY DEF Pushed, all
<1> QED
  BY <1>1, <1>2, <1>3, NumbersPositive

LEMMA ServerShape ==
  ASSUME Shape, Record \/ Flush \/ Lose \/ Reconnect \/ Remove
  PROVE  Shape'
<1> USE NumbersPositive
<1>1. CASE Record
  <2> DEFINE e == [attempt |-> attempt, seq |-> NextSeq]
  <2>1. Len(recorded) < MaxEntries /\ e \in Entries
    BY <1>1, NumberFits DEF Record
  <2>2. /\ recorded' = Append(recorded, e) /\ ring' = Pushed(ring, e) /\ pending' = Append(pending, e)
        /\ timer' = (timer \/ subscribers # {})
        /\ owed' = [p \in Panels |-> IF p \in subscribers THEN owed[p] \cup {e} ELSE owed[p]]
        /\ UNCHANGED <<attempt, up, removed, subscribers, panel, upstream, downstream, got>>
    BY <1>1 DEF Record
  <2> HIDE DEF e
  <2>3. /\ recorded' \in Seq(Entries) /\ Len(recorded') <= MaxEntries
        /\ pending' \in Seq(Entries)
    BY <2>1, <2>2, Appended DEF Shape
  <2>4. ring' \in Seq(Entries) /\ Len(ring') <= RingMax
    BY <2>1, <2>2, PushedTyped DEF Shape
  <2>5. owed' \in [Panels -> SUBSET Entries] /\ timer' \in BOOLEAN
    BY <2>1, <2>2 DEF Shape
  <2> QED
    BY <2>2, <2>3, <2>4, <2>5 DEF panel, Shape
<1>2. CASE Flush
  <2>1. downstream' \in [Panels -> Seq(Seq(Entries))]
    <3>1. \A p \in Panels : Append(downstream[p], pending) \in Seq(Seq(Entries))
      BY Appended DEF Shape
    <3> QED
      BY <1>2, <3>1 DEF Flush, Shape
  <2>2. pending' \in Seq(Entries)
    BY <1>2, EmptySeq DEF Flush
  <2> QED
    BY <1>2, <2>1, <2>2 DEF Flush, panel, Shape
<1>3. CASE Lose
  BY <1>3 DEF Lose, panel, Shape
<1>4. CASE Reconnect
  <2>1. ring' \in Seq(Entries) /\ Len(ring') <= RingMax
    BY <1>4, EmptySeq DEF Reconnect
  <2>2. attempt' \in 1..MaxAttempts
    BY <1>4 DEF Reconnect, Shape
  <2> QED
    BY <1>4, <2>1, <2>2 DEF Reconnect, panel, Shape
<1>5. CASE Remove
  <2>1. pending' \in Seq(Entries)
    BY <1>5, EmptySeq DEF Remove
  <2> QED
    BY <1>5, <2>1 DEF Remove, panel, Shape
<1> QED
  BY <1>1, <1>2, <1>3, <1>4, <1>5

LEMMA RouteShape ==
  ASSUME Shape
  PROVE  /\ \A o \in Others : OtherJoins(o) \/ OtherParts(o) => Shape'
         /\ \A p \in Panels : Receive(p) \/ AnswerGet(p) => Shape'
<1>1. ASSUME NEW o \in Others, OtherJoins(o) \/ OtherParts(o) PROVE Shape'
  BY <1>1 DEF OtherJoins, OtherParts, Join, Part, panel, Shape
<1>2. ASSUME NEW p \in Panels, Receive(p) PROVE Shape'
  <2>1. upstream' \in [Panels -> Seq(Commands)]
    <3>1. Tail(upstream[p]) \in Seq(Commands)
      BY <1>2, Shortened DEF Receive, Shape
    <3> QED
      BY <1>2, <3>1 DEF Receive, Shape
  <2>2. subscribers' \subseteq Panels \cup Others /\ timer' \in BOOLEAN /\ pending' = pending
    BY <1>2 DEF Receive, Join, Part, Shape
  <2>3. owed' \in [Panels -> SUBSET Entries]
    BY <1>2 DEF Receive, Shape
  <2> QED
    BY <1>2, <2>1, <2>2, <2>3 DEF Receive, panel, Shape
<1>3. ASSUME NEW p \in Panels, AnswerGet(p) PROVE Shape'
  <2>1. SetOf(ring) \subseteq Entries
    BY SetOfTyped DEF Shape
  <2> QED
    BY <1>3, <2>1 DEF AnswerGet, server, Shape
<1> QED
  BY <1>1, <1>2, <1>3

LEMMA PanelShape ==
  ASSUME Shape, NEW p \in Panels,
         \/ Mount(p) \/ Untail(p) \/ Retail(p) \/ Unmount(p) \/ PageArrives(p) \/ BatchArrives(p)
  PROVE  Shape'
<1> USE NumbersPositive
<1>1. \A c \in Commands : Append(upstream[p], c) \in Seq(Commands)
  BY Appended DEF Shape
<1>2. CASE Mount(p)
  <2>1. upstream' \in [Panels -> Seq(Commands)]
    BY <1>1, <1>2 DEF Mount, Send, Commands, Shape
  <2>2. tails' \in [Panels -> 0..MaxTails]
    BY <1>2 DEF Mount, Shape
  <2> QED
    BY <1>2, <2>1, <2>2 DEF Mount, server, Shape
<1>3. CASE Untail(p)
  <2>1. upstream' \in [Panels -> Seq(Commands)]
    BY <1>1, <1>3 DEF Untail, Send, Commands, Shape
  <2> QED
    BY <1>3, <2>1 DEF Untail, server, Shape
<1>4. CASE Retail(p)
  <2>1. upstream' \in [Panels -> Seq(Commands)]
    BY <1>1, <1>4 DEF Retail, Send, Commands, Shape
  <2>2. tails' \in [Panels -> 0..MaxTails]
    BY <1>4 DEF Retail, Shape
  <2> QED
    BY <1>4, <2>1, <2>2 DEF Retail, server, Shape
<1>5. CASE Unmount(p)
  BY <1>5 DEF Unmount, server, Shape
<1>6. CASE PageArrives(p)
  BY <1>6 DEF PageArrives, server, Shape
<1>7. CASE BatchArrives(p)
  <2> DEFINE batch == Head(downstream[p])
  <2>1. batch \in Seq(Entries) /\ Tail(downstream[p]) \in Seq(Seq(Entries))
    BY <1>7, Shortened DEF BatchArrives, Shape
  <2>2. downstream' \in [Panels -> Seq(Seq(Entries))]
    BY <1>7, <2>1 DEF BatchArrives, Shape
  <2> HIDE DEF batch
  <2>3. SetOf(batch) \subseteq Entries
    BY <2>1, SetOfTyped
  <2>4. Merged(shown[p], batch) \subseteq Entries
    BY <2>3 DEF Merged, SetOf, Shape
  <2>5. /\ shown' = [shown EXCEPT ![p] = Merged(@, batch)] \/ shown' = shown
        /\ got' = [got EXCEPT ![p] = @ \cup SetOf(batch)] \/ got' = got
    BY <1>7 DEF BatchArrives, batch
  <2>6. shown' \in [Panels -> SUBSET Entries] /\ got' \in [Panels -> SUBSET Entries]
    BY <2>3, <2>4, <2>5 DEF Shape
  <2> QED
    BY <1>7, <2>2, <2>6 DEF BatchArrives, server, Shape
<1> QED
  BY <1>2, <1>3, <1>4, <1>5, <1>6, <1>7
-----------------------------------------------------------------------------
(* The steps *)

\* Steps that touch neither what is recorded, waits and is under way nor who listens.
LEMMA Elsewhere ==
  ASSUME IInv, Shape', UNCHANGED <<recorded, pending, upstream, downstream, owed, got, tailing>>,
         \A p \in Panels : p \in subscribers' <=> p \in subscribers
  PROVE  IInv'
BY DEF IInv, UpOK, OwedOK

LEMMA RecordKeeps ==
  ASSUME IInv, Record
  PROVE  IInv'
<1> DEFINE e == [attempt |-> attempt, seq |-> NextSeq]
<1>1. /\ recorded' = Append(recorded, e) /\ pending' = Append(pending, e)
      /\ owed' = [p \in Panels |-> IF p \in subscribers THEN owed[p] \cup {e} ELSE owed[p]]
      /\ UNCHANGED <<subscribers, tailing, upstream, downstream, got>>
  BY DEF Record, panel
<1>2. /\ e \in Entries /\ e.attempt = attempt /\ e.seq = Cardinality(Of(recorded, attempt)) + 1
  BY NumberFits DEF IInv, Record
<1>3. /\ recorded \in Seq(Entries) /\ pending \in Seq(Entries)
      /\ \A p \in Panels : downstream[p] \in Seq(Seq(Entries))
  BY DEF IInv, Shape
<1> HIDE DEF e
<1>4. Numbered(recorded')
  BY <1>1, <1>2, <1>3, NumberedRecorded DEF IInv
<1>5. InOrder(recorded', pending')
  BY <1>1, <1>2, <1>3, BatchRecorded DEF IInv
<1>6. ASSUME NEW p \in Panels PROVE Ordered(recorded', downstream'[p], pending')
  BY <1>1, <1>2, <1>3, OrderedRecorded DEF IInv
<1>7. SetOf(pending') = SetOf(pending) \cup {e}
  BY <1>1, <1>2, <1>3, SetOfAppended
<1>8. ASSUME NEW p \in Panels PROVE UpOK(p)' /\ OwedOK(p)'
  <2>1. UpOK(p) /\ OwedOK(p)
    BY DEF IInv
  <2> QED
    BY <1>1, <1>7, <2>1 DEF UpOK, OwedOK
<1>9. Shape'
  BY ServerShape DEF IInv
<1> QED
  BY <1>4, <1>5, <1>6, <1>8, <1>9 DEF IInv

\* What waits goes to everybody who is subscribed.
LEMMA FlushKeeps ==
  ASSUME IInv, Flush
  PROVE  IInv'
<1>1. /\ pending' = <<>>
      /\ \A p \in Panels : downstream'[p] = IF p \in subscribers /\ pending # <<>>
                                           THEN Append(downstream[p], pending) ELSE downstream[p]
      /\ UNCHANGED <<recorded, subscribers, tailing, upstream, owed, got>>
  BY DEF Flush, panel
<1>2. /\ pending \in Seq(Entries)
      /\ \A p \in Panels : downstream[p] \in Seq(Seq(Entries))
  BY DEF IInv, Shape
<1>3. InOrder(recorded', pending')
  BY <1>1, NothingThere DEF InOrder
<1>4. ASSUME NEW p \in Panels PROVE Ordered(recorded', downstream'[p], pending')
  <2>1. Ordered(recorded, Append(downstream[p], pending), <<>>) /\ Ordered(recorded, downstream[p], <<>>)
    BY <1>2, OrderedFlushed DEF IInv
  <2> QED
    BY <1>1, <2>1
<1>5. ASSUME NEW p \in Panels PROVE UpOK(p)' /\ OwedOK(p)'
  <2>1. UpOK(p) /\ OwedOK(p)
    BY DEF IInv
  <2>2. UnderWay(Append(downstream[p], pending)) = UnderWay(downstream[p]) \cup SetOf(pending)
    BY <1>2, UnderWayAppended
  <2>3. p \in subscribers => SetOf(pending) \cup UnderWay(downstream[p]) \subseteq UnderWay(downstream'[p])
    BY <1>1, <2>2, NothingThere
  <2> QED
    BY <1>1, <2>1, <2>3 DEF UpOK, OwedOK
<1>6. Shape'
  BY ServerShape DEF IInv
<1> QED
  BY <1>1, <1>3, <1>4, <1>5, <1>6 DEF IInv

LEMMA RemoveKeeps ==
  ASSUME IInv, Remove
  PROVE  IInv'
<1>1. /\ pending' = <<>> /\ subscribers' = {}
      /\ UNCHANGED <<recorded, tailing, upstream, downstream, got>>
  BY DEF Remove, panel
<1>2. InOrder(recorded', pending')
  BY <1>1, NothingThere DEF InOrder
<1>3. ASSUME NEW p \in Panels PROVE Ordered(recorded', downstream'[p], pending')
  BY <1>1, OrderedFlushed DEF IInv, Shape
<1>4. ASSUME NEW p \in Panels PROVE UpOK(p)' /\ OwedOK(p)'
  BY <1>1 DEF IInv, UpOK, OwedOK
<1>5. Shape'
  BY ServerShape DEF IInv
<1> QED
  BY <1>1, <1>2, <1>3, <1>4, <1>5 DEF IInv

\* The last frame that is read makes the socket what the panel is.
LEMMA ReceiveKeeps ==
  ASSUME IInv, NEW p \in Panels, Receive(p)
  PROVE  IInv'
<1> DEFINE sent == upstream[p]
<1>1. /\ sent \in Seq(Commands) /\ sent # <<>>
      /\ upstream' = [upstream EXCEPT ![p] = Tail(sent)]
      /\ subscribers' = IF Head(sent) = "subscribe" THEN subscribers \cup {p} ELSE subscribers \ {p}
      /\ owed' = [owed EXCEPT ![p] = {}]
      /\ UNCHANGED <<recorded, pending, downstream, tailing, got>>
  BY DEF IInv, Shape, Receive, Join, Part, panel
<1>2. /\ Head(sent) \in Commands /\ Head(sent) = sent[1] /\ Tail(sent) \in Seq(Commands)
      /\ Len(sent) \in Nat /\ Len(sent) > 0 /\ Len(Tail(sent)) = Len(sent) - 1
      /\ \A i \in 1..(Len(sent) - 1) : Tail(sent)[i] = sent[i + 1]
  BY <1>1, Shortened
<1>3. upstream'[p] = Tail(sent) /\ owed'[p] = {}
  BY <1>1 DEF IInv, Shape
<1>4. \A q \in Panels \ {p} : upstream'[q] = upstream[q] /\ owed'[q] = owed[q]
                             /\ (q \in subscribers' <=> q \in subscribers)
  BY <1>1 DEF IInv, Shape
<1>5. sent[Len(sent)] = "subscribe" <=> p \in tailing
  BY <1>1 DEF IInv, UpOK
<1> HIDE DEF sent
<1>6. UpOK(p)'
  <2>1. CASE Tail(sent) = <<>>
    <3>1. Len(sent) = 1
      <4>1. Len(<<>>) = 0
        OBVIOUS
      <4> QED
        BY <1>2, <2>1, <4>1
    <3> QED
      BY <1>1, <1>2, <1>3, <1>5, <2>1, <3>1 DEF UpOK
  <2>2. CASE Tail(sent) # <<>>
    <3>1. Len(Tail(sent)) \in Nat \ {0}
      BY <1>2, <2>2, EmptySeq
    <3>2. Tail(sent)[Len(Tail(sent))] = sent[Len(sent)]
      BY <1>2, <3>1
    <3> QED
      BY <1>1, <1>3, <1>5, <2>2, <3>2 DEF UpOK
  <2> QED
    BY <2>1, <2>2
<1>7. OwedOK(p)'
  BY <1>3 DEF OwedOK
<1>8. ASSUME NEW q \in Panels, q # p PROVE UpOK(q)' /\ OwedOK(q)'
  <2>1. UpOK(q) /\ OwedOK(q)
    BY DEF IInv
  <2> QED
    BY <1>1, <1>4, <1>8, <2>1 DEF UpOK, OwedOK
<1>9. Shape'
  BY RouteShape DEF IInv
<1> QED
  BY <1>1, <1>6, <1>7, <1>8, <1>9 DEF IInv

\* A panel sends a frame as it begins or ceases to listen.
LEMMA SendKeeps ==
  ASSUME IInv, NEW p \in Panels, Mount(p) \/ Untail(p) \/ Retail(p)
  PROVE  IInv'
<1>1. PICK frame \in Commands :
        /\ upstream' = [upstream EXCEPT ![p] = Append(@, frame)]
        /\ frame = "subscribe" <=> p \in tailing'
        /\ p \notin tailing' => got' = [got EXCEPT ![p] = {}]
        /\ p \in tailing' => got' = got /\ p \notin tailing
        /\ \A q \in Panels \ {p} : q \in tailing' <=> q \in tailing
  <2>1. CASE Mount(p)
    <3>1. p \notin tailing
      BY <2>1 DEF Mount, IInv, Shape
    <3> QED
      BY <2>1, <3>1 DEF Mount, Send, Commands
  <2>2. CASE Untail(p)
    BY <2>2 DEF Untail, Send, Commands
  <2>3. CASE Retail(p)
    BY <2>3 DEF Retail, Send, Commands
  <2> QED
    BY <2>1, <2>2, <2>3
<1>2. UNCHANGED <<recorded, pending, subscribers, downstream, owed>>
  BY DEF Mount, Untail, Retail, server
<1> DEFINE sent == upstream[p]
<1>3. /\ upstream'[p] = Append(sent, frame) /\ Append(sent, frame) # <<>>
      /\ Append(sent, frame)[Len(Append(sent, frame))] = frame
      /\ SetOf(Append(sent, frame)) = SetOf(sent) \cup {frame}
  <2>1. sent \in Seq(Commands) /\ upstream'[p] = Append(sent, frame)
    BY <1>1 DEF IInv, Shape
  <2> HIDE DEF sent
  <2>2. /\ Append(sent, frame) # <<>> /\ Len(Append(sent, frame)) = Len(sent) + 1
        /\ Append(sent, frame)[Len(sent) + 1] = frame
    BY <2>1, Appended
  <2>3. SetOf(Append(sent, frame)) = SetOf(sent) \cup {frame}
    BY <2>1, SetOfAppended
  <2> QED
    BY <2>1, <2>2, <2>3
<1>4. UpOK(p)'
  BY <1>1, <1>3 DEF UpOK
<1>5. OwedOK(p)'
  <2>1. OwedOK(p)
    BY DEF IInv
  <2>2. CASE frame = "unsubscribe"
    BY <1>3, <2>2 DEF OwedOK
  <2>3. CASE frame = "subscribe"
    BY <1>1, <1>2, <1>3, <2>1, <2>3 DEF OwedOK
  <2> QED
    BY <2>2, <2>3 DEF Commands
<1>6. ASSUME NEW q \in Panels, q # p PROVE UpOK(q)' /\ OwedOK(q)'
  <2>1. UpOK(q) /\ OwedOK(q)
    BY DEF IInv
  <2>2. upstream'[q] = upstream[q] /\ got'[q] = got[q]
    BY <1>1, <1>6 DEF IInv, Shape
  <2> QED
    BY <1>1, <1>2, <1>6, <2>1, <2>2 DEF UpOK, OwedOK
<1>7. Shape'
  BY PanelShape DEF IInv
<1> QED
  BY <1>2, <1>4, <1>5, <1>6, <1>7 DEF IInv

\* A batch that finds the panel not listening is lost, and by then the socket is
\* leaving.
LEMMA BatchKeeps ==
  ASSUME IInv, NEW p \in Panels, BatchArrives(p)
  PROVE  IInv'
<1> DEFINE batches == downstream[p]
<1>1. /\ batches \in Seq(Seq(Entries)) /\ batches # <<>>
      /\ downstream' = [downstream EXCEPT ![p] = Tail(batches)]
      /\ p \in tailing => got' = [got EXCEPT ![p] = @ \cup SetOf(Head(batches))]
      /\ p \notin tailing => got' = got
      /\ UNCHANGED <<recorded, pending, subscribers, tailing, upstream, owed>>
  BY DEF IInv, Shape, BatchArrives, server
<1>2. downstream'[p] = Tail(batches) /\ \A q \in Panels \ {p} : downstream'[q] = downstream[q]
  BY <1>1 DEF IInv, Shape
<1>3. \A q \in Panels \ {p} : got'[q] = got[q]
  BY <1>1 DEF IInv, Shape
<1>4. p \in tailing => got'[p] = got[p] \cup SetOf(Head(batches))
  BY <1>1 DEF IInv, Shape
<1>5. UnderWay(batches) = SetOf(Head(batches)) \cup UnderWay(Tail(batches))
  BY <1>1, UnderWayTail
<1>6. p \notin tailing => p \notin subscribers \/ "unsubscribe" \in SetOf(upstream[p])
  <2> SUFFICES ASSUME p \notin tailing, p \in subscribers PROVE "unsubscribe" \in SetOf(upstream[p])
    OBVIOUS
  <2>1. upstream[p] \in Seq(Commands) /\ upstream[p] # <<>> /\ upstream[p][Len(upstream[p])] # "subscribe"
    BY DEF IInv, Shape, UpOK
  <2>2. Len(upstream[p]) \in DOMAIN upstream[p] /\ upstream[p][Len(upstream[p])] \in Commands
    BY <2>1, LenProperties, EmptySeq, ElementOfSeq
  <2> QED
    BY <2>1, <2>2 DEF Commands, SetOf
<1>7. Ordered(recorded, Tail(batches), pending)
  BY <1>1, OrderedTail DEF IInv
<1>8. ASSUME NEW q \in Panels PROVE Ordered(recorded', downstream'[q], pending')
  BY <1>1, <1>2, <1>7 DEF IInv
<1> HIDE DEF batches
<1>9. ASSUME NEW q \in Panels PROVE UpOK(q)' /\ OwedOK(q)'
  <2>1. UpOK(q) /\ OwedOK(q)
    BY DEF IInv
  <2>2. UpOK(q)'
    BY <1>1, <2>1 DEF UpOK
  <2>3. CASE q # p
    BY <1>1, <1>2, <1>3, <2>1, <2>2, <2>3 DEF OwedOK
  <2>4. CASE q = p
    BY <1>1, <1>2, <1>4, <1>5, <1>6, <2>1, <2>2, <2>4 DEF OwedOK, batches
  <2> QED
    BY <2>3, <2>4
<1>10. Shape'
  BY PanelShape DEF IInv
<1> QED
  BY <1>1, <1>8, <1>9, <1>10 DEF IInv

LEMMA NextKeeps == IInv /\ [Next]_vars => IInv'
<1> SUFFICES ASSUME IInv, [Next]_vars PROVE IInv'
  OBVIOUS
<1>1. CASE Record \/ Flush \/ Remove
  BY <1>1, RecordKeeps, FlushKeeps, RemoveKeeps
<1>2. CASE Lose \/ Reconnect
  <2>1. Shape'
    BY <1>2, ServerShape DEF IInv
  <2> QED
    BY <1>2, <2>1, Elsewhere DEF Lose, Reconnect, panel
<1>3. ASSUME NEW o \in Others, OtherJoins(o) \/ OtherParts(o) PROVE IInv'
  <2>1. Shape'
    BY <1>3, RouteShape DEF IInv
  <2>2. \A p \in Panels : p \in subscribers' <=> p \in subscribers
    BY <1>3, SocketsDisjoint DEF OtherJoins, OtherParts, Join, Part
  <2>3. UNCHANGED <<recorded, pending, upstream, downstream, owed, got, tailing>>
    BY <1>3 DEF OtherJoins, OtherParts, Join, Part, panel
  <2> QED
    BY <2>1, <2>2, <2>3, Elsewhere
<1>4. ASSUME NEW p \in Panels, AnswerGet(p) PROVE IInv'
  <2>1. Shape'
    BY <1>4, RouteShape DEF IInv
  <2> QED
    BY <1>4, <2>1, Elsewhere DEF AnswerGet, server
<1>5. ASSUME NEW p \in Panels, Unmount(p) \/ PageArrives(p) PROVE IInv'
  <2>1. Shape'
    BY <1>5, PanelShape DEF IInv
  <2> QED
    BY <1>5, <2>1, Elsewhere DEF Unmount, PageArrives, server
<1>6. ASSUME NEW p \in Panels,
             Receive(p) \/ Mount(p) \/ Untail(p) \/ Retail(p) \/ BatchArrives(p)
      PROVE  IInv'
  BY <1>6, ReceiveKeeps, SendKeeps, BatchKeeps
<1>7. CASE UNCHANGED vars
  BY <1>7 DEF vars, server, panel, IInv, Shape, UpOK, OwedOK
<1> QED
  BY <1>1, <1>2, <1>3, <1>4, <1>5, <1>6, <1>7 DEF Next

LEMMA InitiallyIInv == Init => IInv
<1> SUFFICES ASSUME Init PROVE IInv
  OBVIOUS
<1> USE NothingThere, NumbersPositive
<1>1. Shape
  <2>1. Len(<<>>) = 0 /\ \A S : <<>> \in Seq(S)
    BY EmptySeq
  <2>2. /\ ring \in Seq(Entries) /\ Len(ring) <= RingMax
        /\ recorded \in Seq(Entries) /\ Len(recorded) <= MaxEntries
        /\ pending \in Seq(Entries)
    BY <2>1 DEF Init
  <2>3. /\ upstream \in [Panels -> Seq(Commands)]
        /\ downstream \in [Panels -> Seq(Seq(Entries))]
    BY <2>1 DEF Init
  <2>4. attempt \in 1..MaxAttempts /\ tails \in [Panels -> 0..MaxTails]
    BY DEF Init
  <2>5. /\ owed \in [Panels -> SUBSET Entries] /\ page \in [Panels -> SUBSET Entries]
        /\ shown \in [Panels -> SUBSET Entries] /\ got \in [Panels -> SUBSET Entries]
        /\ get \in [Panels -> {"none", "asked", "answered"}]
    BY DEF Init
  <2>6. /\ up \in BOOLEAN /\ removed \in BOOLEAN /\ timer \in BOOLEAN
        /\ subscribers \subseteq Panels \cup Others
        /\ mounted \subseteq Panels /\ tailing \subseteq mounted
    BY DEF Init
  <2> QED
    BY <2>2, <2>3, <2>4, <2>5, <2>6 DEF Shape
<1>2. Numbered(recorded) /\ InOrder(recorded, pending)
  BY DEF Init, Numbered, InOrder
<1>3. ASSUME NEW p \in Panels
      PROVE  Ordered(recorded, downstream[p], pending) /\ UpOK(p) /\ OwedOK(p)
  BY DEF Init, Ordered, UpOK, OwedOK
<1> QED
  BY <1>1, <1>2, <1>3 DEF IInv
-----------------------------------------------------------------------------
(* Theorems *)

\* However recording, flushes, subscriptions, pauses, reconnects and removal interleave,
\* ring-buffers.ts and observability-scheduler.ts keep what is under way in order, and
\* what a socket is owed waiting, under way or arrived.
THEOREM IInvHolds == Spec => []IInv
<1> QED
  BY InitiallyIInv, NextKeeps, PTL DEF Spec

\* The ring never outgrows #transcriptRingMax, and every variable has its type.
THEOREM TypeCorrect == Spec => []Shape
<1>1. IInv => Shape
  BY DEF IInv
<1> QED
  BY <1>1, IInvHolds, PTL

\* The batches of #scheduleTranscriptFlush reach a panel in the order of recording, each
\* entry once, although leaving stops the timer and what is pending stays.
THEOREM TailIsInOrder == Spec => []BatchesInOrder
<1>1. IInv => BatchesInOrder
  <2> SUFFICES ASSUME IInv, NEW p \in Panels,
                      NEW i \in DOMAIN Line(p), NEW j \in DOMAIN Line(p),
                      NEW m \in DOMAIN Line(p)[i], NEW n \in DOMAIN Line(p)[j],
                      i < j \/ (i = j /\ m < n)
               PROVE  Position(Line(p)[i][m]) < Position(Line(p)[j][n])
    BY DEF BatchesInOrder
  <2> DEFINE batches == downstream[p]
  <2>1. batches \in Seq(Seq(Entries)) /\ pending \in Seq(Entries) /\ recorded \in Seq(Entries)
    BY DEF IInv, Shape
  <2>2. Ordered(recorded, batches, pending) /\ InOrder(recorded, pending)
    BY DEF IInv
  <2>3. /\ Len(batches) \in Nat
        /\ DOMAIN batches = 1..Len(batches) /\ DOMAIN Line(p) = 1..(Len(batches) + 1)
        /\ \A k \in 1..Len(batches) : Line(p)[k] = batches[k]
        /\ Line(p)[Len(batches) + 1] = pending
    BY <2>1, Appended DEF Line
  <2> HIDE DEF batches
  <2>4. Before(recorded, Line(p)[i][m], Line(p)[j][n])
    <3>1. CASE i = j
      <4>1. InOrder(recorded, Line(p)[i])
        <5>1. (i \in DOMAIN batches /\ Line(p)[i] = batches[i]) \/ Line(p)[i] = pending
          BY <2>3
        <5> QED
          BY <2>2, <5>1 DEF Ordered
      <4>2. m < n
        BY <2>3, <3>1
      <4> QED
        BY <3>1, <4>1, <4>2 DEF InOrder
    <3>2. CASE i < j
      <4>1. i \in DOMAIN batches /\ Line(p)[i] = batches[i]
        BY <2>3, <3>2
      <4>2. (j \in DOMAIN batches /\ Line(p)[j] = batches[j]) \/ Line(p)[j] = pending
        BY <2>3
      <4>3. Precedes(recorded, Line(p)[i], Line(p)[j])
        BY <2>2, <3>2, <4>1, <4>2 DEF Ordered
      <4> QED
        BY <4>3 DEF Precedes
    <3> QED
      BY <3>1, <3>2
  <2>5. \A k \in DOMAIN recorded : Position(recorded[k]) = k
    BY DEF Position, IInv, Numbered
  <2> QED
    BY <2>4, <2>5 DEF Before
<1> QED
  BY <1>1, IInvHolds, PTL

\* Nothing that was recorded since a socket subscribed is taken from it by a flush, by
\* another socket that leaves, or by batches that reach the page while it is paused.
THEOREM TailIsComplete == Spec => []NothingLostToTail
<1>1. IInv => NothingLostToTail
  <2> SUFFICES ASSUME IInv, NEW p \in subscribers \cap tailing, "unsubscribe" \notin SetOf(upstream[p])
               PROVE  owed[p] \subseteq (UNION {SetOf(Line(p)[i]) : i \in DOMAIN Line(p)}) \cup got[p]
    BY DEF NothingLostToTail
  <2>1. p \in Panels
    BY DEF IInv, Shape
  <2>2. UnderWay(Line(p)) = UnderWay(downstream[p]) \cup SetOf(pending)
    BY <2>1, UnderWayAppended DEF Line, IInv, Shape
  <2>3. OwedOK(p)
    BY <2>1 DEF IInv
  <2> QED
    BY <2>2, <2>3 DEF OwedOK, UnderWay
<1> QED
  BY <1>1, IInvHolds, PTL
=============================================================================
