----------------------------- MODULE SyncProofs -----------------------------
(***************************************************************************)
(* Sync for any number of envelopes, drafts, connections and faults: an    *)
(* ack follows the write, no number is told twice, and no hole is silent.  *)
(***************************************************************************)
EXTENDS Sync, SequenceTheorems, FiniteSetTheorems, TLAPS

USE DEF store, tables, server, wires, engine, ghosts

-----------------------------------------------------------------------------
(* The queue of events                                                      *)

\* What is cut off a queue, or taken from it, adds nothing to it.
LEMMA Shortened ==
  ASSUME NEW s \in Seq(Events), NEW t,
         \/ t = <<>>
         \/ s # <<>> /\ t = Tail(s)
         \/ \E k \in 0 .. Len(s) : t = SubSeq(s, 1, k)
  PROVE  t \in Seq(Events) /\ Range(t) \subseteq Range(s)
<1>1. CASE t = <<>> BY <1>1 DEF Range
<1>2. CASE s # <<>> /\ t = Tail(s)
  <2>1. t \in Seq(Events) /\ Len(t) = Len(s) - 1 /\ \A i \in 1 .. Len(t) : t[i] = s[i + 1]
    BY <1>2, HeadTailProperties
  <2>2. Len(s) \in Nat /\ DOMAIN t = 1 .. Len(t) /\ DOMAIN s = 1 .. Len(s)
    BY <2>1, LenProperties
  <2> QED BY <2>1, <2>2 DEF Range
<1>3. ASSUME NEW k \in 0 .. Len(s), t = SubSeq(s, 1, k)
      PROVE  t \in Seq(Events) /\ Range(t) \subseteq Range(s)
  <2>1. Len(s) \in Nat /\ DOMAIN s = 1 .. Len(s) BY LenProperties
  <2>2. k \in Int /\ 1 \in Int /\ k - 1 + 1 = k /\ \A i \in 1 .. k : s[i] \in Events
    BY <2>1, ElementOfSeq
  <2>3. /\ SubSeq(s, 1, k) \in Seq(Events)
        /\ Len(SubSeq(s, 1, k)) = IF 1 <= k THEN k - 1 + 1 ELSE 0
        /\ \A i \in 1 .. k - 1 + 1 : SubSeq(s, 1, k)[i] = s[1 + i - 1]
    BY ONLY <2>2, SubSeqProperties
  <2>4. t \in Seq(Events) /\ Len(t) = k /\ \A i \in 1 .. k : t[i] = s[i]
    <3> DEFINE u == SubSeq(s, 1, k)
    <3>1. \A i \in 1 .. k : 1 + i - 1 = i BY <2>2
    <3>2. k \in Nat BY <2>1
    <3> HIDE DEF u
    <3>3. u \in Seq(Events) /\ Len(u) = k /\ \A i \in 1 .. k : u[i] = s[i]
      BY <2>2, <2>3, <3>1, <3>2 DEF u
    <3> QED BY <1>3, <3>3 DEF u
  <2>5. DOMAIN t = 1 .. k BY <2>4, LenProperties
  <2>6. \A i \in DOMAIN t : i \in DOMAIN s /\ t[i] = s[i]
    <3>1. \A i \in 1 .. k : i \in 1 .. Len(s) BY <2>1
    <3> QED BY <2>1, <2>4, <2>5, <3>1, Zenon
  <2> QED BY <2>4, <2>6 DEF Range
<1> QED BY <1>1, <1>2, <1>3

\* What is appended is all that is new.
LEMMA Lengthened ==
  ASSUME NEW S, NEW s \in Seq(S), NEW e \in S
  PROVE  /\ Append(s, e) \in Seq(S)
         /\ Range(Append(s, e)) = Range(s) \cup {e}
<1> DEFINE t == Append(s, e)
<1>1. /\ t \in Seq(S) /\ Len(t) = Len(s) + 1
      /\ \A i \in 1 .. Len(s) : t[i] = s[i]
      /\ t[Len(s) + 1] = e
  BY AppendProperties
<1>2. Len(s) \in Nat /\ DOMAIN t = 1 .. Len(t) /\ DOMAIN s = 1 .. Len(s)
  BY <1>1, LenProperties
<1> HIDE DEF t
<1>3. Range(t) \subseteq Range(s) \cup {e} BY <1>1, <1>2 DEF Range
<1>4. Range(s) \subseteq Range(t) BY <1>1, <1>2 DEF Range
<1>5. e \in Range(t)
  <2>1. Len(s) + 1 \in DOMAIN t BY <1>1, <1>2
  <2> QED BY <1>1, <2>1 DEF Range
<1> QED BY <1>1, <1>3, <1>4, <1>5 DEF t

\* The first event of a queue is one of its events.
LEMMA FirstOf ==
  ASSUME NEW s \in Seq(Events), s # <<>>
  PROVE  Head(s) \in Events /\ Head(s) \in Range(s)
<1>1. Len(s) \in Nat \ {0} /\ DOMAIN s = 1 .. Len(s) BY LenProperties, EmptySeq
<1>2. Head(s) = s[1] /\ 1 \in DOMAIN s BY <1>1
<1> QED BY <1>2, HeadTailProperties DEF Range

\* An event for an envelope names it.
LEMMA DeliverEvents ==
  /\ \A i \in Ids : Deliver(i) \in Events
  /\ Connect("connect") \in Events /\ Connect("dormancy") \in Events
  /\ \A i \in Ids : Deliver(i) # Connect("connect") /\ Deliver(i) # Connect("dormancy")
  /\ \A i, j \in Ids : Deliver(i) = Deliver(j) => i = j
  /\ \A e \in Events : e.kind = "deliver" => e.id \in Ids /\ e = Deliver(e.id)
  /\ \A e \in Events : e.id \in Ids => e = Deliver(e.id)
BY StoreBounds DEF Deliver, Connect, Events, Ids

-----------------------------------------------------------------------------
(* The connect events in a queue                                            *)

\* They are finitely many, and none in an empty queue.
LEMMA ConnectsFinite ==
  ASSUME NEW s \in Seq(Events)
  PROVE  IsFiniteSet(ConnectsIn(s)) /\ Cardinality(ConnectsIn(s)) \in Nat
<1>1. Len(s) \in Nat /\ DOMAIN s = 1 .. Len(s) BY LenProperties
<1>2. IsFiniteSet(1 .. Len(s)) BY <1>1, FS_Interval
<1>3. ConnectsIn(s) \in SUBSET (1 .. Len(s)) BY <1>1 DEF ConnectsIn
<1> QED BY <1>2, <1>3, FS_Subset, FS_CardinalityType

\* An event that is appended adds itself.
LEMMA ConnectsLengthened ==
  ASSUME NEW s \in Seq(Events), NEW e \in Events
  PROVE  Cardinality(ConnectsIn(Append(s, e))) =
           Cardinality(ConnectsIn(s)) + (IF e = Connect("connect") THEN 1 ELSE 0)
<1> DEFINE t == Append(s, e)  n == Len(s)
<1>1. t \in Seq(Events) /\ Len(t) = n + 1 /\ t[n + 1] = e /\ \A i \in 1 .. n : t[i] = s[i]
  BY AppendProperties
<1>2. n \in Nat /\ DOMAIN t = 1 .. n + 1 /\ DOMAIN s = 1 .. n
  BY <1>1, LenProperties
<1> HIDE DEF t, n
<1>3. n + 1 \notin ConnectsIn(s) BY <1>2 DEF ConnectsIn
<1>4. CASE e = Connect("connect")
  <2>1. ConnectsIn(t) = ConnectsIn(s) \cup {n + 1} BY <1>1, <1>2, <1>4 DEF ConnectsIn
  <2> QED BY <1>3, <1>4, <2>1, ConnectsFinite, FS_AddElement DEF t
<1>5. CASE e # Connect("connect")
  <2>1. ConnectsIn(t) = ConnectsIn(s) BY <1>1, <1>2, <1>5 DEF ConnectsIn
  <2> QED BY <1>5, <2>1, ConnectsFinite DEF t
<1> QED BY <1>4, <1>5

\* The first event is taken off with itself alone.
LEMMA ConnectsTaken ==
  ASSUME NEW s \in Seq(Events), s # <<>>
  PROVE  Cardinality(ConnectsIn(s)) =
           Cardinality(ConnectsIn(Tail(s))) + (IF Head(s) = Connect("connect") THEN 1 ELSE 0)
<1> DEFINE t == Tail(s)  n == Len(s)  C == ConnectsIn(s)  D == ConnectsIn(t)
           f == [k \in D |-> k + 1]
<1>1. t \in Seq(Events) /\ Len(t) = n - 1 /\ \A i \in 1 .. Len(t) : t[i] = s[i + 1]
  BY HeadTailProperties
<1>2. n \in Nat \ {0} /\ DOMAIN t = 1 .. n - 1 /\ DOMAIN s = 1 .. n /\ Head(s) = s[1]
  BY <1>1, LenProperties, EmptySeq
<1>3. IsFiniteSet(C) /\ IsFiniteSet(D) /\ Cardinality(C) \in Nat /\ Cardinality(D) \in Nat
  BY <1>1, ConnectsFinite
<1>4. C \subseteq 1 .. n /\ D \subseteq 1 .. n - 1 BY <1>2 DEF ConnectsIn
<1>5. \A k \in 1 .. n - 1 : k \in D <=> k + 1 \in C
  BY <1>1, <1>2 DEF ConnectsIn
<1>6. 1 \in C <=> Head(s) = Connect("connect") BY <1>2 DEF ConnectsIn
<1> HIDE DEF C, D, n
<1>7. f \in Bijection(D, C \ {1})
  <2>1. f \in [D -> C \ {1}] BY <1>2, <1>4, <1>5
  <2>2. \A a, b \in D : f[a] = f[b] => a = b BY <1>2, <1>4
  <2>3. \A c \in C \ {1} : \E a \in D : f[a] = c
    <3> TAKE c \in C \ {1}
    <3>1. c - 1 \in 1 .. n - 1 /\ c - 1 + 1 = c BY <1>2, <1>4
    <3>2. c - 1 \in D BY <1>5, <3>1
    <3> QED BY <3>1, <3>2
  <2> QED BY <2>1, <2>2, <2>3 DEF Bijection, Injection, Surjection, IsInjective
<1>8. Cardinality(C \ {1}) = Cardinality(D)
  <2>1. ExistsBijection(D, C \ {1}) BY <1>7 DEF ExistsBijection
  <2> QED BY <1>3, <2>1, FS_Bijection
<1>9. Cardinality(C \ {1}) = IF 1 \in C THEN Cardinality(C) - 1 ELSE Cardinality(C)
  BY <1>3, FS_RemoveElement
<1>10. Cardinality(C) = Cardinality(D) + (IF Head(s) = Connect("connect") THEN 1 ELSE 0)
  BY <1>3, <1>6, <1>8, <1>9
<1> QED BY <1>10 DEF C, D

\* What is left of a queue that is cut off has no more of them.
LEMMA ConnectsCut ==
  ASSUME NEW s \in Seq(Events), NEW t,
         t = <<>> \/ \E k \in 0 .. Len(s) : t = SubSeq(s, 1, k)
  PROVE  Cardinality(ConnectsIn(t)) <= Cardinality(ConnectsIn(s))
<1>1. t \in Seq(Events) BY Shortened
<1>2. Len(s) \in Nat /\ DOMAIN s = 1 .. Len(s) /\ DOMAIN t = 1 .. Len(t) /\ Len(t) \in Nat
  BY <1>1, LenProperties
<1>3. ConnectsIn(t) \subseteq ConnectsIn(s)
  <2>1. CASE t = <<>> BY <2>1 DEF ConnectsIn
  <2>2. ASSUME NEW k \in 0 .. Len(s), t = SubSeq(s, 1, k)
        PROVE  ConnectsIn(t) \subseteq ConnectsIn(s)
    <3>1. Len(t) = k /\ \A i \in 1 .. k : t[i] = s[i] BY <1>2, <2>2
    <3> QED BY <1>2, <3>1 DEF ConnectsIn
  <2> QED BY <2>1, <2>2
<1> QED BY <1>3, ConnectsFinite, FS_Subset

-----------------------------------------------------------------------------
(* The timeline                                                             *)

\* A message is no gap, and names its number.
LEMMA EntryShapes ==
  /\ \A i \in Ids : Message(i) \in Entries
  /\ \A i, j \in Ids : Gap(i, j) \in Entries /\ \A n \in Ids : Gap(i, j) # Message(n)
  /\ \A i, j \in Ids : Message(i) = Message(j) => i = j
  /\ Marker("history_start") \in Entries /\ Marker("dormancy_return") \in Entries
  /\ \A n \in Ids : /\ Marker("history_start") # Message(n)
                   /\ Marker("dormancy_return") # Message(n)
  /\ \A e \in Entries : e.from \in Nat /\ e.to \in Nat
<1>1. Ids \subseteq Nat BY StoreBounds DEF Ids
<1>2. \A i, j \in Ids : Gap(i, j) \in Entries BY DEF Entries
<1>3. \A i, j, n \in Ids : Gap(i, j) # Message(n) BY DEF Gap, Message
<1>4. \A i, j \in Ids : Message(i) = Message(j) => i = j BY DEF Message
<1>5. \A n \in Ids : /\ Marker("history_start") # Message(n)
                    /\ Marker("dormancy_return") # Message(n)
  BY DEF Marker, Message
<1>6. \A e \in Entries : e.from \in Nat /\ e.to \in Nat
  BY <1>1 DEF Entries, Message, Gap, Marker
<1> QED BY <1>2, <1>3, <1>4, <1>5, <1>6 DEF Entries

\* Advancing appends the message, and a marker before it unless nothing is missing.
LEMMA AdvanceAppends ==
  ASSUME Types, TimelineBelow, NEW i \in Ids, cursor < i, Advance(i)
  PROVE  /\ cursor' = i
         /\ timeline' \in Seq(Entries)
         /\ \A k \in 1 .. Len(timeline) : timeline'[k] = timeline[k]
         /\ \/ /\ i = cursor + 1 /\ cursor # 0
               /\ Len(timeline') = Len(timeline) + 1
               /\ timeline'[Len(timeline) + 1] = Message(i)
            \/ /\ Len(timeline') = Len(timeline) + 2
               /\ timeline'[Len(timeline) + 2] = Message(i)
               /\ timeline'[Len(timeline) + 1] =
                    IF cursor = 0 THEN Marker("history_start") ELSE Gap(cursor + 1, i - 1)
               /\ cursor # 0 => cursor + 1 \in Ids /\ i - 1 \in Ids /\ cursor + 1 <= i - 1
<1> DEFINE n == Len(timeline)  m == Markers(i)  e == m[1]
<1>1. cursor \in Nat /\ i \in Nat /\ timeline \in Seq(Entries) /\ MaxSeq \in Nat
  BY StoreBounds DEF Types, Ids
<1>2. n \in Nat BY <1>1, LenProperties
<1>3. CASE cursor # 0 /\ i = cursor + 1
  <2>1. m = <<>> BY <1>1, <1>3 DEF Markers
  <2>2. timeline' = Append(timeline, Message(i))
    BY <1>1, <2>1, ConcatEmptySeq DEF Advance
  <2>3. /\ timeline' \in Seq(Entries) /\ Len(timeline') = n + 1
        /\ timeline'[n + 1] = Message(i)
        /\ \A k \in 1 .. n : timeline'[k] = timeline[k]
    BY <1>1, <2>2, EntryShapes, AppendProperties
  <2> QED BY <1>3, <2>3 DEF Advance
<1>4. CASE ~ (cursor # 0 /\ i = cursor + 1)
  <2>1. cursor # 0 => cursor + 1 \in Ids /\ i - 1 \in Ids /\ cursor + 1 <= i - 1
    BY <1>1, <1>4 DEF Ids
  <2>2. m = <<IF cursor = 0 THEN Marker("history_start") ELSE Gap(cursor + 1, i - 1)>>
    BY <1>1, <1>4 DEF Markers
  <2>3. e = (IF cursor = 0 THEN Marker("history_start") ELSE Gap(cursor + 1, i - 1))
        /\ e \in Entries /\ m = <<e>>
    BY <2>1, <2>2, EntryShapes
  <2> HIDE DEF e, m
  <2>4. /\ timeline \o m \in Seq(Entries) /\ Len(timeline \o m) = n + 1
        /\ (timeline \o m)[n + 1] = e
        /\ \A k \in 1 .. n : (timeline \o m)[k] = timeline[k]
    <3>1. timeline \o m = Append(timeline, e) BY <1>1, <2>3, AppendIsConcat
    <3> QED BY <1>1, <2>3, <3>1, AppendProperties
  <2> DEFINE u == timeline \o m
  <2>5. timeline' = Append(u, Message(i)) /\ cursor' = i BY DEF Advance, m
  <2> HIDE DEF u
  <2>6. u \in Seq(Entries) /\ Len(u) = n + 1 BY <2>4 DEF u
  <2>7. /\ timeline' \in Seq(Entries) /\ Len(timeline') = (n + 1) + 1
        /\ timeline'[(n + 1) + 1] = Message(i)
        /\ \A k \in 1 .. n + 1 : timeline'[k] = u[k]
    BY <2>5, <2>6, EntryShapes, AppendProperties
  <2>8. \A k \in 1 .. n : timeline'[k] = timeline[k]
    BY <1>2, <2>4, <2>7 DEF u
  <2>9. timeline'[n + 1] = e BY <1>2, <2>4, <2>7 DEF u
  <2>10. Len(timeline') = n + 2 /\ timeline'[n + 2] = Message(i) BY <1>2, <2>7
  <2> QED BY <2>1, <2>3, <2>5, <2>7, <2>8, <2>9, <2>10
<1> QED BY <1>3, <1>4
\* What a step may do to the timeline and the cursor.
StoreStep ==
  \/ UNCHANGED <<cursor, timeline>>
  \/ \E i \in Ids : cursor < i /\ Advance(i)
  \/ /\ cursor # 0 /\ cursor' = cursor
     /\ timeline' = Append(timeline, Marker("dormancy_return"))
  \/ \E i \in Ids :
       /\ i <= cursor /\ cursor' = cursor
       /\ origin[i] # 0 /\ Message(i) \notin Range(timeline)
       /\ timeline' = Append(timeline, Message(i))

\* The origin of a number is settled when the cursor has reached it.
OriginsSettled == \A i \in Ids : i <= cursor => origin'[i] = origin[i]

\* A timeline that is extended tells nothing twice if no new entry does.
LEMMA ToldOnceExtends ==
  ASSUME Types, TimelineBelow, ToldOnce, OriginsSettled,
         timeline' \in Seq(Entries),
         Len(timeline) <= Len(timeline'),
         \A k \in 1 .. Len(timeline) : timeline'[k] = timeline[k],
         \A k \in Len(timeline) + 1 .. Len(timeline') : \A j \in 1 .. k - 1 :
           Covers(timeline'[j]) \cap Covers(timeline'[k]) = {} \/ OwnLate(j, k)'
  PROVE  ToldOnce'
<1> SUFFICES ASSUME NEW j \in DOMAIN timeline', NEW k \in DOMAIN timeline', j < k,
                    Covers(timeline'[j]) \cap Covers(timeline'[k]) # {}
             PROVE  OwnLate(j, k)'
  BY DEF ToldOnce, Covers
<1>1. timeline \in Seq(Entries) BY DEF Types
<1>2. Len(timeline) \in Nat /\ DOMAIN timeline = 1 .. Len(timeline)
  BY <1>1, LenProperties
<1>3. Len(timeline') \in Nat /\ DOMAIN timeline' = 1 .. Len(timeline') BY LenProperties
<1>4. j \in Nat /\ k \in 1 .. Len(timeline') /\ j \in 1 .. k - 1 BY <1>3
<1>5. CASE k > Len(timeline)
  <2>1. k \in Len(timeline) + 1 .. Len(timeline') BY <1>2, <1>3, <1>4, <1>5
  <2> QED BY <1>4, <2>1
<1>6. CASE k <= Len(timeline)
  <2>1. j \in DOMAIN timeline /\ k \in DOMAIN timeline BY <1>2, <1>4, <1>6
  <2>2. timeline'[j] = timeline[j] /\ timeline'[k] = timeline[k] BY <1>2, <2>1
  <2>3. OwnLate(j, k) BY <2>1, <2>2 DEF ToldOnce
  <2>4. timeline[k] \in Entries /\ timeline[k].to <= cursor
    BY <1>1, <1>2, <2>1, ElementOfSeq DEF TimelineBelow
  <2>5. timeline[k].from \in Ids /\ timeline[k].from = timeline[k].to
    BY <2>3, <2>4 DEF OwnLate, Entries, Message, Gap, Marker
  <2>6. origin'[timeline[k].from] = origin[timeline[k].from]
    BY <2>4, <2>5 DEF OriginsSettled
  <2> QED BY <2>2, <2>3, <2>6 DEF OwnLate
<1> QED BY <1>2, <1>3, <1>4, <1>5, <1>6

\* A number that is told in a timeline is told in what extends it.
LEMMA KnownExtends ==
  ASSUME Types, timeline' \in Seq(Entries),
         Len(timeline) <= Len(timeline'),
         \A k \in 1 .. Len(timeline) : timeline'[k] = timeline[k],
         NEW i, Known(i)
  PROVE  Known(i)'
<1>1. timeline \in Seq(Entries) BY DEF Types
<1>2. /\ Len(timeline) \in Nat /\ DOMAIN timeline = 1 .. Len(timeline)
      /\ Len(timeline') \in Nat /\ DOMAIN timeline' = 1 .. Len(timeline')
  BY <1>1, LenProperties
<1>3. PICK k \in DOMAIN timeline :
        timeline[k].kind \in {"message", "gap"} /\ i \in timeline[k].from .. timeline[k].to
  BY DEF Known, Range
<1>4. k \in DOMAIN timeline' /\ timeline'[k] = timeline[k] BY <1>2
<1> QED BY <1>3, <1>4 DEF Known, Range

LEMMA StoreInv ==
  ASSUME Types, TimelineBelow, NoSilentHole, ToldOnce, OriginsSettled, StoreStep
  PROVE  timeline' \in Seq(Entries) /\ TimelineBelow' /\ NoSilentHole' /\ ToldOnce'
<1> DEFINE n == Len(timeline)
<1>1. timeline \in Seq(Entries) /\ cursor \in Nat BY StoreBounds DEF Types
<1>2. n \in Nat /\ DOMAIN timeline = 1 .. n BY <1>1, LenProperties
<1>3. \A k \in 1 .. n : timeline[k] \in Entries /\ timeline[k].to <= cursor
  BY <1>1, <1>2, ElementOfSeq DEF TimelineBelow
<1>4. \A k \in 1 .. n : timeline[k].to \in Nat /\ timeline[k].from \in Nat
  BY <1>3, EntryShapes
<1>5. CASE UNCHANGED <<cursor, timeline>>
  <2>1. ToldOnce' BY <1>1, <1>2, <1>5, ToldOnceExtends
  <2> QED BY <1>1, <1>5, <2>1 DEF TimelineBelow, NoSilentHole, Known
<1>6. ASSUME NEW i \in Ids, cursor < i, Advance(i)
      PROVE  timeline' \in Seq(Entries) /\ TimelineBelow' /\ NoSilentHole' /\ ToldOnce'
  <2>1. /\ cursor' = i
        /\ timeline' \in Seq(Entries)
        /\ \A k \in 1 .. n : timeline'[k] = timeline[k]
        /\ \/ /\ i = cursor + 1 /\ cursor # 0
              /\ Len(timeline') = n + 1
              /\ timeline'[n + 1] = Message(i)
           \/ /\ Len(timeline') = n + 2
              /\ timeline'[n + 2] = Message(i)
              /\ timeline'[n + 1] =
                   IF cursor = 0 THEN Marker("history_start") ELSE Gap(cursor + 1, i - 1)
              /\ cursor # 0 => cursor + 1 \in Ids /\ i - 1 \in Ids /\ cursor + 1 <= i - 1
    BY <1>6, AdvanceAppends
  <2> DEFINE m == Len(timeline')
  <2>2. i \in Nat /\ m \in Nat /\ DOMAIN timeline' = 1 .. m
    BY <2>1, LenProperties, StoreBounds DEF Ids
  <2>3. cursor' = i /\ timeline' \in Seq(Entries) BY <2>1
  <2>4. \A k \in 1 .. n : timeline'[k] = timeline[k] BY <2>1
  <2>5. timeline'[m] = Message(i) BY <2>1
  <2>6. \/ m = n + 1 /\ i = cursor + 1 /\ cursor # 0
        \/ m = n + 2 /\ cursor = 0 /\ timeline'[n + 1] = Marker("history_start")
        \/ m = n + 2 /\ cursor # 0 /\ timeline'[n + 1] = Gap(cursor + 1, i - 1)
    BY <2>1
  <2> HIDE DEF m, n
  <2>7. \A k \in 1 .. m - 1 :
          timeline'[k] \in Entries /\ timeline'[k].to \in Nat /\ timeline'[k].to < i
    <3> TAKE k \in 1 .. m - 1
    <3>1. timeline'[k] \in Entries /\ timeline'[k].to \in Nat
      BY <2>2, <2>3, ElementOfSeq, EntryShapes DEF m
    <3>2. CASE k \in 1 .. n
      <4>1. timeline'[k].to <= cursor BY <1>3, <2>4, <3>2
      <4> QED BY <1>1, <1>6, <2>2, <3>1, <4>1
    <3>3. CASE k \notin 1 .. n
      <4>1. m = n + 2 /\ k = n + 1 BY <1>2, <2>2, <2>6, <3>3
      <4>2. timeline'[k] = Marker("history_start") \/ timeline'[k] = Gap(cursor + 1, i - 1)
        BY <1>2, <2>6, <4>1
      <4>3. timeline'[k].to = 0 \/ timeline'[k].to = i - 1 BY <4>2 DEF Marker, Gap
      <4> QED BY <1>1, <1>6, <2>2, <3>1, <4>3
    <3> QED BY <3>2, <3>3
  <2>8. \A k \in n + 1 .. m : \A j \in 1 .. k - 1 :
          Covers(timeline'[j]) \cap Covers(timeline'[k]) = {}
    <3> SUFFICES ASSUME NEW k \in n + 1 .. m, NEW j \in 1 .. k - 1,
                        NEW x \in Covers(timeline'[j]), x \in Covers(timeline'[k])
                 PROVE  FALSE
      OBVIOUS
    <3>1. j \in 1 .. m - 1 /\ k \in 1 .. m BY <1>2, <2>2
    <3>2. /\ timeline'[j] \in Entries /\ timeline'[j].from \in Nat /\ timeline'[j].to \in Nat
          /\ timeline'[j].to < i
      BY <2>7, <3>1, EntryShapes
    <3>3. x \in Nat /\ x <= timeline'[j].to BY <3>2 DEF Covers
    <3>4. CASE k = m
      <4>1. timeline'[k].from = i /\ timeline'[k].to = i BY <2>5, <3>4 DEF Message
      <4> QED BY <2>2, <3>2, <3>3, <4>1 DEF Covers
    <3>5. CASE k # m
      <4>1. m = n + 2 /\ k = n + 1 /\ j \in 1 .. n BY <1>2, <2>2, <2>6, <3>1, <3>5
      <4>2. timeline'[j].to <= cursor BY <1>3, <2>4, <4>1
      <4>3. timeline'[k] = Marker("history_start") \/ timeline'[k] = Gap(cursor + 1, i - 1)
        BY <1>2, <2>6, <4>1
      <4>4. \/ timeline'[k].from = 1 /\ timeline'[k].to = 0
            \/ timeline'[k].from = cursor + 1 /\ timeline'[k].to = i - 1
        BY <4>3 DEF Marker, Gap
      <4> QED BY <1>1, <2>2, <3>2, <3>3, <4>2, <4>4 DEF Covers
    <3> QED BY <3>4, <3>5
  <2>9. Len(timeline) <= Len(timeline')
    <3>1. n <= m BY <1>2, <2>2, <2>6
    <3> QED BY <3>1 DEF m, n
  <2>10. ToldOnce'
    <3>1. \A k \in Len(timeline) + 1 .. Len(timeline') : \A j \in 1 .. k - 1 :
            Covers(timeline'[j]) \cap Covers(timeline'[k]) = {}
      BY <2>8 DEF m, n
    <3>2. \A k \in 1 .. Len(timeline) : timeline'[k] = timeline[k] BY <2>4 DEF n
    <3> QED BY <2>3, <2>9, <3>1, <3>2, ToldOnceExtends
  <2>11. TimelineBelow'
    <3>1. m >= 2
      <4>1. cursor # 0 => n >= 2 BY DEF TimelineBelow, n
      <4> QED BY <1>2, <2>2, <2>6, <4>1
    <3>2. \A k \in 1 .. m : timeline'[k].to <= i
      <4> TAKE k \in 1 .. m
      <4>1. CASE k = m BY <2>2, <2>5, <4>1 DEF Message
      <4>2. CASE k # m
        <5>1. k \in 1 .. m - 1 BY <2>2, <4>2
        <5> QED BY <2>2, <2>7, <5>1
      <4> QED BY <4>1, <4>2
    <3>3. i # 0 BY <1>1, <1>6, <2>2
    <3> QED BY <2>2, <2>3, <3>1, <3>2, <3>3 DEF TimelineBelow, m
  <2>12. NoSilentHole'
    <3> SUFFICES ASSUME NEW x \in timeline'[2].from .. i PROVE Known(x)'
      BY <2>3 DEF NoSilentHole
    <3>1. Known(i)'
      <4>1. m \in DOMAIN timeline'
        <5>1. 1 <= m BY <1>2, <2>2, <2>6
        <5> QED BY <2>2, <5>1
      <4>2. timeline'[m].kind = "message" /\ timeline'[m].from = i /\ timeline'[m].to = i
        BY <2>5 DEF Message
      <4> QED BY <2>2, <4>1, <4>2 DEF Known, Range
    <3>2. CASE cursor = 0
      <4>1. n = 0 BY <3>2 DEF TimelineBelow, n
      <4>2. timeline'[2] = Message(i) BY <1>1, <2>5, <2>6, <3>2, <4>1
      <4>3. x = i BY <2>2, <4>2 DEF Message
      <4> QED BY <3>1, <4>3
    <3>3. CASE cursor # 0
      <4>1. n >= 2 BY <3>3 DEF TimelineBelow, n
      <4>2. timeline'[2] = timeline[2] /\ timeline[2].from \in Nat BY <1>2, <1>4, <2>4, <4>1
      <4>3. x \in Nat /\ timeline[2].from <= x /\ x <= i BY <2>2, <4>2
      <4>4. CASE x <= cursor
        <5>1. x \in timeline[2].from .. cursor BY <1>1, <4>2, <4>3, <4>4
        <5>2. Known(x) BY <3>3, <5>1 DEF NoSilentHole
        <5>3. \A k \in 1 .. Len(timeline) : timeline'[k] = timeline[k] BY <2>4 DEF n
        <5> QED BY <2>3, <2>9, <5>2, <5>3, KnownExtends
      <4>5. CASE x > cursor /\ x # i
        <5>1. x \in cursor + 1 .. i - 1 /\ i # cursor + 1 BY <1>1, <2>2, <4>3, <4>5
        <5>2. m = n + 2 /\ timeline'[n + 1] = Gap(cursor + 1, i - 1) BY <2>6, <3>3, <5>1
        <5>3. n + 1 \in DOMAIN timeline' BY <1>2, <2>2, <5>2
        <5>4. Gap(cursor + 1, i - 1) \in Range(timeline') BY <5>2, <5>3 DEF Range
        <5> QED BY <5>1, <5>4 DEF Known, Gap
      <4> QED BY <1>1, <3>1, <4>3, <4>4, <4>5
    <3> QED BY <3>2, <3>3
  <2> QED BY <2>3, <2>10, <2>11, <2>12
<1>7. ASSUME NEW e \in Entries, cursor # 0, cursor' = cursor, e.to <= cursor,
             timeline' = Append(timeline, e),
             \A j \in 1 .. n :
               \/ Covers(timeline[j]) \cap Covers(e) = {}
               \/ timeline[j].kind = "gap" /\ e.kind = "message" /\ origin'[e.from] # 0
      PROVE  timeline' \in Seq(Entries) /\ TimelineBelow' /\ NoSilentHole' /\ ToldOnce'
  <2>1. /\ timeline' \in Seq(Entries) /\ Len(timeline') = n + 1
        /\ timeline'[n + 1] = e /\ \A k \in 1 .. n : timeline'[k] = timeline[k]
    BY <1>1, <1>7, AppendProperties
  <2>2. DOMAIN timeline' = 1 .. n + 1 BY <2>1, LenProperties
  <2>3. TimelineBelow' BY <1>2, <1>3, <1>7, <2>1, <2>2 DEF TimelineBelow
  <2>4. \A k \in n + 1 .. Len(timeline') : \A j \in 1 .. k - 1 :
          Covers(timeline'[j]) \cap Covers(timeline'[k]) = {} \/ OwnLate(j, k)'
    <3> SUFFICES ASSUME NEW k \in n + 1 .. Len(timeline'), NEW j \in 1 .. k - 1
                 PROVE  Covers(timeline'[j]) \cap Covers(timeline'[k]) = {} \/ OwnLate(j, k)'
      OBVIOUS
    <3>1. k = n + 1 /\ j \in 1 .. n BY <1>2, <2>1
    <3>2. timeline'[j] = timeline[j] /\ timeline'[k] = e BY <2>1, <3>1
    <3> QED BY <1>7, <3>1, <3>2 DEF OwnLate
  <2>5. Len(timeline) <= Len(timeline') BY <1>2, <2>1
  <2>6. ToldOnce' BY <2>1, <2>4, <2>5, ToldOnceExtends
  <2>7. NoSilentHole'
    <3>1. timeline'[2] = timeline[2] BY <1>2, <1>7, <2>1 DEF TimelineBelow
    <3>2. \A x \in timeline[2].from .. cursor : Known(x) BY <1>7 DEF NoSilentHole
    <3>3. \A x \in timeline[2].from .. cursor : Known(x)'
      BY <2>1, <2>5, <3>2, KnownExtends
    <3> QED BY <1>7, <3>1, <3>3 DEF NoSilentHole
  <2> QED BY <2>1, <2>3, <2>6, <2>7
<1>8. CASE /\ cursor # 0 /\ cursor' = cursor
           /\ timeline' = Append(timeline, Marker("dormancy_return"))
  <2>1. Marker("dormancy_return").to <= cursor BY <1>1 DEF Marker
  <2>2. Covers(Marker("dormancy_return")) = {} BY DEF Covers, Marker
  <2> QED BY <1>7, <1>8, <2>1, <2>2, EntryShapes
<1>9. ASSUME NEW i \in Ids, i <= cursor, cursor' = cursor, origin[i] # 0,
             Message(i) \notin Range(timeline), timeline' = Append(timeline, Message(i))
      PROVE  timeline' \in Seq(Entries) /\ TimelineBelow' /\ NoSilentHole' /\ ToldOnce'
  <2>1. cursor # 0 /\ Message(i).to <= cursor BY <1>1, <1>9 DEF Ids, Message
  <2>2. ASSUME NEW j \in 1 .. n
        PROVE  \/ Covers(timeline[j]) \cap Covers(Message(i)) = {}
               \/ /\ timeline[j].kind = "gap" /\ Message(i).kind = "message"
                  /\ origin'[Message(i).from] # 0
    <3>1. timeline[j] # Message(i) BY <1>2, <1>9 DEF Range
    <3>2. CASE timeline[j].kind = "gap" BY <1>9, <3>2 DEF OriginsSettled, Message
    <3>3. CASE timeline[j].kind = "message"
      <4>1. PICK x \in Ids : timeline[j] = Message(x)
        BY <1>3, <3>3 DEF Entries, Gap, Marker
      <4> QED BY <3>1, <4>1 DEF Covers, Message, Ids
    <3>4. CASE timeline[j].kind \notin {"gap", "message"}
      <4>1. timeline[j].from = 1 /\ timeline[j].to = 0
        BY <1>3, <3>4 DEF Entries, Gap, Marker, Message
      <4> QED BY <4>1 DEF Covers
    <3> QED BY <3>2, <3>3, <3>4
  <2> QED BY <1>7, <1>9, <2>1, <2>2, EntryShapes
<1> QED BY <1>5, <1>6, <1>8, <1>9 DEF StoreStep
-----------------------------------------------------------------------------
(* What is on its way                                                       *)

\* Nothing has been sent, and nobody waits.
LEMMA InitInv == Init => Types /\ IInv
<1> SUFFICES ASSUME Init PROVE Types /\ IInv OBVIOUS
<1> USE DEF Init, StoreInit
<1>1. Types
  <2>1. timeline \in Seq(Entries) /\ inbox \in Seq(Events) BY EmptySeq
  <2>2. /\ 0 \in 0 .. MaxSeq /\ 0 \in 0 .. 0
        /\ 0 \in 0 .. MaxConnects /\ 0 \in 0 .. MaxFaults
    BY StoreBounds, SyncBounds
  <2> QED BY <2>1, <2>2 DEF Types
<1>2. Range(inbox) = {} BY DEF Range
<1>3. OthersCome BY <1>2, StoreBounds DEF OthersCome, InFlight, Ids
<1>4. DOMAIN timeline = {} OBVIOUS
<1>5. TimelineBelow /\ ToldOnce BY <1>4 DEF TimelineBelow, ToldOnce
<1>6. RepliesAreNew /\ AcksPassed /\ NoSilentHole /\ AckFollowsWrite
  BY DEF RepliesAreNew, AcksPassed, NoSilentHole, AckFollowsWrite
<1>7. TaskKeeps /\ NothingMissed BY DEF TaskKeeps, NothingMissed
<1>8. SendsCounted
  <2>1. ConnectsIn(inbox) = {} BY DEF ConnectsIn
  <2>2. Flushes = 0 BY <2>1, FS_EmptySet DEF Flushes
  <2> QED BY <2>2 DEF SendsCounted, Owed
<1> QED BY <1>1, <1>3, <1>5, <1>6, <1>7, <1>8 DEF IInv

\* The next number.
LEMMA NextId == ASSUME Types, seq < MaxSeq PROVE seq + 1 \in Ids /\ seq + 1 \in 0 .. MaxSeq
BY StoreBounds DEF Types, Ids

\* The relay's side: no step of it touches the store.
LEMMA TypeRelay ==
  ASSUME Types,
         \/ PeerSend \/ MarkDormant \/ \E i \in Ids : Expire(i) \/ Emit(i)
         \/ Open \/ Select \/ Update \/ Announce \/ Drain \/ DrainEmit \/ Register
  PROVE  Types'
<1> USE DEF Types
<1>1. CASE PeerSend
  <2>1. cursor \in 0 .. seq + 1 /\ seq + 1 \in 0 .. MaxSeq /\ seq + 1 \in Ids
    BY <1>1, NextId DEF PeerSend
  <2> QED BY <1>1, <2>1 DEF PeerSend
<1>2. CASE MarkDormant BY <1>2 DEF MarkDormant
<1>3. ASSUME NEW i \in Ids, Expire(i) PROVE Types' BY <1>3 DEF Expire
<1>4. ASSUME NEW i \in Ids, Emit(i) PROVE Types'
  <2>1. inbox' \in Seq(Events) BY <1>4, DeliverEvents, Lengthened DEF Emit
  <2> QED BY <1>4, <2>1 DEF Emit
<1>5. CASE Open
  <2>1. inbox' \in Seq(Events) BY <1>5, DeliverEvents, Lengthened DEF Open
  <2>2. connects' \in 0 .. MaxConnects BY <1>5, SyncBounds DEF Open
  <2> QED BY <1>5, <2>1, <2>2 DEF Open
<1>6. CASE Select BY <1>6 DEF Select
<1>7. CASE Update BY <1>7 DEF Update
<1>8. CASE Announce
  <2>1. inbox' \in Seq(Events) BY <1>8, DeliverEvents, Lengthened DEF Announce
  <2> QED BY <1>8, <2>1 DEF Announce
<1>9. CASE Drain BY <1>9 DEF Drain
<1>10. CASE DrainEmit
  <2>1. inbox' \in Seq(Events) /\ drain' \subseteq Ids
    BY <1>10, DeliverEvents, Lengthened DEF DrainEmit
  <2> QED BY <1>10, <2>1 DEF DrainEmit
<1>11. CASE Register BY <1>11 DEF Register
<1> QED BY <1>1, <1>2, <1>3, <1>4, <1>5, <1>6, <1>7, <1>8, <1>9, <1>10, <1>11

\* The connection, and the handlers of what the device emits.
LEMMA TypeConnection ==
  ASSUME Types,
         \/ Disconnect \/ Restart \/ Attach \/ Unheard \/ CloseTab
         \/ \E r \in up : Receive(r)
         \/ \E r \in handling \cup orphans : HandleSend(r) \/ RefuseSend(r) \/ HandleAck(r)
  PROVE  Types'
<1> USE DEF Types
<1>1. CASE Disconnect
  <2>1. inbox' \in Seq(Events) BY <1>1, Shortened DEF Disconnect
  <2> QED BY <1>1, <2>1 DEF Disconnect, Cut
<1>2. CASE Restart
  <2>1. inbox' \in Seq(Events) BY <1>2, Shortened DEF Restart
  <2>2. faults' \in 0 .. MaxFaults BY <1>2, SyncBounds DEF Restart
  <2> QED BY <1>2, <2>1, <2>2 DEF Restart, Cut
<1>3. CASE Attach BY <1>3 DEF Attach
<1>4. CASE Unheard
  <2>1. inbox' \in Seq(Events) BY <1>4, Shortened DEF Unheard
  <2>2. missed' \subseteq Ids BY <1>4 DEF Unheard
  <2> QED BY <1>4, <2>1, <2>2 DEF Unheard
<1>5. CASE CloseTab
  <2>1. inbox' \in Seq(Events) BY <1>5, EmptySeq DEF CloseTab
  <2>2. faults' \in 0 .. MaxFaults BY <1>5, SyncBounds DEF CloseTab
  <2> QED BY <1>5, <2>1, <2>2 DEF CloseTab, Cut
<1>6. ASSUME NEW r \in up, Receive(r) PROVE Types'
  <2>1. r \in Requests OBVIOUS
  <2>2. r.kind = "ack" => r.id \in Ids BY <2>1 DEF Requests
  <2> QED BY <1>6, <2>1, <2>2 DEF Receive
<1>7. ASSUME NEW r \in handling \cup orphans, HandleSend(r) PROVE Types'
  <2>1. r \in Requests OBVIOUS
  <2>2. r.id \in Drafts /\ r.try \in Nat BY <1>7, <2>1 DEF Requests, HandleSend
  <2>3. cursor \in 0 .. seq + 1 /\ seq + 1 \in 0 .. MaxSeq /\ seq + 1 \in Ids
    BY <1>7, NextId DEF HandleSend
  <2>4. replies' \subseteq [draft : Drafts, try : Nat, id : Ids]
    BY <1>7, <2>2, <2>3 DEF HandleSend
  <2>5. origin' \in [Ids -> {0} \cup Drafts] BY <1>7, <2>2 DEF HandleSend
  <2> QED BY <1>7, <2>3, <2>4, <2>5 DEF HandleSend
<1>8. ASSUME NEW r \in handling \cup orphans, RefuseSend(r) PROVE Types'
  BY <1>8 DEF RefuseSend
<1>9. ASSUME NEW r \in handling \cup orphans, HandleAck(r) PROVE Types'
  <2>1. target' \in [Ids -> {"none", "pending", "delivered", "expired"}]
    BY <1>9 DEF HandleAck
  <2> QED BY <1>9, <2>1 DEF HandleAck
<1> QED BY <1>1, <1>2, <1>3, <1>4, <1>5, <1>6, <1>7, <1>8, <1>9

\* What the engine and the store do, but for the timeline.
LEMMA TypeEngine ==
  ASSUME Types, OthersCome, RepliesAreNew, AcksPassed, timeline' \in Seq(Entries),
         Engine \/ FetchFailed \/ \E c \in Drafts : Compose(c)
  PROVE  Types'
<1> USE DEF Types
<1>1. CASE StartFlush
  <2>1. inbox' \in Seq(Events) BY <1>1, Shortened DEF StartFlush, StartTask
  <2>2. Queued \subseteq Drafts BY DEF Queued
  <2> QED BY <1>1, <2>1, <2>2 DEF StartFlush
<1>2. CASE HandleDormancyReturn
  <2>1. inbox' \in Seq(Events) BY <1>2, Shortened DEF HandleDormancyReturn, StartTask
  <2> QED BY <1>2, <2>1 DEF HandleDormancyReturn, InsertDormancyReturn
<1>3. CASE StartDeliver
  <2>1. inbox' \in Seq(Events) BY <1>3, Shortened DEF StartDeliver, StartTask
  <2>2. Head(inbox) \in Events /\ Head(inbox).kind = "deliver"
    BY <1>3, FirstOf DEF StartDeliver, StartTask
  <2>3. cur' \in Ids BY <1>3, <2>2, DeliverEvents DEF StartDeliver
  <2> QED BY <1>3, <2>1, <2>3 DEF StartDeliver
<1>4. CASE Fetched BY <1>4 DEF Fetched
<1>5. CASE Store
  <2>1. cur \in Ids /\ cur <= seq BY <1>5 DEF Store, AcksPassed, OthersCome, InFlight
  <2>2. cursor' \in 0 .. seq BY <1>5, <2>1 DEF Store, InsertIncoming, Advance, Ids
  <2> QED BY <1>5, <2>2 DEF Store, InsertIncoming
<1>6. CASE EmitAck
  <2>1. AckRequest(cur) \in Requests BY <1>6 DEF EmitAck, AcksPassed, AckRequest, Requests
  <2> QED BY <1>6, <2>1 DEF EmitAck
<1>7. CASE Send
  <2>1. PICK c \in Drafts :
          /\ SetStatus(c, "sending") /\ tries' = [tries EXCEPT ![c] = @ + 1]
          /\ up' = up \cup {SendRequest(c, tries[c] + 1)}
    BY <1>7 DEF Send
  <2>2. SendRequest(c, tries[c] + 1) \in Requests BY DEF SendRequest, Requests
  <2> QED BY <1>7, <2>1, <2>2 DEF Send, SetStatus
<1>8. CASE Confirm
  <2>1. PICK r \in replies :
          Reconcile(r.draft, r.id) /\ replies' = replies \ {r} /\ NextInBatch(r.draft)
    BY <1>8 DEF Confirm
  <2>2. r.draft \in Drafts /\ r.id \in Ids OBVIOUS
  <2>3. r.id <= seq
    <3>1. origin[r.id] = r.draft BY DEF RepliesAreNew
    <3>2. r.draft # 0 BY <2>2 DEF Drafts
    <3> QED BY <2>2, <3>1, <3>2 DEF OthersCome
  <2>4. cursor' \in 0 .. seq BY <2>1, <2>2, <2>3 DEF Reconcile, Advance, Ids
  <2>5. outbox' \in [Drafts -> {"none", "pending", "sending", "failed", "sent"}]
    BY <2>1 DEF Reconcile
  <2> QED BY <1>8, <2>1, <2>4, <2>5 DEF Confirm, NextInBatch
<1>9. CASE Timeout
  <2>1. PICK c \in Drafts : SetStatus(c, "failed") /\ NextInBatch(c) BY <1>9 DEF Timeout
  <2> QED BY <1>9, <2>1 DEF Timeout, SetStatus, NextInBatch
<1>10. CASE FetchFailed
  <2>1. cur \in Ids /\ faults' \in 0 .. MaxFaults
    BY <1>10, SyncBounds DEF FetchFailed, AcksPassed
  <2> QED BY <1>10, <2>1 DEF FetchFailed
<1>11. ASSUME NEW c \in Drafts, Compose(c) PROVE Types'
  BY <1>11 DEF Compose, SetStatus
<1> QED BY <1>1, <1>2, <1>3, <1>4, <1>5, <1>6, <1>7, <1>8, <1>9, <1>10, <1>11 DEF Engine
-----------------------------------------------------------------------------
(* Every step extends the timeline as StoreStep says                        *)

LEMMA Extends ==
  ASSUME Types, OthersCome, RepliesAreNew, AcksPassed, [Next]_vars
  PROVE  StoreStep
<1> USE DEF StoreStep
<1>1. cursor \in Nat BY StoreBounds DEF Types
<1>2. CASE HandleDormancyReturn
  BY <1>2 DEF HandleDormancyReturn, InsertDormancyReturn
<1>3. CASE Store
  <2>1. cur \in Ids /\ (cur <= cursor \/ cursor < cur)
    BY <1>1, <1>3 DEF Store, AcksPassed, Ids
  <2> QED BY <1>3, <2>1 DEF Store, InsertIncoming, IsDuplicate
<1>4. CASE Confirm
  <2>1. PICK r \in replies : Reconcile(r.draft, r.id) BY <1>4 DEF Confirm
  <2>2. r.draft \in Drafts /\ r.id \in Ids BY DEF Types
  <2>3. origin[r.id] # 0 /\ Message(r.id) \notin Range(timeline)
    BY <2>2 DEF RepliesAreNew, Drafts
  <2>4. r.id <= cursor \/ cursor < r.id BY <1>1, <2>2 DEF Ids
  <2>5. CASE r.id <= cursor BY <2>1, <2>2, <2>3, <2>5 DEF Reconcile, IsDuplicate
  <2>6. CASE ~ (r.id <= cursor) BY <2>1, <2>2, <2>4, <2>6 DEF Reconcile, IsDuplicate
  <2> QED BY <2>5, <2>6
<1>5. CASE \/ PeerSend \/ MarkDormant \/ \E i \in Ids : Expire(i) \/ Emit(i)
           \/ Open \/ Select \/ Update \/ Announce \/ Drain \/ DrainEmit \/ Register
  BY <1>5 DEF PeerSend, MarkDormant, Expire, Emit, Open, Select, Update, Announce, Drain,
              DrainEmit, Register
<1>6. CASE \/ Disconnect \/ Restart \/ Attach \/ Unheard \/ CloseTab
           \/ \E r \in up : Receive(r)
           \/ \E r \in handling \cup orphans : HandleSend(r) \/ RefuseSend(r) \/ HandleAck(r)
  BY <1>6 DEF Disconnect, Restart, Attach, Unheard, CloseTab, Receive, HandleSend,
              RefuseSend, HandleAck
<1>7. CASE \/ StartFlush \/ StartDeliver \/ Fetched \/ EmitAck \/ Send \/ Timeout
           \/ FetchFailed \/ \E c \in Drafts : Compose(c)
  BY <1>7 DEF StartFlush, StartDeliver, Fetched, EmitAck, Send, Timeout, FetchFailed,
              Compose, SetStatus
<1>8. CASE UNCHANGED vars BY <1>8 DEF vars
<1> QED BY <1>2, <1>3, <1>4, <1>5, <1>6, <1>7, <1>8 DEF Next, Engine

\* Only numbers above the cursor get an origin.
LEMMA Settles == ASSUME Types, [Next]_vars PROVE OriginsSettled
<1>1. CASE \E r \in handling \cup orphans : HandleSend(r)
  <2>1. PICK r : HandleSend(r) BY <1>1
  <2>2. cursor < seq + 1 BY StoreBounds DEF Types
  <2> QED BY <2>1, <2>2, StoreBounds DEF HandleSend, OriginsSettled, Types, Ids
<1>2. CASE origin' = origin BY <1>2 DEF OriginsSettled
<1>3. (\E r \in handling \cup orphans : HandleSend(r)) \/ origin' = origin
  <2>1. CASE UNCHANGED vars BY <2>1 DEF vars
  <2>2. CASE Next
    BY <2>2 DEF Next, Engine, PeerSend, MarkDormant, Expire, Emit, Open, Select, Update, Announce,
         Drain, DrainEmit, Register, Disconnect, Restart, Attach, Unheard, CloseTab, Receive,
         RefuseSend, HandleAck, StartFlush, HandleDormancyReturn, StartDeliver, Fetched, Store,
         EmitAck, Send, Confirm, Timeout, FetchFailed, Compose
  <2> QED BY <2>1, <2>2
<1> QED BY <1>1, <1>2, <1>3

\* The cursor never falls.
LEMMA CursorRises ==
  ASSUME Types, StoreStep PROVE cursor \in Nat /\ cursor' \in Nat /\ cursor <= cursor'
<1>1. cursor \in Nat BY StoreBounds DEF Types
<1>2. \A i \in Ids : Advance(i) => cursor' = i BY DEF Advance
<1> QED BY <1>1, <1>2, StoreBounds DEF StoreStep, Ids

\* Storing a number adds no other message than its own.
LEMMA NewMessage ==
  ASSUME Types, TimelineBelow, NEW i \in Ids,
         (cursor < i /\ Advance(i)) \/ timeline' = Append(timeline, Message(i)),
         NEW x \in Ids, Message(x) \in Range(timeline'), Message(x) \notin Range(timeline)
  PROVE  x = i
<1> DEFINE n == Len(timeline)  m == Len(timeline')
<1>1. timeline \in Seq(Entries) BY DEF Types
<1>2. n \in Nat /\ DOMAIN timeline = 1 .. n BY <1>1, LenProperties
<1>3. CASE cursor < i /\ Advance(i)
  <2>1. /\ timeline' \in Seq(Entries)
        /\ \A k \in 1 .. n : timeline'[k] = timeline[k]
        /\ timeline'[m] = Message(i)
        /\ \/ m = n + 1
           \/ /\ m = n + 2
              /\ \/ timeline'[n + 1] = Marker("history_start")
                 \/ /\ cursor + 1 \in Ids /\ i - 1 \in Ids
                    /\ timeline'[n + 1] = Gap(cursor + 1, i - 1)
    BY <1>3, AdvanceAppends
  <2>2. m \in Nat /\ DOMAIN timeline' = 1 .. m BY <2>1, LenProperties
  <2> HIDE DEF m, n
  <2>3. PICK k \in 1 .. m : timeline'[k] = Message(x) BY <2>2 DEF Range
  <2>4. CASE k \in 1 .. n
    <3>1. timeline[k] = Message(x) BY <2>1, <2>3, <2>4
    <3> QED BY <1>2, <2>4, <3>1 DEF Range
  <2>5. CASE k \notin 1 .. n /\ k # m
    <3>1. m = n + 2 /\ k = n + 1 BY <1>2, <2>1, <2>2, <2>5
    <3> QED BY <2>1, <2>3, <3>1, <1>2, EntryShapes
  <2>6. CASE k = m BY <2>1, <2>3, <2>6, EntryShapes
  <2> QED BY <2>4, <2>5, <2>6
<1>4. CASE timeline' = Append(timeline, Message(i))
  <2>1. Range(timeline') = Range(timeline) \cup {Message(i)}
    BY <1>1, <1>4, EntryShapes, Lengthened
  <2> QED BY <2>1, EntryShapes
<1> QED BY <1>3, <1>4

-----------------------------------------------------------------------------
(* The invariant                                                            *)

\* Nothing comes to be in flight by a step that sends nothing.
LEMMA Carried ==
  ASSUME OthersCome, UNCHANGED <<seq, origin>>, \A i \in Ids : InFlight(i)' => InFlight(i)
  PROVE  OthersCome'
BY DEF OthersCome

LEMMA OthersStep ==
  ASSUME Types, OthersCome, [Next]_vars PROVE OthersCome'
<1> USE DEF Types
<1>1. CASE PeerSend
  <2>1. seq + 1 \in Ids BY <1>1, NextId DEF PeerSend
  <2>2. origin[seq + 1] = 0 BY <2>1 DEF OthersCome
  <2>3. \A i \in Ids : InFlight(i)' => InFlight(i) \/ i = seq + 1
    BY <1>1, <2>1 DEF PeerSend, InFlight
  <2> QED BY <1>1, <2>2, <2>3, StoreBounds DEF PeerSend, OthersCome, Ids
<1>2. ASSUME NEW r \in handling \cup orphans, HandleSend(r) PROVE OthersCome'
  <2>1. seq + 1 \in Ids BY <1>2, NextId DEF HandleSend
  <2>2. ~ InFlight(seq + 1) BY <2>1 DEF OthersCome
  <2>3. \A i \in Ids : InFlight(i)' => InFlight(i)
    BY <1>2 DEF HandleSend, InFlight
  <2>4. \A i \in Ids : i # seq + 1 => origin'[i] = origin[i] BY <1>2, <2>1 DEF HandleSend
  <2>5. seq' = seq + 1 BY <1>2 DEF HandleSend
  <2>6. \A i \in Ids : i <= seq => i <= seq' BY <2>5 DEF Ids
  <2>7. \A i \in Ids : InFlight(i)' => origin'[i] = 0 /\ i <= seq'
    BY <2>2, <2>3, <2>4, <2>6 DEF OthersCome
  <2>8. \A i \in Ids : origin'[i] # 0 => i <= seq'
    BY <2>4, <2>5, <2>6 DEF OthersCome, Ids
  <2> QED BY <2>7, <2>8 DEF OthersCome
<1>3. ASSUME NEW i \in Ids, Expire(i) PROVE OthersCome'
  BY <1>3, Carried DEF Expire, InFlight
<1>4. ASSUME NEW i \in Ids, Emit(i) PROVE OthersCome'
  <2>1. Range(inbox') \subseteq Range(inbox) \cup {Deliver(i)}
    BY <1>4, DeliverEvents, Lengthened DEF Emit
  <2>2. \A j \in Ids : InFlight(j)' => InFlight(j)
    BY <1>4, <2>1, DeliverEvents DEF Emit, InFlight
  <2> QED BY <1>4, <2>2, Carried DEF Emit
<1>5. CASE Open
  <2>1. Range(inbox') = Range(inbox) \cup {Connect("connect")}
    BY <1>5, DeliverEvents, Lengthened DEF Open
  <2> QED BY <1>5, <2>1, DeliverEvents, Carried DEF Open, InFlight
<1>6. CASE Announce
  <2>1. Range(inbox') \subseteq Range(inbox) \cup {Connect("dormancy")}
    BY <1>6, DeliverEvents, Lengthened DEF Announce
  <2> QED BY <1>6, <2>1, DeliverEvents, Carried DEF Announce, InFlight
<1>7. CASE Drain BY <1>7, Carried DEF Drain, InFlight
<1>8. CASE DrainEmit
  <2>1. PICK i \in drain : inbox' = Append(inbox, Deliver(i)) /\ drain' = drain \ {i}
    BY <1>8 DEF DrainEmit
  <2>2. i \in Ids /\ Range(inbox') = Range(inbox) \cup {Deliver(i)}
    BY <2>1, DeliverEvents, Lengthened
  <2>3. \A j \in Ids : InFlight(j)' => InFlight(j)
    BY <1>8, <2>1, <2>2, DeliverEvents DEF DrainEmit, InFlight
  <2> QED BY <1>8, <2>3, Carried DEF DrainEmit
<1>9. CASE Disconnect \/ Restart
  <2>1. Range(inbox') \subseteq Range(inbox) BY <1>9, Shortened DEF Disconnect, Restart
  <2>2. \A j \in Ids : InFlight(j)' => InFlight(j)
    BY <1>9, <2>1 DEF Disconnect, Restart, Cut, InFlight
  <2> QED BY <1>9, <2>2, Carried DEF Disconnect, Restart
<1>10. CASE Unheard
  <2>1. Range(inbox') \subseteq Range(inbox) BY <1>10, Shortened DEF Unheard
  <2> QED BY <1>10, <2>1, Carried DEF Unheard, InFlight
<1>11. CASE CloseTab
  <2>1. Range(inbox') \subseteq Range(inbox) BY <1>11, Shortened DEF CloseTab
  <2>2. \A j \in Ids : cur' # j BY <1>11, StoreBounds DEF CloseTab, Ids
  <2> QED BY <1>11, <2>1, <2>2, Carried DEF CloseTab, Cut, InFlight
<1>12. ASSUME NEW r \in handling \cup orphans, HandleAck(r) PROVE OthersCome'
  <2>1. \A j \in Ids : target'[j] # "none" => target[j] # "none"
    BY <1>12 DEF HandleAck
  <2> QED BY <1>12, <2>1, Carried DEF HandleAck, InFlight
<1>13. CASE StartFlush \/ HandleDormancyReturn
  <2>1. Range(inbox') \subseteq Range(inbox)
    BY <1>13, Shortened DEF StartFlush, HandleDormancyReturn, StartTask
  <2> QED BY <1>13, <2>1, Carried DEF StartFlush, HandleDormancyReturn, InFlight
<1>14. CASE StartDeliver
  <2>1. Range(inbox') \subseteq Range(inbox) BY <1>14, Shortened DEF StartDeliver, StartTask
  <2>2. Head(inbox) \in Events /\ Head(inbox) \in Range(inbox) /\ Head(inbox).kind = "deliver"
    BY <1>14, FirstOf DEF StartDeliver, StartTask
  <2>3. cur' = Head(inbox).id /\ Deliver(cur') \in Range(inbox)
    BY <1>14, <2>2, DeliverEvents DEF StartDeliver
  <2>4. \A j \in Ids : InFlight(j)' => InFlight(j)
    BY <1>14, <2>1, <2>3 DEF StartDeliver, InFlight
  <2> QED BY <1>14, <2>4, Carried DEF StartDeliver
<1>15. CASE EmitAck \/ FetchFailed
  <2>1. \A j \in Ids : cur' # j BY <1>15, StoreBounds DEF EmitAck, FetchFailed, Ids
  <2> QED BY <1>15, <2>1, Carried DEF EmitAck, FetchFailed, InFlight
<1>16. CASE UNCHANGED <<seq, origin, target, emitting, drain, inbox, cur>>
  BY <1>16, Carried DEF InFlight
<1>17. CASE \/ MarkDormant \/ Select \/ Update \/ Register \/ Attach
            \/ \E r \in up : Receive(r)
            \/ \E r \in handling \cup orphans : RefuseSend(r)
            \/ Fetched \/ Store \/ Send \/ Confirm \/ Timeout
            \/ \E c \in Drafts : Compose(c)
            \/ UNCHANGED vars
  <2>1. UNCHANGED <<seq, origin, target, emitting, drain, inbox, cur>>
    BY <1>17 DEF MarkDormant, Select, Update, Register, Attach, Receive, RefuseSend, Fetched,
         Store, Send, Confirm, Timeout, Compose, vars
  <2> QED BY <1>16, <2>1
<1> QED BY <1>1, <1>2, <1>3, <1>4, <1>5, <1>6, <1>7, <1>8, <1>9, <1>10, <1>11, <1>12, <1>13,
           <1>14, <1>15, <1>17 DEF Next, Engine

\* A reply stays the only one for its envelope, which comes to the timeline with it.
LEMMA RepliesStep ==
  ASSUME Types, OthersCome, RepliesAreNew, AcksPassed, TimelineBelow, [Next]_vars
  PROVE  RepliesAreNew'
<1>1. replies \subseteq [draft : Drafts, try : Nat, id : Ids] BY DEF Types
<1>2. \A r \in replies : r.id \in Ids /\ r.id <= seq /\ origin[r.id] # 0
  <2> TAKE r \in replies
  <2>1. r.id \in Ids /\ r.draft # 0 BY <1>1 DEF Drafts
  <2>2. origin[r.id] # 0 BY <2>1 DEF RepliesAreNew
  <2> QED BY <2>1, <2>2 DEF OthersCome
<1>3. ASSUME replies' \subseteq replies, UNCHANGED origin,
             \A r \in replies' : Message(r.id) \notin Range(timeline')
      PROVE  RepliesAreNew'
  BY <1>3 DEF RepliesAreNew
<1>4. ASSUME replies' \subseteq replies, UNCHANGED <<origin, timeline>>
      PROVE  RepliesAreNew'
  BY <1>3, <1>4 DEF RepliesAreNew
<1>5. ASSUME NEW r \in handling \cup orphans, HandleSend(r) PROVE RepliesAreNew'
  <2>1. seq + 1 \in Ids BY <1>5, NextId DEF HandleSend
  <2>2. Message(seq + 1) \notin Range(timeline)
    <3>1. \A k \in DOMAIN timeline : timeline[k].to <= cursor /\ cursor <= seq
          /\ cursor \in Nat /\ seq \in Nat /\ timeline[k].to \in Nat
      <4>1. timeline \in Seq(Entries) BY DEF Types
      <4>2. \A k \in DOMAIN timeline : timeline[k].to \in Nat
        BY <4>1, LenProperties, ElementOfSeq, EntryShapes
      <4> QED BY <4>2, StoreBounds DEF Types, TimelineBelow
    <3>2. Message(seq + 1).to = seq + 1 BY DEF Message
    <3> QED BY <3>1, <3>2 DEF Range
  <2>3. UNCHANGED timeline BY <1>5 DEF HandleSend
  <2>4. \A s \in replies : s.id # seq + 1 /\ origin'[s.id] = origin[s.id]
    <3>1. \A s \in replies : s.id # seq + 1
      BY <1>2, StoreBounds DEF Types, Ids
    <3> QED BY <1>2, <1>5, <3>1 DEF HandleSend, Types
  <2>5. origin'[seq + 1] = r.id BY <1>5, <2>1 DEF HandleSend, Types
  <2> DEFINE new == [draft |-> r.id, try |-> r.try, id |-> seq + 1]
  <2>6. replies' \subseteq replies \cup {new} BY <1>5 DEF HandleSend
  <2>7. new.id = seq + 1 /\ new.draft = r.id OBVIOUS
  <2> HIDE DEF new
  <2> QED BY <2>2, <2>3, <2>4, <2>5, <2>6, <2>7 DEF RepliesAreNew
<1>6. CASE HandleDormancyReturn
  <2>1. Range(timeline') \subseteq Range(timeline) \cup {Marker("dormancy_return")}
    BY <1>6, EntryShapes, Lengthened
       DEF HandleDormancyReturn, InsertDormancyReturn, Types
  <2>2. replies' = replies /\ origin' = origin BY <1>6 DEF HandleDormancyReturn
  <2> QED BY <1>2, <1>3, <2>1, <2>2, EntryShapes DEF RepliesAreNew
<1>7. CASE Store
  <2>1. replies' = replies /\ origin' = origin BY <1>7 DEF Store
  <2>2. cur \in Ids /\ origin[cur] = 0 BY <1>7 DEF Store, AcksPassed, OthersCome, InFlight
  <2>3. CASE timeline' = timeline BY <1>4, <2>1, <2>3
  <2>4. CASE cursor < cur /\ Advance(cur)
    <3>1. \A r \in replies : r.id # cur BY <1>2, <2>2
    <3>2. \A r \in replies : Message(r.id) \notin Range(timeline')
      BY <1>2, <2>2, <2>4, <3>1, NewMessage DEF RepliesAreNew
    <3> QED BY <1>3, <2>1, <3>2
  <2>5. cur <= cursor \/ cursor < cur BY <2>2, StoreBounds DEF Types, Ids
  <2> QED BY <1>7, <2>3, <2>4, <2>5 DEF Store, InsertIncoming, IsDuplicate
<1>8. CASE Confirm
  <2>1. PICK r \in replies : Reconcile(r.draft, r.id) /\ replies' = replies \ {r}
    BY <1>8 DEF Confirm
  <2>2. UNCHANGED origin BY <1>8 DEF Confirm
  <2>3. r.id \in Ids BY <1>2
  <2>4. r.id <= cursor \/ cursor < r.id BY <2>3, StoreBounds DEF Types, Ids
  <2>5. (cursor < r.id /\ Advance(r.id)) \/ timeline' = Append(timeline, Message(r.id))
    BY <2>1, <2>4 DEF Reconcile, IsDuplicate
  <2>6. \A s \in replies' : s \in replies /\ s.id \in Ids /\ s.id # r.id
    BY <1>2, <2>1 DEF RepliesAreNew
  <2>7. \A s \in replies' : Message(s.id) \notin Range(timeline')
    BY <2>3, <2>5, <2>6, NewMessage DEF RepliesAreNew
  <2> QED BY <1>3, <2>1, <2>2, <2>7
<1>9. CASE \/ PeerSend \/ MarkDormant \/ \E i \in Ids : Expire(i) \/ Emit(i)
           \/ Open \/ Select \/ Update \/ Announce \/ Drain \/ DrainEmit \/ Register
  BY <1>4, <1>9 DEF PeerSend, MarkDormant, Expire, Emit, Open, Select, Update, Announce, Drain,
                    DrainEmit, Register
<1>10. CASE \/ Disconnect \/ Restart \/ Attach \/ Unheard \/ CloseTab
            \/ \E r \in up : Receive(r)
            \/ \E r \in handling \cup orphans : RefuseSend(r) \/ HandleAck(r)
  BY <1>4, <1>10 DEF Disconnect, Restart, Cut, Attach, Unheard, CloseTab, Receive, RefuseSend,
                     HandleAck
<1>11. CASE \/ StartFlush \/ StartDeliver \/ Fetched \/ EmitAck \/ Send \/ Timeout
            \/ FetchFailed \/ \E c \in Drafts : Compose(c)
  BY <1>4, <1>11 DEF StartFlush, StartDeliver, Fetched, EmitAck, Send, Timeout, FetchFailed,
                     Compose, SetStatus
<1>12. CASE UNCHANGED vars BY <1>4, <1>12 DEF vars
<1> QED BY <1>5, <1>6, <1>7, <1>8, <1>9, <1>10, <1>11, <1>12 DEF Next, Engine

\* The requests that are emitted or received later than now are acks of passed numbers.
LEMMA AcksStep ==
  ASSUME Types, OthersCome, AcksPassed, StoreStep, AckFollowsWrite, [Next]_vars
  PROVE  AcksPassed' /\ AckFollowsWrite'
<1>1. cursor \in Nat /\ cursor' \in Nat /\ cursor <= cursor' BY CursorRises
<1>2. Ids \subseteq Nat BY StoreBounds DEF Ids
<1>3. \A r \in up \cup handling \cup orphans :
        r.kind = "ack" => r.id \in Ids /\ r.id <= cursor /\ r.id <= cursor'
  <2> SUFFICES ASSUME NEW r \in up \cup handling \cup orphans, r.kind = "ack"
               PROVE  r.id \in Ids /\ r.id <= cursor /\ r.id <= cursor'
    OBVIOUS
  <2>1. r \in Requests BY DEF Types
  <2>2. r.id \in Ids BY <2>1 DEF Requests
  <2>3. r.id <= cursor BY DEF AcksPassed
  <2>4. r.id \in Nat BY <1>2, <2>2
  <2> QED BY <1>1, <2>2, <2>3, <2>4
<1>4. \A i \in Ids : target[i] = "delivered" => i <= cursor'
  BY <1>1, <1>2 DEF AckFollowsWrite
<1>5. ASSUME \A r \in (up \cup handling \cup orphans)' :
               r \in up \cup handling \cup orphans \/ r.kind # "ack",
             at' \in {"fetch", "store", "ack"} => (at = at' /\ cur' = cur) \/ cur' \in Ids,
             at' = "ack" => at = "ack" /\ cur' = cur,
             \A i \in Ids : target'[i] = "delivered" => target[i] = "delivered"
      PROVE  AcksPassed' /\ AckFollowsWrite'
  <2>1. at' \in {"fetch", "store", "ack"} => cur' \in Ids BY <1>5 DEF AcksPassed
  <2>2. at' = "ack" => cur' <= cursor'
    <3> HAVE at' = "ack"
    <3>1. cur' = cur /\ cur \in Nat /\ cur <= cursor BY <1>2, <1>5 DEF AcksPassed
    <3> QED BY <1>1, <3>1
  <2>3. \A r \in (up \cup handling \cup orphans)' : r.kind = "ack" => r.id <= cursor'
    BY <1>3, <1>5
  <2> QED BY <1>4, <1>5, <2>1, <2>2, <2>3 DEF AcksPassed, AckFollowsWrite
<1>6. ASSUME NEW r \in handling \cup orphans, HandleAck(r) PROVE AcksPassed' /\ AckFollowsWrite'
  <2>1. r.id \in Ids /\ r.id <= cursor' BY <1>3, <1>6 DEF HandleAck
  <2>2. AckFollowsWrite' BY <1>4, <1>6, <2>1 DEF HandleAck, AckFollowsWrite, Types
  <2>3. AcksPassed'
    <3>1. \A s \in (up \cup handling \cup orphans)' : s \in up \cup handling \cup orphans
      BY <1>6 DEF HandleAck
    <3>2. UNCHANGED <<at, cur, cursor>> BY <1>6 DEF HandleAck
    <3> QED BY <1>3, <3>1, <3>2 DEF AcksPassed
  <2> QED BY <2>2, <2>3
<1>7. CASE EmitAck
  <2>1. cur \in Ids /\ cur <= cursor BY <1>7 DEF EmitAck, AcksPassed
  <2>2. AckRequest(cur).id = cur BY DEF AckRequest
  <2>3. \A s \in (up \cup handling \cup orphans)' :
          s \in up \cup handling \cup orphans \/ s = AckRequest(cur)
    BY <1>7 DEF EmitAck
  <2>4. at' = "idle" /\ UNCHANGED <<cursor, target>> BY <1>7 DEF EmitAck
  <2> QED BY <1>3, <2>1, <2>2, <2>3, <2>4 DEF AcksPassed, AckFollowsWrite
<1>8. CASE Store
  <2>1. cur \in Ids /\ cur' = cur /\ at' = "ack" BY <1>8 DEF Store, AcksPassed
  <2>2. cur <= cursor'
    BY <1>1, <1>2, <1>8, <2>1 DEF Store, InsertIncoming, IsDuplicate, Advance
  <2>3. UNCHANGED <<target, up, handling, orphans>> BY <1>8 DEF Store
  <2> QED BY <1>3, <1>4, <2>1, <2>2, <2>3 DEF AcksPassed, AckFollowsWrite
<1>9. CASE StartDeliver
  <2>1. Head(inbox) \in Events /\ Head(inbox).kind = "deliver"
    BY <1>9, FirstOf DEF StartDeliver, StartTask, Types
  <2>2. cur' \in Ids BY <1>9, <2>1, DeliverEvents DEF StartDeliver
  <2>3. at' # "ack" /\ UNCHANGED <<target, up, handling, orphans>> BY <1>9 DEF StartDeliver
  <2> QED BY <1>5, <2>2, <2>3
<1>10. CASE Send
  <2>1. \A r \in up' : r \in up \/ r.kind # "ack" BY <1>10 DEF Send, SendRequest
  <2> QED BY <1>5, <1>10, <2>1 DEF Send
<1>11. CASE Fetched BY <1>5, <1>11 DEF Fetched, AcksPassed
<1>12. CASE PeerSend \/ \E i \in Ids : Expire(i)
  <2>1. \A i \in Ids : target'[i] = "delivered" => target[i] = "delivered"
    BY <1>12 DEF PeerSend, Expire, Types
  <2> QED BY <1>5, <1>12, <2>1 DEF PeerSend, Expire
<1>13. CASE \/ MarkDormant \/ \E i \in Ids : Emit(i)
            \/ Open \/ Select \/ Update \/ Announce \/ Drain \/ DrainEmit \/ Register
  BY <1>5, <1>13 DEF MarkDormant, Emit, Open, Select, Update, Announce, Drain, DrainEmit, Register
<1>14. CASE \/ Disconnect \/ Restart \/ Attach \/ Unheard \/ CloseTab
            \/ \E r \in up : Receive(r)
            \/ \E r \in handling \cup orphans : HandleSend(r) \/ RefuseSend(r)
  BY <1>5, <1>14 DEF Disconnect, Restart, Cut, Attach, Unheard, CloseTab, Receive, HandleSend,
                     RefuseSend
<1>15. CASE \/ StartFlush \/ HandleDormancyReturn \/ Confirm \/ Timeout \/ FetchFailed
            \/ \E c \in Drafts : Compose(c)
  BY <1>5, <1>15 DEF StartFlush, HandleDormancyReturn, Confirm, Timeout, NextInBatch, FetchFailed,
                     Compose
<1>16. CASE UNCHANGED vars BY <1>5, <1>16 DEF vars
<1> QED BY <1>6, <1>7, <1>8, <1>9, <1>10, <1>11, <1>12, <1>13, <1>14, <1>15, <1>16 DEF Next, Engine

-----------------------------------------------------------------------------
(* Nothing is missed, and nothing is sent too often                         *)

\* The tasks leave no envelope and no batch behind.
LEMMA TaskStep == ASSUME Types, TaskKeeps, [Next]_vars PROVE TaskKeeps'
<1>1. CASE \/ StartFlush \/ StartDeliver \/ Fetched \/ Store \/ EmitAck \/ Send \/ Confirm
           \/ Timeout \/ FetchFailed \/ CloseTab \/ \E c \in Drafts : Compose(c)
  BY <1>1 DEF StartFlush, StartDeliver, StartTask, Fetched, Store, EmitAck, Send, Confirm, Timeout,
              FetchFailed, CloseTab, Compose, NextInBatch, TaskKeeps
<1>2. CASE UNCHANGED <<at, cur, batch>> BY <1>2 DEF TaskKeeps
<1>3. CASE \/ PeerSend \/ MarkDormant \/ \E i \in Ids : Expire(i) \/ Emit(i)
           \/ Open \/ Select \/ Update \/ Announce \/ Drain \/ DrainEmit \/ Register
           \/ Disconnect \/ Restart
           \/ \E r \in up : Receive(r)
           \/ \E r \in handling \cup orphans : HandleSend(r) \/ RefuseSend(r) \/ HandleAck(r)
           \/ Attach \/ Unheard \/ HandleDormancyReturn \/ UNCHANGED vars
  BY <1>2, <1>3 DEF PeerSend, MarkDormant, Expire, Emit, Open, Select, Update, Announce, Drain,
         DrainEmit, Register, Disconnect, Restart, Receive, HandleSend, RefuseSend, HandleAck,
         Attach, Unheard, HandleDormancyReturn, vars
<1> QED BY <1>1, <1>3 DEF Next, Engine

\* It is enough that what is on its way stays so, unless it is settled.
LEMMA StillComing ==
  ASSUME NothingMissed,
         conn' \in {"draining", "ready"} =>
           /\ conn \in {"draining", "ready"}
           /\ \A i \in Ids : target'[i] = "pending" =>
                \/ OnItsWay(i)'
                \/ target[i] = "pending" /\ ~ OnItsWay(i)
  PROVE  NothingMissed'
BY DEF NothingMissed

\* A request to acknowledge is the one for its id.
LEMMA AckShapes ==
  /\ \A i \in Ids : AckRequest(i).kind = "ack" /\ AckRequest(i).id = i
  /\ \A r \in Requests : r.kind = "ack" => r.id \in Ids /\ r = AckRequest(r.id)
BY DEF Requests, AckRequest

\* The room is joined before the drain, so from the drain on every pending envelope has
\* an emit ahead, is on the wires or in the engine, or is noted as failed.
LEMMA MissedStep ==
  ASSUME Types, TaskKeeps, NothingMissed, [Next]_vars
  PROVE  NothingMissed'
<1>0. /\ inbox \in Seq(Events)
      /\ handling \subseteq Requests /\ orphans \subseteq Requests /\ up \subseteq Requests
  BY DEF Types
<1>1. ASSUME \A i \in Ids : target'[i] = "pending" => target[i] = "pending",
             conn' \in {"draining", "ready"} => conn \in {"draining", "ready"},
             \A i \in Ids : OnItsWay(i) => OnItsWay(i)' \/ target'[i] # "pending"
      PROVE  NothingMissed'
  BY <1>1, StillComing
<1>2. CASE PeerSend
  <2>1. /\ seq \in Nat /\ seq + 1 \in Ids /\ conn' = conn
        /\ \A i \in Ids : i # seq + 1 => target'[i] = target[i]
        /\ target'[seq + 1] = "pending" => seq + 1 \in emitting'
    BY <1>2, NextId DEF PeerSend, Types
  <2>2. \A i \in Ids : OnItsWay(i) => OnItsWay(i)' BY <1>2 DEF PeerSend, OnItsWay
  <2>3. \A i \in emitting' : OnItsWay(i)' BY DEF OnItsWay
  <2> QED BY <2>1, <2>2, <2>3, StillComing
<1>3. CASE \E i \in Ids : Expire(i)
  <2>1. /\ \A i \in Ids : target'[i] = "pending" => target[i] = "pending"
        /\ UNCHANGED <<conn, emitting, missed, drain, inbox, cur, up, handling, orphans>>
    BY <1>3 DEF Expire, Types
  <2> QED BY <1>1, <2>1 DEF OnItsWay
<1>4. ASSUME NEW n \in Ids, Emit(n) PROVE NothingMissed'
  <2>1. CASE conn = "offline" BY <1>4, <2>1 DEF Emit, NothingMissed
  <2>2. CASE conn # "offline"
    <3>1. Range(inbox') = Range(inbox) \cup {Deliver(n)}
      BY <1>0, <1>4, <2>2, DeliverEvents, Lengthened DEF Emit, InRoom
    <3>2. \A i \in Ids : OnItsWay(i) => OnItsWay(i)' BY <1>4, <3>1 DEF Emit, OnItsWay
    <3> QED BY <1>1, <1>4, <3>2 DEF Emit
  <2> QED BY <2>1, <2>2
<1>5. CASE Open \/ Select \/ Update \/ Announce
  <2>1. conn' \notin {"draining", "ready"} BY <1>5 DEF Open, Select, Update, Announce
  <2> QED BY <2>1 DEF NothingMissed
<1>6. CASE Drain BY <1>6 DEF Drain, NothingMissed, OnItsWay
<1>7. CASE DrainEmit
  <2>1. PICK n \in drain : inbox' = Append(inbox, Deliver(n)) /\ drain' = drain \ {n}
    BY <1>7 DEF DrainEmit
  <2>2. n \in Ids BY DEF Types
  <2>3. Range(inbox') = Range(inbox) \cup {Deliver(n)}
    BY <1>0, <2>1, <2>2, DeliverEvents, Lengthened
  <2>4. \A i \in Ids : OnItsWay(i) => OnItsWay(i)'
    BY <1>7, <2>1, <2>3 DEF DrainEmit, OnItsWay
  <2> QED BY <1>1, <1>7, <2>4 DEF DrainEmit
<1>8. CASE Disconnect \/ Restart \/ CloseTab
  BY <1>8 DEF Disconnect, Restart, CloseTab, Cut, NothingMissed
<1>9. ASSUME NEW r \in up, Receive(r) PROVE NothingMissed'
  <2>1. /\ UNCHANGED <<conn, target, emitting, drain, inbox, cur, orphans>>
        /\ missed \subseteq missed' /\ handling \subseteq handling' /\ up' = up \ {r}
        /\ r \in handling' \/ (r.kind = "ack" => r.id \in missed')
    BY <1>9 DEF Receive
  <2>2. \A i \in Ids : OnItsWay(i) => OnItsWay(i)' BY <2>1, AckShapes DEF OnItsWay
  <2> QED BY <1>1, <2>1, <2>2
<1>10. ASSUME NEW r \in handling \cup orphans, HandleSend(r) \/ RefuseSend(r)
       PROVE  NothingMissed'
  <2>1. /\ UNCHANGED <<conn, target, emitting, missed, drain, inbox, cur, up>>
        /\ r.kind = "send" /\ handling' = handling \ {r} /\ orphans' = orphans \ {r}
    BY <1>10 DEF HandleSend, RefuseSend
  <2>2. \A i \in Ids : OnItsWay(i) => OnItsWay(i)' BY <2>1, AckShapes DEF OnItsWay
  <2> QED BY <1>1, <2>1, <2>2
<1>11. ASSUME NEW r \in handling \cup orphans, HandleAck(r) PROVE NothingMissed'
  <2>1. r \in Requests /\ r.kind = "ack" /\ r.id \in Ids /\ r = AckRequest(r.id)
    BY <1>0, <1>11, AckShapes DEF HandleAck
  <2>2. /\ UNCHANGED <<conn, emitting, missed, drain, inbox, cur, up>>
        /\ handling' = handling \ {r} /\ orphans' = orphans \ {r}
    BY <1>11 DEF HandleAck
  <2>3. target'[r.id] # "pending" /\ \A i \in Ids : target'[i] = "pending" => target[i] = "pending"
    BY <1>11, <2>1 DEF HandleAck, Types
  <2>4. \A i \in Ids : AckRequest(i) = r => i = r.id BY AckShapes
  <2>5. \A i \in Ids : OnItsWay(i) => OnItsWay(i)' \/ i = r.id BY <2>2, <2>4 DEF OnItsWay
  <2> QED BY <1>1, <2>2, <2>3, <2>5
<1>12. ASSUME inbox # <<>>, inbox' = Tail(inbox),
              \A i \in Ids : Head(inbox) = Deliver(i) => i \in missed' \/ cur' = i,
              missed \subseteq missed', cur' = cur \/ cur = 0,
              UNCHANGED <<conn, target, emitting, drain, up, handling, orphans>>
       PROVE  NothingMissed'
  <2>1. \A e \in Range(inbox) : e = Head(inbox) \/ e \in Range(inbox')
    <3>1. /\ Len(inbox) \in Nat /\ DOMAIN inbox = 1 .. Len(inbox) /\ Head(inbox) = inbox[1]
          /\ inbox' \in Seq(Events) /\ Len(inbox') = Len(inbox) - 1
          /\ \A k \in 1 .. Len(inbox') : inbox'[k] = inbox[k + 1]
      BY <1>0, <1>12, LenProperties, HeadTailProperties
    <3>2. DOMAIN inbox' = 1 .. Len(inbox) - 1 BY <3>1, LenProperties
    <3>3. ASSUME NEW k \in 1 .. Len(inbox), k # 1
          PROVE  k - 1 \in DOMAIN inbox' /\ inbox'[k - 1] = inbox[k]
      BY <3>1, <3>2, <3>3
    <3> QED BY <3>1, <3>3 DEF Range
  <2>2. \A i \in Ids : OnItsWay(i) => OnItsWay(i)'
    <3>1. \A i \in Ids : cur = i => cur' = i BY <1>12, StoreBounds DEF Ids
    <3> QED BY <1>12, <2>1, <3>1 DEF OnItsWay
  <2> QED BY <1>1, <1>12, <2>2
<1>13. CASE Unheard
  <2>1. Head(inbox) \in Events BY <1>0, <1>13, FirstOf DEF Unheard
  <2>2. \A i \in Ids : Head(inbox) = Deliver(i) => i \in missed'
    BY <1>13 DEF Unheard, Deliver
  <2> QED BY <1>12, <1>13, <2>2 DEF Unheard
<1>14. CASE StartFlush \/ HandleDormancyReturn
  <2>1. \A i \in Ids : Head(inbox) # Deliver(i)
    BY <1>14 DEF StartFlush, HandleDormancyReturn, StartTask, Deliver
  <2> QED BY <1>12, <1>14, <2>1 DEF StartFlush, HandleDormancyReturn, StartTask
<1>15. CASE StartDeliver
  <2>1. cur = 0 BY <1>15 DEF StartDeliver, StartTask, TaskKeeps
  <2>2. \A i \in Ids : Head(inbox) = Deliver(i) => cur' = i BY <1>15 DEF StartDeliver, Deliver
  <2> QED BY <1>12, <1>15, <2>1, <2>2 DEF StartDeliver, StartTask
<1>16. CASE FetchFailed
  <2>1. \A i \in Ids : OnItsWay(i) => OnItsWay(i)' BY <1>16 DEF FetchFailed, OnItsWay
  <2> QED BY <1>1, <1>16, <2>1 DEF FetchFailed
<1>17. CASE EmitAck
  <2>1. \A i \in Ids : OnItsWay(i) => OnItsWay(i)' BY <1>17 DEF EmitAck, OnItsWay
  <2> QED BY <1>1, <1>17, <2>1 DEF EmitAck
<1>18. CASE Send
  <2>1. up \subseteq up' /\ UNCHANGED <<conn, target, emitting, missed, drain, inbox, cur, handling, orphans>>
    BY <1>18 DEF Send
  <2> QED BY <1>1, <2>1 DEF OnItsWay
<1>19. CASE \/ MarkDormant \/ Register \/ Attach \/ Fetched \/ Store \/ Confirm \/ Timeout
            \/ UNCHANGED vars \/ \E c \in Drafts : Compose(c)
  <2>1. /\ conn' \in {"draining", "ready"} => conn \in {"draining", "ready"}
        /\ UNCHANGED <<target, emitting, missed, drain, inbox, cur, up, handling, orphans>>
    BY <1>19 DEF MarkDormant, Register, Attach, Fetched, Store, Confirm, Timeout, Compose, vars
  <2> QED BY <1>1, <2>1 DEF OnItsWay
<1> QED BY <1>2, <1>3, <1>4, <1>5, <1>6, <1>7, <1>8, <1>9, <1>10, <1>11, <1>13, <1>14, <1>15,
           <1>16, <1>17, <1>18, <1>19 DEF Next, Engine

\* The draft whose turn it is, is one.
LEMMA OneTurn ==
  ASSUME NEW c \in Drafts, NEW d \in Drafts, Turn(c), Turn(d) PROVE c = d
<1>1. c \in Nat /\ d \in Nat BY StoreBounds DEF Drafts
<1>2. c <= d /\ d <= c BY DEF Turn
<1> QED BY <1>1, <1>2

\* It is enough that no connect event comes in, and that no draft owes or has sent more.
LEMMA CountHolds ==
  ASSUME Types, SendsCounted, Flushes \in Nat, Flushes' \in Nat, Flushes' <= Flushes,
         UNCHANGED connects,
         \A c \in Drafts :
           /\ tries'[c] + Owed(c)' <= tries[c] + Owed(c)
           /\ tries'[c] \in Nat
           /\ outbox'[c] = "none" => outbox[c] = "none" /\ c \notin batch' /\ tries'[c] = tries[c]
  PROVE  SendsCounted'
<1>1. connects \in Nat BY StoreBounds, SyncBounds DEF Types
<1>2. Flushes' <= connects' BY <1>1 DEF SendsCounted
<1>3. ASSUME NEW c \in Drafts
      PROVE  /\ tries'[c] + Owed(c)' + Flushes' <= connects' + 1
             /\ outbox'[c] = "none" => c \notin batch' /\ tries'[c] = 0
  <2>1. tries[c] \in Nat /\ Owed(c) \in {0, 1} /\ Owed(c)' \in {0, 1}
    BY DEF Types, Owed
  <2>2. tries[c] + Owed(c) + Flushes <= connects + 1 BY DEF SendsCounted
  <2>3. tries'[c] + Owed(c)' <= tries[c] + Owed(c) /\ tries'[c] \in Nat OBVIOUS
  <2>4. tries'[c] + Owed(c)' + Flushes' <= connects' + 1 BY <1>1, <2>1, <2>2, <2>3
  <2> QED BY <2>4 DEF SendsCounted
<1> QED BY <1>2, <1>3 DEF SendsCounted

\* A connect event is counted when its connection opens and gone when its flush begins; an
\* emit settles what its draft was owed.
LEMMA CountStep ==
  ASSUME Types, TaskKeeps, SendsCounted, [Next]_vars
  PROVE  SendsCounted'
<1>0. inbox \in Seq(Events) /\ connects \in Nat /\ Flushes \in Nat /\ Flushes <= connects
  BY StoreBounds, SyncBounds, ConnectsFinite DEF Types, SendsCounted, Flushes
<1>1. ASSUME inbox' \in Seq(Events), UNCHANGED connects, Flushes' <= Flushes,
             \A c \in Drafts : Owed(c)' <= Owed(c),
             \A c \in Drafts : outbox'[c] = "none" => outbox[c] = "none" /\ c \notin batch',
             UNCHANGED tries
      PROVE  SendsCounted'
  <2>1. Flushes' \in Nat BY <1>1, ConnectsFinite DEF Flushes
  <2>2. \A c \in Drafts : tries[c] \in Nat /\ Owed(c) \in Nat /\ Owed(c)' \in Nat
    BY DEF Types, Owed
  <2>3. \A c \in Drafts : tries'[c] + Owed(c)' <= tries[c] + Owed(c) BY <1>1, <2>2
  <2> QED BY <1>0, <1>1, <2>1, <2>2, <2>3, CountHolds
<1>2. ASSUME UNCHANGED <<connects, outbox, batch, at, tries>>,
             inbox' \in Seq(Events), Flushes' <= Flushes
      PROVE  SendsCounted'
  <2>1. \A c \in Drafts : Owed(c)' = Owed(c) /\ Owed(c) \in Nat BY <1>2 DEF Owed, Turn
  <2>2. \A c \in Drafts : outbox[c] = "none" => c \notin batch BY DEF SendsCounted
  <2> QED BY <1>1, <1>2, <2>1, <2>2
<1>3. \A e \in Events : e # Connect("connect") =>
        /\ Append(inbox, e) \in Seq(Events)
        /\ Cardinality(ConnectsIn(Append(inbox, e))) = Flushes
  BY <1>0, ConnectsLengthened, Lengthened DEF Flushes
<1>4. CASE Open
  <2>1. /\ inbox' = Append(inbox, Connect("connect")) /\ connects' = connects + 1
        /\ UNCHANGED <<outbox, batch, at, tries>>
    BY <1>4 DEF Open
  <2>2. Flushes' = Flushes + 1 BY <1>0, <2>1, DeliverEvents, ConnectsLengthened DEF Flushes
  <2>3. \A c \in Drafts : Owed(c)' = Owed(c) /\ Owed(c) \in Nat /\ tries[c] \in Nat
    BY <2>1 DEF Owed, Turn, Types
  <2>4. \A c \in Drafts : tries'[c] + Owed(c)' + Flushes' <= connects' + 1
    <3> TAKE c \in Drafts
    <3>1. tries[c] + Owed(c) + Flushes <= connects + 1 BY DEF SendsCounted
    <3> QED BY <1>0, <2>1, <2>2, <2>3, <3>1
  <2> QED BY <1>0, <2>1, <2>2, <2>4 DEF SendsCounted
<1>5. CASE Announce \/ DrainEmit \/ \E i \in Ids : Emit(i)
  <2>1. inbox' = inbox \/ \E e \in Events : e # Connect("connect") /\ inbox' = Append(inbox, e)
    <3>1. Connect("dormancy") # Connect("connect") BY DEF Connect
    <3>2. drain \subseteq Ids BY DEF Types
    <3> QED BY <1>5, <3>1, <3>2, DeliverEvents DEF Announce, DrainEmit, Emit
  <2>2. inbox' \in Seq(Events) /\ Cardinality(ConnectsIn(inbox')) = Flushes
    <3>1. CASE inbox' = inbox BY <1>0, <3>1 DEF Flushes
    <3>2. CASE inbox' # inbox BY <1>3, <2>1, <3>2
    <3> QED BY <3>1, <3>2
  <2>3. Flushes' <= Flushes BY <1>0, <2>2 DEF Flushes
  <2> QED BY <1>2, <1>5, <2>2, <2>3 DEF Announce, DrainEmit, Emit
<1>6. CASE Disconnect \/ Restart
  <2>1. inbox' \in Seq(Events) /\ Flushes' <= Flushes
    BY <1>0, <1>6, Shortened, ConnectsCut DEF Disconnect, Restart, Flushes
  <2> QED BY <1>2, <1>6, <2>1 DEF Disconnect, Restart
<1>7. ASSUME inbox # <<>>, inbox' = Tail(inbox)
      PROVE  /\ inbox' \in Seq(Events) /\ Flushes' \in Nat
             /\ Flushes = Flushes' + (IF Head(inbox) = Connect("connect") THEN 1 ELSE 0)
  BY <1>0, <1>7, Shortened, ConnectsTaken, ConnectsFinite DEF Flushes
<1>8. CASE Unheard \/ HandleDormancyReturn \/ StartDeliver
  <2>1. inbox # <<>> /\ inbox' = Tail(inbox)
    BY <1>8 DEF Unheard, HandleDormancyReturn, StartDeliver, StartTask
  <2>2. inbox' \in Seq(Events) /\ Flushes' <= Flushes BY <1>7, <2>1
  <2>3. CASE Unheard \/ HandleDormancyReturn
    BY <1>2, <2>2, <2>3 DEF Unheard, HandleDormancyReturn, InsertDormancyReturn
  <2>4. CASE StartDeliver
    <3>1. /\ UNCHANGED <<connects, outbox, batch, tries>> /\ batch = {}
      BY <2>4 DEF StartDeliver, StartTask, TaskKeeps
    <3>2. \A c \in Drafts : Owed(c)' = 0 /\ Owed(c) = 0 BY <3>1 DEF Owed
    <3> QED BY <1>1, <2>2, <3>1, <3>2 DEF SendsCounted
  <2> QED BY <1>8, <2>3, <2>4
<1>9. CASE StartFlush
  <2>1. /\ inbox # <<>> /\ inbox' = Tail(inbox) /\ Head(inbox).kind = "connect"
        /\ batch' = {c \in Drafts : outbox[c] \notin {"none", "sent"}}
        /\ UNCHANGED <<connects, outbox, tries>> /\ batch = {}
    BY <1>9 DEF StartFlush, StartTask, TaskKeeps, Queued
  <2>2. Head(inbox) = Connect("connect")
    <3>1. Head(inbox) \in Events BY <1>0, <2>1, FirstOf
    <3> QED BY <2>1, <3>1 DEF Events, Connect
  <2>3. Flushes' \in Nat /\ Flushes = Flushes' + 1 BY <1>7, <2>1, <2>2
  <2>4. \A c \in Drafts : Owed(c)' \in {0, 1} /\ Owed(c) = 0 /\ tries[c] \in Nat
    BY <2>1 DEF Owed, Types
  <2>5. \A c \in Drafts : tries'[c] + Owed(c)' + Flushes' <= connects' + 1
    <3> TAKE c \in Drafts
    <3>1. tries[c] + Owed(c) + Flushes <= connects + 1 BY DEF SendsCounted
    <3> QED BY <1>0, <2>1, <2>3, <2>4, <3>1
  <2>6. Flushes' <= connects'
    <3>1. connects' = connects BY <2>1
    <3>2. \A a, b, c \in Nat : a = b + 1 /\ a <= c => b <= c OBVIOUS
    <3>3. Flushes' <= connects BY <1>0, <2>3, <3>2, Zenon
    <3> QED BY <3>1, <3>3
  <2>7. \A c \in Drafts : outbox'[c] = "none" => c \notin batch' /\ tries'[c] = 0
    BY <2>1 DEF SendsCounted
  <2> QED BY <2>5, <2>6, <2>7 DEF SendsCounted
<1>10. CASE CloseTab
  <2>1. /\ inbox' = <<>> /\ batch' = {} /\ UNCHANGED <<connects, outbox, tries>>
    BY <1>10 DEF CloseTab
  <2>2. inbox' \in Seq(Events) /\ Flushes' <= Flushes
    BY <1>0, <2>1, Shortened, ConnectsCut DEF Flushes
  <2>3. \A c \in Drafts : Owed(c)' = 0 /\ Owed(c) \in Nat BY <2>1 DEF Owed
  <2> QED BY <1>1, <2>1, <2>2, <2>3
<1>11. ASSUME NEW c \in Drafts, Compose(c) PROVE SendsCounted'
  <2>1. /\ UNCHANGED <<connects, inbox, tries>> /\ outbox[c] = "none" /\ batch = {}
        /\ outbox' = [outbox EXCEPT ![c] = "pending"]
        /\ batch' = {c} \/ batch' = batch
    BY <1>11 DEF Compose, SetStatus, TaskKeeps
  <2>2. outbox'[c] = "pending" /\ \A d \in Drafts \ {c} : outbox'[d] = outbox[d]
    BY <2>1 DEF Types
  <2>3. Flushes' = Flushes /\ tries[c] = 0 BY <2>1 DEF Flushes, SendsCounted
  <2>4. ASSUME NEW d \in Drafts
        PROVE  /\ tries'[d] + Owed(d)' + Flushes' <= connects' + 1
               /\ outbox'[d] = "none" => d \notin batch' /\ tries'[d] = 0
    <3>1. CASE d = c
      <4>1. Owed(c)' \in {0, 1} BY DEF Owed
      <4> QED BY <1>0, <2>1, <2>2, <2>3, <3>1, <4>1
    <3>2. CASE d # c
      <4>1. Owed(d)' = 0 /\ Owed(d) = 0 BY <2>1, <3>2 DEF Owed
      <4> QED BY <2>1, <2>2, <2>3, <3>2, <4>1 DEF SendsCounted
    <3> QED BY <3>1, <3>2
  <2> QED BY <1>0, <2>1, <2>3, <2>4 DEF SendsCounted
<1>12. CASE Send
  <2>1. PICK c \in Drafts : /\ Turn(c) /\ outbox' = [outbox EXCEPT ![c] = "sending"]
                            /\ tries' = [tries EXCEPT ![c] = @ + 1]
    BY <1>12 DEF Send, SetStatus
  <2>2. UNCHANGED <<connects, inbox, batch>> /\ at = "send" /\ at' = "await" BY <1>12 DEF Send
  <2>3. outbox'[c] = "sending" /\ \A d \in Drafts \ {c} : outbox'[d] = outbox[d]
    BY <2>1 DEF Types
  <2>4. /\ tries'[c] = tries[c] + 1 /\ \A d \in Drafts \ {c} : tries'[d] = tries[d]
        /\ \A d \in Drafts : tries[d] \in Nat
    BY <2>1 DEF Types
  <2>5. Owed(c) = 1 /\ Owed(c)' = 0 BY <2>1, <2>2 DEF Owed, Turn
  <2>6. \A d \in Drafts \ {c} : Owed(d)' \in Nat /\ Owed(d) = Owed(d)'
    BY <2>1, <2>2, OneTurn DEF Owed, Turn
  <2>7. \A d \in Drafts : tries'[d] + Owed(d)' <= tries[d] + Owed(d) /\ tries'[d] \in Nat
    BY <2>4, <2>5, <2>6
  <2>8. \A d \in Drafts : outbox'[d] = "none" =>
          outbox[d] = "none" /\ d \notin batch' /\ tries'[d] = tries[d]
    BY <2>2, <2>3, <2>4 DEF SendsCounted
  <2>9. Flushes' = Flushes BY <2>2 DEF Flushes
  <2> QED BY <1>0, <2>2, <2>7, <2>8, <2>9, CountHolds
<1>13. ASSUME NEW c \in Drafts, Turn(c), NextInBatch(c), at = "await",
              outbox'[c] # "none", \A d \in Drafts \ {c} : outbox'[d] = outbox[d],
              UNCHANGED <<connects, inbox, tries>>
       PROVE  SendsCounted'
  <2>1. batch' = batch \ {c} /\ at' # "await" BY <1>13 DEF NextInBatch
  <2>2. \A d \in Drafts : Owed(d)' <= Owed(d)
    <3> TAKE d \in Drafts
    <3>1. CASE d = c BY <2>1, <3>1 DEF Owed
    <3>2. CASE d # c
      <4>1. ~ Turn(d) BY <1>13, <3>2, OneTurn
      <4> QED BY <2>1, <3>2, <4>1 DEF Owed
    <3> QED BY <3>1, <3>2
  <2>3. \A d \in Drafts : outbox'[d] = "none" => outbox[d] = "none" /\ d \notin batch'
    BY <1>13, <2>1 DEF SendsCounted
  <2>4. Flushes' <= Flushes BY <1>0, <1>13 DEF Flushes
  <2> QED BY <1>0, <1>1, <1>13, <2>2, <2>3, <2>4
<1>14. CASE Confirm
  <2>1. PICK r \in replies : Turn(r.draft) /\ Reconcile(r.draft, r.id) /\ NextInBatch(r.draft)
    BY <1>14 DEF Confirm
  <2>2. r.draft \in Drafts BY DEF Types
  <2>3. outbox' = [outbox EXCEPT ![r.draft] = "sent"] BY <2>1 DEF Reconcile
  <2>4. outbox'[r.draft] # "none" /\ \A d \in Drafts \ {r.draft} : outbox'[d] = outbox[d]
    BY <2>2, <2>3 DEF Types
  <2>5. at = "await" /\ UNCHANGED <<connects, inbox, tries>> BY <1>14 DEF Confirm
  <2> QED BY <1>13, <2>1, <2>2, <2>4, <2>5
<1>15. CASE Timeout
  <2>1. PICK c \in Drafts : Turn(c) /\ SetStatus(c, "failed") /\ NextInBatch(c)
    BY <1>15 DEF Timeout
  <2>2. outbox'[c] # "none" /\ \A d \in Drafts \ {c} : outbox'[d] = outbox[d]
    BY <2>1 DEF SetStatus, Types
  <2>3. at = "await" /\ UNCHANGED <<connects, inbox, tries>> BY <1>15 DEF Timeout
  <2> QED BY <1>13, <2>1, <2>2, <2>3
<1>16. CASE Fetched \/ Store \/ EmitAck \/ FetchFailed
  <2>1. /\ UNCHANGED <<connects, inbox, outbox, batch, tries>> /\ batch = {}
    BY <1>16 DEF Fetched, Store, InsertIncoming, EmitAck, FetchFailed, TaskKeeps
  <2>2. \A c \in Drafts : Owed(c)' = 0 /\ Owed(c) = 0 BY <2>1 DEF Owed
  <2>3. Flushes' <= Flushes BY <1>0, <2>1 DEF Flushes
  <2> QED BY <1>0, <1>1, <2>1, <2>2, <2>3
<1>17. CASE \/ PeerSend \/ MarkDormant \/ Select \/ Update \/ Drain \/ Register \/ Attach
            \/ \E i \in Ids : Expire(i)
            \/ \E r \in up : Receive(r)
            \/ \E r \in handling \cup orphans : HandleSend(r) \/ RefuseSend(r) \/ HandleAck(r)
  <2>1. UNCHANGED <<connects, inbox, outbox, batch, at, tries>>
    BY <1>17 DEF PeerSend, MarkDormant, Select, Update, Drain, Register, Attach, Expire, Receive,
         HandleSend, RefuseSend, HandleAck
  <2>2. Flushes' <= Flushes BY <1>0, <2>1 DEF Flushes
  <2> QED BY <1>0, <1>2, <2>1, <2>2
<1>18. CASE UNCHANGED vars
  <2>1. UNCHANGED <<connects, inbox, outbox, batch, at, tries>> BY <1>18 DEF vars
  <2>2. Flushes' <= Flushes BY <1>0, <2>1 DEF Flushes
  <2> QED BY <1>0, <1>2, <2>1, <2>2
<1> QED BY <1>4, <1>5, <1>6, <1>8, <1>9, <1>10, <1>11, <1>12, <1>14, <1>15, <1>16, <1>17, <1>18
        DEF Next, Engine

\* The types are kept by every step.
LEMMA TypeStep ==
  ASSUME Types, OthersCome, RepliesAreNew, AcksPassed, timeline' \in Seq(Entries), [Next]_vars
  PROVE  Types'
<1>1. CASE Next BY <1>1, TypeRelay, TypeConnection, TypeEngine DEF Next
<1>2. CASE UNCHANGED vars BY <1>2 DEF vars, Types
<1> QED BY <1>1, <1>2

LEMMA InvStep == Types /\ IInv /\ [Next]_vars => Types' /\ IInv'
<1> SUFFICES ASSUME Types, IInv, [Next]_vars PROVE Types' /\ IInv' OBVIOUS
<1>1. OthersCome /\ RepliesAreNew /\ AcksPassed /\ TimelineBelow
      /\ NoSilentHole /\ ToldOnce /\ AckFollowsWrite
      /\ TaskKeeps /\ NothingMissed /\ SendsCounted
  BY DEF IInv
<1>2. StoreStep BY <1>1, Extends
<1>3. OriginsSettled BY Settles
<1>4. timeline' \in Seq(Entries) /\ TimelineBelow' /\ NoSilentHole' /\ ToldOnce'
  BY <1>1, <1>2, <1>3, StoreInv
<1>5. Types' BY <1>1, <1>4, TypeStep
<1>6. OthersCome' BY <1>1, OthersStep
<1>7. RepliesAreNew' BY <1>1, RepliesStep
<1>8. AcksPassed' /\ AckFollowsWrite' BY <1>1, <1>2, AcksStep
<1>9. TaskKeeps' /\ NothingMissed' /\ SendsCounted'
  BY <1>1, TaskStep, MissedStep, CountStep
<1> QED BY <1>4, <1>5, <1>6, <1>7, <1>8, <1>9 DEF IInv

-----------------------------------------------------------------------------
(* The theorems                                                             *)

\* The invariant holds however messages, drains, redeliveries, failures and closed
\* tabs interleave (createSyncEngine, handleConnection, the repository).
THEOREM Inductive == Spec => [](Types /\ IInv)
<1>1. Init => Types /\ IInv BY InitInv
<1>2. Types /\ IInv /\ [Next]_vars => (Types /\ IInv)' BY InvStep
<1> QED BY <1>1, <1>2, PTL DEF Spec

\* A device shows what it does not have: no number between its first message and its
\* cursor is neither a message nor part of a gap (classifyAndAdvanceCursor).
THEOREM HolesAreShown == Spec => []NoSilentHole
<1>1. Types /\ IInv => NoSilentHole BY DEF IInv
<1> QED BY <1>1, Inductive, PTL

\* Drain, live delivery, redelivery and the device's own sends never tell a number twice,
\* but for an own message within a gap (insertIncomingEnvelope, reconcileOutboxEntry).
THEOREM NumbersAreToldOnce == Spec => []ToldOnce
<1>1. Types /\ IInv => ToldOnce BY DEF IInv
<1> QED BY <1>1, Inductive, PTL

\* The relay has recorded a delivery only if the device's cursor has reached the number,
\* whatever was closed, cut off or restarted in between (handleEnvelopeDeliver).
THEOREM AcksFollowWrites == Spec => []AckFollowsWrite
<1>1. Types /\ IInv => AckFollowsWrite BY DEF IInv
<1> QED BY <1>1, Inductive, PTL

\* The room is joined before the drain: once a connection has drained, an envelope that is
\* pending for this device is on its way to it or noted as failed (handleConnection).
THEOREM NothingIsMissed == Spec => []NothingMissed
<1>1. Types /\ IInv => NothingMissed BY DEF IInv
<1> QED BY <1>1, Inductive, PTL

\* The variables keep their ranges, and a draft is emitted at most once for its composition
\* and once for each connection (flushOutbox, sendMessage).
THEOREM TypeCorrect == Spec => []TypeOK
<1>1. Types /\ IInv => TypeOK
  <2> SUFFICES ASSUME Types, IInv, NEW c \in Drafts PROVE tries[c] <= MaxConnects + 1
    BY DEF TypeOK
  <2>1. tries[c] + Owed(c) + Flushes <= connects + 1 BY DEF IInv, SendsCounted
  <2>2. Owed(c) \in {0, 1} /\ tries[c] \in Nat BY DEF Owed, Types
  <2>3. Flushes \in Nat BY ConnectsFinite DEF Types, Flushes
  <2> QED BY <2>1, <2>2, <2>3, SyncBounds DEF Types
<1> QED BY <1>1, Inductive, PTL
=============================================================================
