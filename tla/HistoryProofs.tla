--------------------------- MODULE HistoryProofs ---------------------------
(***************************************************************************)
(* History for any number of messages, of backups and of reloads: what a   *)
(* device has acked it has, and to import a file again changes nothing.    *)
(***************************************************************************)
EXTENDS History, SequenceTheorems, FiniteSetTheorems, WellFoundedInduction, TLAPS

USE DEF relay, engines, stores, backup, vars

\* The limits one by one.
LEMMA Limits == MaxSeq \in Nat /\ MaxFiles \in Nat /\ MaxUpsets \in Nat
BY HistoryBounds

Types == TypeOK /\ Shapes
Inv == Types /\ IInv

-----------------------------------------------------------------------------
(* Sets of numbers in their order                                           *)

Lists(S, q) == q \in [1 .. Cardinality(S) -> S] /\ Range(q) = S /\ Increasing(q)

\* One more number, above all the others, goes last.
LEMMA ListsOneMore ==
  ASSUME NEW S \in SUBSET Nat, IsFiniteSet(S), NEW n \in Nat, \A k \in S : k < n,
         NEW p, Lists(S, p)
  PROVE  \E q : Lists(S \cup {n}, q)
<1> DEFINE N == Cardinality(S)  T == S \cup {n}
           q == [k \in 1 .. N + 1 |-> IF k = N + 1 THEN n ELSE p[k]]
<1>1. N \in Nat /\ n \notin S BY FS_CardinalityType
<1>2. Cardinality(T) = N + 1 BY <1>1, FS_AddElement
<1> HIDE DEF N
<1>3. p \in [1 .. N -> S] /\ Range(p) = S /\ Increasing(p) BY DEF Lists, N
<1>4. q \in [1 .. N + 1 -> T] BY <1>1, <1>3
<1>5. Range(q) = T
  <2>1. \A k \in 1 .. N : q[k] = p[k] BY <1>1
  <2>2. q[N + 1] = n /\ N + 1 \in DOMAIN q BY <1>1
  <2>3. DOMAIN p = 1 .. N /\ DOMAIN q = 1 .. N + 1 /\ 1 .. N \subseteq 1 .. N + 1
    BY <1>1, <1>3
  <2>4. S \subseteq Range(q)
    <3> SUFFICES ASSUME NEW x \in S PROVE x \in Range(q) OBVIOUS
    <3>1. PICK k \in 1 .. N : x = p[k] BY <1>3, <2>3 DEF Range
    <3>2. k \in DOMAIN q /\ q[k] = x BY <2>1, <2>3, <3>1
    <3> QED BY <3>2 DEF Range
  <2>5. n \in Range(q) BY <2>2 DEF Range
  <2>6. Range(q) \subseteq T
    <3> HIDE DEF q, T
    <3> QED BY <1>4 DEF Range
  <2> QED BY <2>4, <2>5, <2>6
<1>6. Increasing(q)
  <2> SUFFICES ASSUME NEW a \in 1 .. N + 1, NEW b \in 1 .. N + 1, a < b PROVE q[a] < q[b]
    BY DEF Increasing
  <2>1. a \in 1 .. N /\ q[a] = p[a] /\ p[a] \in S BY <1>1, <1>3
  <2>2. CASE b = N + 1 BY <2>1, <2>2
  <2>3. CASE b # N + 1
    <3>1. b \in 1 .. N /\ q[b] = p[b] BY <1>1, <2>3
    <3> QED BY <1>3, <2>1, <3>1 DEF Increasing
  <2> QED BY <2>2, <2>3
<1> QED BY <1>2, <1>4, <1>5, <1>6 DEF Lists

\* Every set of numbers up to a bound can be put in order.
LEMMA ListsExist == \A n \in Nat : \A S \in SUBSET (1 .. n) : \E q : Lists(S, q)
<1> DEFINE Bad == {n \in Nat : \E S \in SUBSET (1 .. n) : \A q : ~Lists(S, q)}
<1> SUFFICES ASSUME Bad # {} PROVE FALSE OBVIOUS
<1>1. PICK n \in Bad : \A m \in Bad : ~ (<<m, n>> \in OpToRel(<, Nat))
  <2>1. Bad \subseteq Nat OBVIOUS
  <2> HIDE DEF Bad
  <2> QED BY <2>1, NatLessThanWellFounded, WFMin
<1>2. n \in Nat /\ \A m \in Bad : ~ (m < n) BY <1>1 DEF OpToRel
<1>3. PICK S \in SUBSET (1 .. n) : \A q : ~Lists(S, q) OBVIOUS
<1>4. CASE n = 0
  <2>1. S = {} BY <1>3, <1>4
  <2>2. Cardinality(S) = 0 BY <2>1, FS_EmptySet
  <2>3. <<>> \in [1 .. 0 -> {}] /\ Range(<<>>) = {} /\ Increasing(<<>>) BY DEF Range, Increasing
  <2>4. Lists(S, <<>>) BY <2>1, <2>2, <2>3 DEF Lists
  <2> QED BY <1>3, <2>4
<1>5. CASE n # 0
  <2>1. n - 1 \in Nat /\ n - 1 < n BY <1>2, <1>5
  <2>2. n - 1 \notin Bad BY <1>2, <2>1
  <2>3. \A T \in SUBSET (1 .. (n - 1)) : \E q : Lists(T, q) BY <2>1, <2>2
  <2>4. S \ {n} \in SUBSET (1 .. (n - 1)) BY <1>2, <1>3
  <2>5. PICK p : Lists(S \ {n}, p) BY <2>3, <2>4
  <2>6. IsFiniteSet(S \ {n})
    <3>1. IsFiniteSet(1 .. n) BY <1>2, FS_Interval
    <3>2. S \ {n} \in SUBSET (1 .. n) BY <1>3
    <3> QED BY <3>1, <3>2, FS_Subset
  <2>7. n \in S
    <3> SUFFICES ASSUME n \notin S PROVE FALSE OBVIOUS
    <3>1. S \ {n} = S OBVIOUS
    <3> QED BY <1>3, <2>5, <3>1
  <2>8. S = (S \ {n}) \cup {n} BY <2>7
  <2>9. S \ {n} \in SUBSET Nat /\ \A k \in S \ {n} : k < n BY <1>2, <2>4
  <2>10. \E q : Lists((S \ {n}) \cup {n}, q) BY <1>2, <2>5, <2>6, <2>9, ListsOneMore
  <2> QED BY <1>3, <2>8, <2>10
<1> QED BY <1>4, <1>5

\* So Ordered lists the members of the set.
LEMMA OrderedIs ==
  ASSUME NEW S \in SUBSET Ids
  PROVE  Ordered(S) \in Seq(Ids) /\ Range(Ordered(S)) = S /\ Increasing(Ordered(S))
<1>1. PICK p : Lists(S, p) BY ListsExist, Limits DEF Ids
<1>2. Lists(S, Ordered(S))
  <2>1. \E q \in [1 .. Cardinality(S) -> S] : Range(q) = S /\ Increasing(q) BY <1>1 DEF Lists
  <2> QED BY <2>1 DEF Lists, Ordered
<1>3. IsFiniteSet(S)
  <2>1. IsFiniteSet(Ids) BY Limits, FS_Interval DEF Ids
  <2> QED BY <2>1, FS_Subset
<1>4. Cardinality(S) \in Nat BY <1>3, FS_CardinalityType
<1>5. Ordered(S) \in Seq(S) BY <1>2, <1>4 DEF Lists
<1>6. Ordered(S) \in Seq(Ids) BY <1>5, SeqMonotonic
<1> QED BY <1>2, <1>6 DEF Lists

-----------------------------------------------------------------------------
(* Timelines                                                                *)

\* An entry is the message of one number, or none.
LEMMA EntryKinds ==
  /\ \A i \in Ids : Message(i) \in Entries
  /\ HistoryStart \in Entries /\ \A i, j \in Ids : Gap(i, j) \in Entries
  /\ \A i, j : Message(i) = Message(j) => i = j
  /\ \A i, j, k : Message(i) # Gap(j, k) /\ Message(i) # HistoryStart
  /\ \A x \in Entries : x.kind = "message" => \E i \in Ids : x = Message(i)
<1>1. \A i, j : Message(i) = Message(j) => i = j
  <2> SUFFICES ASSUME NEW i, NEW j, Message(i) = Message(j) PROVE i = j OBVIOUS
  <2>1. Message(i).from = i /\ Message(j).from = j BY DEF Message
  <2> QED BY <2>1
<1>2. \A i, j, k : Message(i).kind = "message" /\ Gap(j, k).kind = "gap"
                   /\ HistoryStart.kind = "history_start"
  BY DEF Message, Gap, HistoryStart
<1>3. \A i, j, k : Message(i) # Gap(j, k) /\ Message(i) # HistoryStart BY <1>2
<1>4. \A x \in Entries : x.kind = "message" => \E i \in Ids : x = Message(i)
  BY <1>2 DEF Entries
<1> QED BY <1>1, <1>3, <1>4 DEF Entries

LEMMA StoredIds == ASSUME NEW s PROVE Stored(s) \subseteq Ids BY DEF Stored

\* A timeline that another is put behind.
LEMMA Joined ==
  ASSUME NEW s \in Seq(Entries), NEW t \in Seq(Entries)
  PROVE  /\ s \o t \in Seq(Entries) /\ Stored(s \o t) = Stored(s) \cup Stored(t)
         /\ Unique(s) /\ Unique(t) /\ Stored(s) \cap Stored(t) = {} => Unique(s \o t)
<1>1. s \o t \in Seq(Entries) /\ Range(s \o t) = Range(s) \cup Range(t)
  BY ConcatProperties, RangeConcatenation
<1>2. Stored(s \o t) = Stored(s) \cup Stored(t) BY <1>1 DEF Stored
<1>3. ASSUME Unique(s), Unique(t), Stored(s) \cap Stored(t) = {} PROVE Unique(s \o t)
  <2> DEFINE r == s \o t  M == Len(s)  N == Len(t)
  <2>1. /\ M \in Nat /\ N \in Nat /\ DOMAIN s = 1 .. M /\ DOMAIN t = 1 .. N
        /\ r \in Seq(Entries) /\ DOMAIN r = 1 .. M + N
        /\ \A k \in 1 .. M + N : r[k] = IF k <= M THEN s[k] ELSE t[k - M]
    BY ConcatProperties, LenProperties
  <2> HIDE DEF r, M, N
  <2> SUFFICES ASSUME NEW a \in DOMAIN r, NEW b \in DOMAIN r, r[a] = r[b], r[a].kind = "message"
               PROVE  a = b
    BY DEF Unique, r
  <2>2. a \in 1 .. M + N /\ b \in 1 .. M + N BY <2>1
  <2>3. PICK i \in Ids : r[a] = Message(i)
    <3>1. r[a] \in Entries BY <2>1, <2>2, ElementOfSeq
    <3> QED BY <3>1, EntryKinds
  <2>4. \A x \in DOMAIN s, y \in DOMAIN t : s[x] = Message(i) /\ t[y] = Message(i) => FALSE
    BY <1>3 DEF Stored, Range
  <2>5. CASE a <= M /\ b <= M
    <3>1. a \in DOMAIN s /\ b \in DOMAIN s /\ s[a] = s[b] /\ s[a].kind = "message"
      BY <2>1, <2>2, <2>5
    <3> QED BY <1>3, <3>1 DEF Unique
  <2>6. CASE a <= M /\ ~ (b <= M)
    <3>1. a \in DOMAIN s /\ b - M \in DOMAIN t BY <2>1, <2>2, <2>6
    <3>2. r[a] = s[a] /\ r[b] = t[b - M] BY <2>1, <2>2, <2>6
    <3>3. s[a] = Message(i) /\ t[b - M] = Message(i) BY <2>3, <3>2
    <3> QED BY <2>4, <3>1, <3>3
  <2>7. CASE ~ (a <= M) /\ b <= M
    <3>1. b \in DOMAIN s /\ a - M \in DOMAIN t BY <2>1, <2>2, <2>7
    <3>2. r[b] = s[b] /\ r[a] = t[a - M] BY <2>1, <2>2, <2>7
    <3>3. s[b] = Message(i) /\ t[a - M] = Message(i) BY <2>3, <3>2
    <3> QED BY <2>4, <3>1, <3>3
  <2>8. CASE ~ (a <= M) /\ ~ (b <= M)
    <3>1. a - M \in DOMAIN t /\ b - M \in DOMAIN t /\ t[a - M] = t[b - M]
          /\ t[a - M].kind = "message"
      BY <2>1, <2>2, <2>8
    <3>2. a - M = b - M BY <1>3, <3>1 DEF Unique
    <3> QED BY <2>1, <2>2, <3>2
  <2> QED BY <2>5, <2>6, <2>7, <2>8
<1> QED BY <1>1, <1>2, <1>3

\* What is put behind a timeline: markers, one message, the messages of an import.
LEMMA NoEntry == Unique(<<>>) /\ <<>> \in Seq(Entries) /\ Stored(<<>>) = {}
BY DEF Unique, Stored, Range

LEMMA OneEntry ==
  ASSUME NEW x \in Entries
  PROVE  <<x>> \in Seq(Entries) /\ Unique(<<x>>) /\ Stored(<<x>>) = {i \in Ids : Message(i) = x}
<1>1. Range(<<x>>) = {x} BY DEF Range
<1> QED BY <1>1 DEF Unique, Stored

LEMMA MarkersAdd ==
  ASSUME NEW d \in Devices, NEW i \in Ids, cursor[d] \in Nat
  PROVE  Markers(d, i) \in Seq(Entries) /\ Unique(Markers(d, i)) /\ Stored(Markers(d, i)) = {}
<1>1. CASE Markers(d, i) = <<>> BY <1>1, NoEntry
<1>2. CASE Markers(d, i) = <<HistoryStart>>
  <2>1. HistoryStart \in Entries /\ \A k : Message(k) # HistoryStart BY EntryKinds
  <2> QED BY <1>2, <2>1, OneEntry
<1>3. CASE i > cursor[d] + 1 /\ Markers(d, i) = <<Gap(cursor[d] + 1, i - 1)>>
  <2>1. cursor[d] + 1 \in Ids /\ i - 1 \in Ids BY <1>3, Limits DEF Ids
  <2>2. Gap(cursor[d] + 1, i - 1) \in Entries
        /\ \A k : Message(k) # Gap(cursor[d] + 1, i - 1)
    BY <2>1, EntryKinds
  <2> QED BY <1>3, <2>2, OneEntry
<1> QED BY <1>1, <1>2, <1>3 DEF Markers

LEMMA MessagesAdd ==
  ASSUME NEW q \in Seq(Ids), Increasing(q)
  PROVE  LET t == [n \in DOMAIN q |-> Message(q[n])] IN
         t \in Seq(Entries) /\ Unique(t) /\ Stored(t) = Range(q)
<1> DEFINE t == [n \in DOMAIN q |-> Message(q[n])]
<1>1. DOMAIN q = 1 .. Len(q) /\ Len(q) \in Nat /\ \A n \in DOMAIN q : q[n] \in Ids
  BY LenProperties, ElementOfSeq
<1>2. \A i, j : Message(i) = Message(j) => i = j BY EntryKinds
<1>3. DOMAIN t = DOMAIN q /\ \A n \in DOMAIN q : t[n] = Message(q[n]) /\ t[n] \in Entries
  BY <1>1, EntryKinds
<1>4. t \in Seq(Entries)
  <2> HIDE DEF t
  <2>1. t \in [1 .. Len(q) -> Entries] BY <1>1, <1>3 DEF t
  <2> QED BY <1>1, <2>1
<1>5. Unique(t)
  <2> HIDE DEF t
  <2> SUFFICES ASSUME NEW a \in DOMAIN q, NEW b \in DOMAIN q, t[a] = t[b] PROVE a = b
    BY <1>3 DEF Unique
  <2>1. q[a] = q[b] BY <1>2, <1>3
  <2>2. a \in Nat /\ b \in Nat /\ q[a] \in Nat BY <1>1 DEF Ids
  <2>3. ~ (a < b) /\ ~ (b < a) BY <2>1, <2>2 DEF Increasing
  <2> QED BY <2>2, <2>3
<1>6. Stored(t) = Range(q)
  <2> HIDE DEF t
  <2>1. \A i : Message(i) \in Range(t) <=> i \in Range(q) BY <1>2, <1>3 DEF Range
  <2>2. Range(q) \subseteq Ids BY <1>1 DEF Range
  <2> QED BY <2>1, <2>2 DEF Stored
<1> QED BY <1>4, <1>5, <1>6

-----------------------------------------------------------------------------
(* Queues                                                                   *)

\* What comes behind a queue leaves its head.
LEMMA Behind ==
  ASSUME NEW q \in Seq(Ids), NEW p \in Seq(Ids)
  PROVE  /\ q \o p \in Seq(Ids) /\ Range(q \o p) = Range(q) \cup Range(p)
         /\ q # <<>> => q \o p # <<>> /\ Head(q \o p) = Head(q)
         /\ \A n \in Nat : /\ \A k \in DOMAIN q : q[k] <= n
                           /\ \A k \in DOMAIN p : p[k] <= n
                           => \A k \in DOMAIN (q \o p) : (q \o p)[k] <= n
<1> DEFINE M == Len(q)  N == Len(p)  r == q \o p
<1>1. /\ M \in Nat /\ N \in Nat /\ DOMAIN q = 1 .. M /\ DOMAIN p = 1 .. N
      /\ r \in Seq(Ids) /\ DOMAIN r = 1 .. M + N /\ Len(r) = M + N
      /\ \A k \in 1 .. M + N : r[k] = IF k <= M THEN q[k] ELSE p[k - M]
  BY ConcatProperties, LenProperties
<1>2. Range(r) = Range(q) \cup Range(p) BY RangeConcatenation
<1>3. ASSUME q # <<>> PROVE r # <<>> /\ Head(r) = Head(q)
  <2>1. M > 0 BY <1>3, EmptySeq
  <2>2. Head(q) = q[1] OBVIOUS
  <2> HIDE DEF r, M, N
  <2>3. Head(r) = r[1] BY <1>1
  <2>4. r # <<>> BY <1>1, <2>1, EmptySeq
  <2>5. r[1] = q[1] BY <1>1, <2>1
  <2> QED BY <2>2, <2>3, <2>4, <2>5
<1>4. ASSUME NEW n \in Nat, \A k \in DOMAIN q : q[k] <= n, \A k \in DOMAIN p : p[k] <= n,
             NEW k \in DOMAIN r
      PROVE  r[k] <= n
  <2> HIDE DEF r, M, N
  <2>1. CASE k <= M BY <1>1, <1>4, <2>1
  <2>2. CASE ~ (k <= M)
    <3>1. k - M \in DOMAIN p /\ r[k] = p[k - M] BY <1>1, <2>2
    <3> QED BY <1>4, <3>1
  <2> QED BY <2>1, <2>2
<1> QED BY <1>1, <1>2, <1>3, <1>4

LEMMA OneBehind ==
  ASSUME NEW q \in Seq(Ids), NEW i \in Ids
  PROVE  Append(q, i) = q \o <<i>> /\ <<i>> \in Seq(Ids) /\ Range(<<i>>) = {i}
<1>1. Append(q, i) = q \o <<i>> BY AppendIsConcat
<1>2. Range(<<i>>) = {i} BY DEF Range
<1> QED BY <1>1, <1>2

\* The first is gone.
LEMMA Shorter ==
  ASSUME NEW q \in Seq(Ids), q # <<>>
  PROVE  /\ Tail(q) \in Seq(Ids) /\ Head(q) \in Ids /\ Head(q) = q[1] /\ 1 \in DOMAIN q
         /\ \A j \in Range(q) : j # Head(q) => j \in Range(Tail(q))
         /\ \A k \in DOMAIN Tail(q) : Tail(q)[k] = q[k + 1] /\ k + 1 \in DOMAIN q /\ k \in Nat
<1> DEFINE N == Len(q)  t == Tail(q)
<1>1. /\ N \in Nat /\ N > 0 /\ DOMAIN q = 1 .. N /\ Head(q) = q[1] /\ Head(q) \in Ids
  BY LenProperties, EmptySeq, HeadTailProperties
<1>2. /\ t \in Seq(Ids) /\ Len(t) = N - 1 /\ DOMAIN t = 1 .. N - 1
      /\ \A k \in 1 .. N - 1 : t[k] = q[k + 1]
  BY LenProperties, HeadTailProperties
<1> HIDE DEF N, t
<1>3. 1 \in DOMAIN q /\ \A k \in DOMAIN t : t[k] = q[k + 1] /\ k + 1 \in DOMAIN q /\ k \in Nat
  BY <1>1, <1>2
<1>4. ASSUME NEW j \in Range(q), j # Head(q) PROVE j \in Range(t)
  <2>1. PICK k \in 1 .. N : j = q[k] BY <1>1 DEF Range
  <2>2. k # 1 BY <1>1, <1>4, <2>1
  <2>3. k - 1 \in 1 .. N - 1 /\ (k - 1) + 1 = k BY <1>1, <2>2
  <2>4. t[k - 1] = j BY <1>2, <2>1, <2>3
  <2> QED BY <1>2, <2>3, <2>4 DEF Range
<1> QED BY <1>1, <1>2, <1>3, <1>4 DEF t

\* Fewer numbers are in order where more are.
LEMMA FewerInOrder ==
  ASSUME NEW q, NEW S, NEW T, InOrder(q, S), T \subseteq S
  PROVE  InOrder(q, T)
BY DEF InOrder

\* A number above those in the queue does not matter to it, and may come behind.
LEMMA HigherInOrder ==
  ASSUME NEW q \in Seq(Ids), NEW S \in SUBSET Ids, NEW n \in Nat, NEW T,
         InOrder(q, S), \A k \in DOMAIN q : q[k] <= n, T \subseteq S \cup {n + 1}
  PROVE  InOrder(q, T)
<1>1. \A k \in DOMAIN q : q[k] \in Nat
  <2>1. DOMAIN q = 1 .. Len(q) /\ \A k \in 1 .. Len(q) : q[k] \in Ids
    BY LenProperties, ElementOfSeq
  <2> QED BY <2>1 DEF Ids
<1> SUFFICES ASSUME NEW k \in DOMAIN q, NEW j \in T, j < q[k]
             PROVE  \E m \in 1 .. k - 1 : q[m] = j
  BY DEF InOrder
<1>2. j # n + 1 BY <1>1
<1> QED BY <1>2 DEF InOrder

LEMMA BehindInOrder ==
  ASSUME NEW q \in Seq(Ids), NEW S \in SUBSET Ids, NEW p \in Seq(Ids), InOrder(q, S),
         Increasing(p), S \subseteq Range(q) \cup Range(p)
  PROVE  InOrder(q \o p, S)
<1> DEFINE M == Len(q)  N == Len(p)  r == q \o p
<1>1. /\ M \in Nat /\ N \in Nat /\ DOMAIN q = 1 .. M /\ DOMAIN p = 1 .. N
      /\ r \in Seq(Ids) /\ DOMAIN r = 1 .. M + N
      /\ \A k \in 1 .. M + N : r[k] = IF k <= M THEN q[k] ELSE p[k - M]
  BY ConcatProperties, LenProperties
<1> HIDE DEF r, M, N
<1> SUFFICES ASSUME NEW k \in DOMAIN r, NEW j \in S, j < r[k]
             PROVE  \E m \in 1 .. k - 1 : r[m] = j
  BY DEF InOrder, r
<1>2. CASE k <= M
  <2>1. k \in DOMAIN q /\ j < q[k] BY <1>1, <1>2
  <2>2. PICK m \in 1 .. k - 1 : q[m] = j BY <2>1 DEF InOrder
  <2>3. r[m] = j BY <1>1, <1>2, <2>2
  <2> QED BY <2>3
<1>3. CASE ~ (k <= M)
  <2>1. k - M \in DOMAIN p /\ r[k] = p[k - M] BY <1>1, <1>3
  <2>2. CASE j \in Range(q)
    <3>1. PICK m \in 1 .. M : q[m] = j BY <1>1, <2>2 DEF Range
    <3>2. m \in 1 .. k - 1 /\ r[m] = j BY <1>1, <1>3, <3>1
    <3> QED BY <3>2
  <2>3. CASE j \in Range(p)
    <3>1. PICK m \in 1 .. N : p[m] = j BY <1>1, <2>3 DEF Range
    <3>2. PICK n \in 1 .. N : n = k - M /\ p[m] < p[n] BY <1>1, <2>1, <3>1
    <3>3. p[m] \in Nat /\ p[n] \in Nat
      <4>1. p[m] \in Ids /\ p[n] \in Ids BY <1>1, LenProperties, ElementOfSeq
      <4> QED BY <4>1 DEF Ids
    <3>4. ~ (n < m) /\ n # m
      <4>1. n < m => p[n] < p[m] BY <1>1 DEF Increasing
      <4>2. ~ (p[n] < p[m]) /\ p[n] # p[m] BY <3>2, <3>3
      <4> QED BY <4>1, <4>2
    <3>5. m + M \in 1 .. k - 1 /\ m + M \in 1 .. M + N BY <1>1, <3>2, <3>4
    <3>6. ~ (m + M <= M) /\ (m + M) - M = m BY <1>1
    <3>7. r[m + M] = j BY <1>1, <3>1, <3>5, <3>6
    <3> QED BY <3>5, <3>7
  <2> QED BY <2>2, <2>3
<1> QED BY <1>2, <1>3

\* Behind the first of a queue comes nothing smaller that is due, and what is due else stays.
LEMMA TailInOrder ==
  ASSUME NEW q \in Seq(Ids), NEW S \in SUBSET Ids, NEW T \in SUBSET S, q # <<>>,
         InOrder(q, S), Head(q) \notin T
  PROVE  /\ InOrder(Tail(q), T) /\ \A j \in S : ~ (j < Head(q))
         /\ S \subseteq Range(q) => T \subseteq Range(Tail(q))
<1>1. /\ Head(q) = q[1] /\ 1 \in DOMAIN q
      /\ \A j \in Range(q) : j # Head(q) => j \in Range(Tail(q))
      /\ \A k \in DOMAIN Tail(q) : Tail(q)[k] = q[k + 1] /\ k + 1 \in DOMAIN q /\ k \in Nat
  BY Shorter
<1>2. \A j \in S : ~ (j < Head(q)) BY <1>1 DEF InOrder
<1>3. ASSUME NEW k \in DOMAIN Tail(q), NEW j \in T, j < Tail(q)[k]
      PROVE  \E m \in 1 .. k - 1 : Tail(q)[m] = j
  <2>1. PICK m \in 1 .. (k + 1) - 1 : q[m] = j BY <1>1, <1>3 DEF InOrder
  <2>2. k \in 1 .. Len(Tail(q)) /\ Len(Tail(q)) \in Nat
    BY Shorter, LenProperties
  <2>3. m # 1 BY <1>1, <2>1
  <2>4. m - 1 \in 1 .. k - 1 /\ m - 1 \in DOMAIN Tail(q) /\ (m - 1) + 1 = m
    <3>1. DOMAIN Tail(q) = 1 .. Len(Tail(q)) BY Shorter, LenProperties
    <3> QED BY <2>1, <2>2, <2>3, <3>1
  <2>5. Tail(q)[m - 1] = j BY <1>1, <2>1, <2>4
  <2> QED BY <2>4, <2>5
<1>4. S \subseteq Range(q) => T \subseteq Range(Tail(q)) BY <1>1
<1> QED BY <1>2, <1>3, <1>4 DEF InOrder

-----------------------------------------------------------------------------
(* Types                                                                    *)

RelayTypes ==
  /\ sent \in 0 .. MaxSeq
  /\ pending \in [Devices -> SUBSET Ids] /\ acked \in [Devices -> SUBSET Ids]
  /\ \A d \in Devices : pending[d] \cup acked[d] \subseteq 1 .. sent
  /\ live \in [Devices -> 1 .. 2]

EngineTypes ==
  /\ queue \in [Engines -> Seq(Ids)] /\ task \in [Engines -> Turns]
  /\ \A e \in Engines : \A k \in DOMAIN queue[e] : queue[e][k] <= sent

StoreTypes ==
  /\ cursor \in [Devices -> 0 .. sent] /\ timeline \in [Devices -> Seq(Entries)]
  /\ saved \in [Devices -> Stores]
  /\ \A d \in Devices : /\ Unique(timeline[d]) /\ Unique(saved[d].timeline)
                        /\ saved[d].cursor <= sent

FileTypes ==
  /\ reading \in Stores /\ reading.cursor <= sent
  /\ reading # None => reading.cursor # 0 /\ Len(files) < MaxFiles
  /\ files \in Seq(Files) /\ Len(files) <= MaxFiles
  /\ \A f \in DOMAIN files : files[f].cursor \in 1 .. sent

ImportTypes ==
  /\ imported \subseteq DOMAIN files /\ import \in [pc : Pieces, file : 0 .. MaxFiles]

RestTypes == clash \subseteq {"refused", "dirty"} /\ upsets \in 0 .. MaxUpsets

\* The parts make the whole.
LEMMA PartsOf ==
  Types => RelayTypes /\ EngineTypes /\ StoreTypes /\ FileTypes /\ ImportTypes /\ RestTypes
BY DEF Types, TypeOK, Shapes, RelayTypes, EngineTypes, StoreTypes, FileTypes, ImportTypes,
       RestTypes, Stores

LEMMA WholeOf ==
  RelayTypes' /\ EngineTypes' /\ StoreTypes' /\ FileTypes' /\ ImportTypes' /\ RestTypes' => Types'
<1> SUFFICES ASSUME RelayTypes', EngineTypes', StoreTypes', FileTypes', ImportTypes', RestTypes'
             PROVE  Types'
  OBVIOUS
<1>1. \A d \in Devices : Range(timeline'[d]) \subseteq Entries
  <2>1. \A d \in Devices : timeline'[d] \in Seq(Entries) BY DEF StoreTypes
  <2> QED BY <2>1, RangeOfSeq
<1>2. reading'.cursor \in 0 .. sent'
  <2>1. reading'.cursor \in Nat /\ reading'.cursor <= sent' /\ sent' \in Nat
    BY DEF FileTypes, RelayTypes, Stores
  <2> QED BY <2>1
<1>3. TypeOK' BY <1>1, <1>2 DEF TypeOK, RelayTypes, EngineTypes, StoreTypes, ImportTypes, RestTypes
<1>4. Shapes' BY DEF Shapes, RelayTypes, EngineTypes, StoreTypes, FileTypes
<1> QED BY <1>3, <1>4 DEF Types

\* What is pending comes in its order.
LEMMA DrainedIs ==
  ASSUME RelayTypes, NEW d \in Devices
  PROVE  /\ Drained(d) \in Seq(Ids) /\ Range(Drained(d)) = pending[d] /\ Increasing(Drained(d))
         /\ \A k \in DOMAIN Drained(d) : Drained(d)[k] <= sent
<1>1. pending[d] \in SUBSET Ids /\ pending[d] \subseteq 1 .. sent BY DEF RelayTypes
<1>2. Drained(d) \in Seq(Ids) /\ Range(Drained(d)) = pending[d] /\ Increasing(Drained(d))
  BY <1>1, OrderedIs DEF Drained
<1>3. ASSUME NEW k \in DOMAIN Drained(d) PROVE Drained(d)[k] <= sent
  <2>1. Drained(d)[k] \in pending[d] BY <1>2 DEF Range
  <2> QED BY <1>1, <2>1
<1> QED BY <1>2, <1>3

LEMMA DeviceOf == \A e \in Engines : Device(e) \in Devices /\ e = <<Device(e), e[2]>>
BY DEF Engines, Device, Devices

\* The relay.
LEMMA RelayTypesStep == ASSUME Types, [Next]_vars PROVE RelayTypes' /\ sent <= sent'
<1> USE Limits
<1>0. RelayTypes /\ sent \in Nat BY PartsOf DEF RelayTypes
<1>1. ASSUME relay' = relay PROVE RelayTypes' /\ sent <= sent' BY <1>0, <1>1 DEF RelayTypes
<1>2. CASE Send
  <2>1. sent' = sent + 1 /\ sent < MaxSeq /\ sent + 1 \in Ids BY <1>0, <1>2 DEF Send, Ids
  <2>2. pending' = [d \in Devices |-> pending[d] \cup {sent + 1}] /\ UNCHANGED <<acked, live>>
    BY <1>2 DEF Send
  <2>3. \A d \in Devices : pending'[d] \cup acked'[d] \subseteq 1 .. sent'
    BY <1>0, <2>1, <2>2 DEF RelayTypes
  <2> QED BY <1>0, <2>1, <2>2, <2>3 DEF RelayTypes
<1>3. ASSUME NEW i \in Ids, Expire(i) PROVE RelayTypes' /\ sent <= sent'
  BY <1>0, <1>3 DEF RelayTypes, Expire
<1>4. ASSUME NEW d \in Devices, NEW n \in 1 .. 2, Connect(d, n) PROVE RelayTypes' /\ sent <= sent'
  BY <1>0, <1>4 DEF RelayTypes, Connect
<1>5. ASSUME NEW e \in Engines, Deliver(e) PROVE RelayTypes' /\ sent <= sent'
  <2>1. CASE DeliverCommit(e)
    <3> DEFINE d == Device(e)  i == Head(queue[e])
    <3>1. CASE i \in pending[d] /\ acked' = [acked EXCEPT ![d] = @ \cup {i}]
               /\ pending' = [pending EXCEPT ![d] = @ \ {i}]
      <4>1. d \in Devices /\ UNCHANGED <<sent, live>> BY <2>1, DeviceOf DEF DeliverCommit
      <4> HIDE DEF d, i
      <4> QED BY <1>0, <3>1, <4>1 DEF RelayTypes
    <3>2. CASE UNCHANGED <<acked, pending>>
      <4>1. UNCHANGED <<sent, live>> BY <2>1 DEF DeliverCommit
      <4> QED BY <1>1, <3>2, <4>1
    <3> QED BY <2>1, <3>1, <3>2 DEF DeliverCommit
  <2>2. CASE ~DeliverCommit(e)
    <3>1. relay' = relay BY <1>5, <2>2 DEF Deliver, DeliverBegin, Classify, Insert, DeliverFails
    <3> QED BY <1>1, <3>1
  <2> QED BY <2>1, <2>2
<1>6. CASE Export \/ Import
  <2>1. relay' = relay
    BY <1>6 DEF Export, ExportCursor, ExportEntries, Import, ImportBegin, ImportEntries,
                ImportCursor, ImportCommit, ImportFails
  <2> QED BY <1>1, <2>1
<1>7. ASSUME NEW d \in Devices, Reload(d) PROVE RelayTypes' /\ sent <= sent'
  <2>1. UNCHANGED <<sent, pending, acked>> /\ live' = [live EXCEPT ![d] = 1] BY <1>7 DEF Reload
  <2> QED BY <1>0, <2>1 DEF RelayTypes
<1>8. CASE UNCHANGED vars BY <1>1, <1>8
<1> QED BY <1>2, <1>3, <1>4, <1>5, <1>6, <1>7, <1>8 DEF Next

\* The engines.
LEMMA IdleTypes ==
  ASSUME EngineTypes, NEW e \in Engines, Idle(e), queue[e] # <<>>, sent' = sent
  PROVE  EngineTypes'
<1>1. queue[e] \in Seq(Ids) BY DEF EngineTypes
<1>2. /\ Tail(queue[e]) \in Seq(Ids)
      /\ \A k \in DOMAIN Tail(queue[e]) :
           Tail(queue[e])[k] = queue[e][k + 1] /\ k + 1 \in DOMAIN queue[e]
  BY <1>1, Shorter
<1>3. queue' = [queue EXCEPT ![e] = Tail(queue[e])] /\ task' = [task EXCEPT ![e] = "idle"]
  BY DEF Idle
<1>4. "idle" \in Turns BY DEF Turns
<1>5. \A g \in Engines : \A k \in DOMAIN queue'[g] : queue'[g][k] <= sent
  <2> SUFFICES ASSUME NEW g \in Engines, NEW k \in DOMAIN queue'[g] PROVE queue'[g][k] <= sent
    OBVIOUS
  <2>1. CASE g = e
    <3>1. queue'[g] = Tail(queue[e]) BY <1>3, <2>1 DEF EngineTypes
    <3> QED BY <1>2, <3>1 DEF EngineTypes
  <2>2. CASE g # e
    <3>1. queue'[g] = queue[g] BY <1>3, <2>2 DEF EngineTypes
    <3> QED BY <3>1 DEF EngineTypes
  <2> QED BY <2>1, <2>2
<1> QED BY <1>2, <1>3, <1>4, <1>5 DEF EngineTypes

LEMMA GoToTypes ==
  ASSUME EngineTypes, NEW e \in Engines, NEW pc \in {"classify", "insert", "commit", "rollback"},
         GoTo(e, pc), sent' = sent
  PROVE  EngineTypes'
<1>1. pc \in Turns BY DEF Turns
<1> QED BY <1>1 DEF EngineTypes, GoTo

LEMMA EngineTypesStep ==
  ASSUME Types, Owned, [Next]_vars, sent <= sent', sent' \in Nat, RelayTypes'
  PROVE  EngineTypes'
<1>0. EngineTypes /\ RelayTypes /\ sent \in Nat BY PartsOf DEF RelayTypes
<1>1. ASSUME engines' = engines, sent' = sent PROVE EngineTypes' BY <1>0, <1>1 DEF EngineTypes
<1>2. CASE Send
  <2>1. sent' = sent + 1 /\ sent + 1 \in Ids BY <1>0, <1>2, Limits DEF Send, Ids
  <2>2. /\ task' = task
        /\ queue' = [e \in Engines |-> IF Connected(e) THEN Append(queue[e], sent + 1)
                                       ELSE queue[e]]
    BY <1>2 DEF Send
  <2>3. ASSUME NEW e \in Engines
        PROVE  queue'[e] \in Seq(Ids) /\ \A k \in DOMAIN queue'[e] : queue'[e][k] <= sent + 1
    <3>1. queue[e] \in Seq(Ids) BY <1>0 DEF EngineTypes
    <3>2. \A k \in DOMAIN queue[e] : queue[e][k] <= sent + 1
      <4>1. \A k \in DOMAIN queue[e] : queue[e][k] <= sent BY <1>0 DEF EngineTypes
      <4>2. \A k \in DOMAIN queue[e] : queue[e][k] \in Nat
        <5>1. DOMAIN queue[e] = 1 .. Len(queue[e])
              /\ \A k \in 1 .. Len(queue[e]) : queue[e][k] \in Ids
          BY <3>1, LenProperties, ElementOfSeq
        <5> QED BY <5>1 DEF Ids
      <4> QED BY <1>0, <4>1, <4>2
    <3>3. Append(queue[e], sent + 1) = queue[e] \o <<sent + 1>> /\ <<sent + 1>> \in Seq(Ids)
      BY <2>1, <3>1, OneBehind
    <3>4. \A k \in DOMAIN <<sent + 1>> : <<sent + 1>>[k] <= sent + 1 BY <1>0
    <3>5. /\ queue[e] \o <<sent + 1>> \in Seq(Ids)
          /\ \A k \in DOMAIN (queue[e] \o <<sent + 1>>) :
               (queue[e] \o <<sent + 1>>)[k] <= sent + 1
      <4> DEFINE p == <<sent + 1>>  n == sent + 1
      <4>1. p \in Seq(Ids) /\ n \in Nat /\ \A k \in DOMAIN p : p[k] <= n BY <1>0, <3>3, <3>4
      <4> HIDE DEF p, n
      <4>2. queue[e] \o p \in Seq(Ids) /\ \A k \in DOMAIN (queue[e] \o p) : (queue[e] \o p)[k] <= n
        BY <3>1, <3>2, <4>1, Behind DEF n
      <4> QED BY <4>2 DEF p, n
    <3>6. queue'[e] = IF Connected(e) THEN queue[e] \o <<sent + 1>> ELSE queue[e]
      BY <2>2, <3>3
    <3> QED BY <3>1, <3>2, <3>5, <3>6
  <2> QED BY <1>0, <2>1, <2>2, <2>3 DEF EngineTypes
<1>3. ASSUME NEW d \in Devices, NEW n \in 1 .. 2, Connect(d, n) PROVE EngineTypes'
  <2> DEFINE e == <<d, n>>  p == Drained(d)  q == queue[e] \o p
  <2>1. e \in Engines /\ task' = task /\ sent' = sent /\ queue' = [queue EXCEPT ![e] = q]
    BY <1>3 DEF Connect
  <2>2. p \in Seq(Ids) /\ \A k \in DOMAIN p : p[k] <= sent BY <1>0, DrainedIs
  <2>3. queue[e] \in Seq(Ids) /\ \A k \in DOMAIN queue[e] : queue[e][k] <= sent
    BY <1>0, <2>1 DEF EngineTypes
  <2> HIDE DEF e, p
  <2>4. q \in Seq(Ids) /\ \A k \in DOMAIN q : q[k] <= sent BY <1>0, <2>2, <2>3, Behind
  <2> HIDE DEF q
  <2> QED BY <1>0, <2>1, <2>4 DEF EngineTypes
<1>4. ASSUME NEW e \in Engines, Deliver(e) PROVE EngineTypes'
  <2>1. sent' = sent
    BY <1>4 DEF Deliver, DeliverBegin, Classify, Insert, DeliverFails, DeliverCommit
  <2>2. CASE Idle(e)
    <3>1. queue[e] # <<>>
      BY <1>4 DEF Owned, Deliver, DeliverBegin, Classify, Insert, DeliverFails, DeliverCommit
    <3> QED BY <1>0, <2>1, <2>2, <3>1, IdleTypes
  <2>3. CASE \E pc \in {"classify", "insert", "commit", "rollback"} : GoTo(e, pc)
    BY <1>0, <2>1, <2>3, GoToTypes
  <2>4. Idle(e) \/ \E pc \in {"classify", "insert", "commit", "rollback"} : GoTo(e, pc)
    BY <1>4 DEF Deliver, DeliverBegin, Classify, Insert, DeliverFails, DeliverCommit
  <2> QED BY <2>2, <2>3, <2>4
<1>5. ASSUME NEW d \in Devices, Reload(d) PROVE EngineTypes'
  <2>1. /\ sent' = sent /\ task' = [e \in Engines |-> IF Device(e) = d THEN "idle" ELSE task[e]]
        /\ queue' = [e \in Engines |-> IF Device(e) # d THEN queue[e]
                                       ELSE IF e[2] = 1 THEN Drained(d) ELSE <<>>]
    BY <1>5 DEF Reload
  <2>2. Drained(d) \in Seq(Ids) /\ \A k \in DOMAIN Drained(d) : Drained(d)[k] <= sent
    BY <1>0, DrainedIs
  <2>3. <<>> \in Seq(Ids) /\ DOMAIN <<>> = {} /\ "idle" \in Turns BY DEF Turns
  <2>4. ASSUME NEW e \in Engines
        PROVE  queue'[e] \in Seq(Ids) /\ \A k \in DOMAIN queue'[e] : queue'[e][k] <= sent
    <3>1. queue'[e] \in {queue[e], Drained(d), <<>>} BY <2>1
    <3>2. queue[e] \in Seq(Ids) /\ \A k \in DOMAIN queue[e] : queue[e][k] <= sent
      BY <1>0 DEF EngineTypes
    <3> QED BY <2>2, <2>3, <3>1, <3>2
  <2> QED BY <1>0, <2>1, <2>3, <2>4 DEF EngineTypes
<1>6. CASE Export \/ Import \/ (\E i \in Ids : Expire(i)) \/ UNCHANGED vars
  <2>1. engines' = engines /\ sent' = sent
    BY <1>6 DEF Export, ExportCursor, ExportEntries, Import, ImportBegin, ImportEntries,
                ImportCursor, ImportCommit, ImportFails, Expire
  <2> QED BY <1>1, <2>1
<1> QED BY <1>2, <1>3, <1>4, <1>5, <1>6 DEF Next

\* The stores.
LEMMA NoneIsStore == None \in Stores /\ Unique(None.timeline) /\ None.cursor = 0
<1>1. <<HistoryStart>> \in Seq(Entries) /\ Unique(<<HistoryStart>>) BY EntryKinds, OneEntry
<1> QED BY <1>1 DEF None, Stores

LEMMA StoreOf ==
  ASSUME StoreTypes, sent \in Nat, NEW d \in Devices
  PROVE  /\ Store(d) \in Stores /\ Store(d).cursor = cursor[d] /\ Store(d).timeline = timeline[d]
         /\ cursor[d] \in Nat /\ cursor[d] <= sent /\ Unique(timeline[d])
         /\ saved[d] \in Stores /\ saved[d].cursor \in Nat /\ saved[d].cursor <= sent
         /\ saved[d].timeline \in Seq(Entries) /\ Unique(saved[d].timeline)
BY DEF StoreTypes, Store, Stores

\* One store changes.
LEMMA StoreChanges ==
  ASSUME StoreTypes, sent \in Nat, NEW d \in Devices, sent' = sent,
         NEW c \in 0 .. sent, NEW t \in Seq(Entries), Unique(t),
         NEW s \in Stores, s.cursor <= sent, Unique(s.timeline),
         cursor' \in {cursor, [cursor EXCEPT ![d] = c]},
         timeline' \in {timeline, [timeline EXCEPT ![d] = t]},
         saved' \in {saved, [saved EXCEPT ![d] = s]}
  PROVE  StoreTypes'
BY DEF StoreTypes


LEMMA RollbackTypes ==
  ASSUME StoreTypes, sent \in Nat, sent' = sent, NEW d \in Devices, Rollback(d)
  PROVE  StoreTypes'
<1>1. /\ saved[d].cursor \in 0 .. sent /\ saved[d].timeline \in Seq(Entries)
      /\ Unique(saved[d].timeline)
  BY StoreOf
<1>2. None \in Stores /\ Unique(None.timeline) /\ None.cursor <= sent BY NoneIsStore
<1> QED BY <1>1, <1>2, StoreChanges DEF Rollback

\* What an engine works on is a number.
LEMMA HeadIs ==
  ASSUME Types, Owned, NEW e \in Engines, task[e] # "idle"
  PROVE  /\ Head(queue[e]) \in Ids /\ Head(queue[e]) <= sent /\ queue[e] # <<>>
         /\ queue[e] \in Seq(Ids)
<1>1. EngineTypes /\ queue[e] # <<>> BY PartsOf DEF Owned
<1>2. queue[e] \in Seq(Ids) BY <1>1 DEF EngineTypes
<1>3. Head(queue[e]) \in Ids /\ Head(queue[e]) = queue[e][1] /\ 1 \in DOMAIN queue[e]
  BY <1>1, <1>2, Shorter
<1>4. queue[e][1] <= sent BY <1>1, <1>3 DEF EngineTypes
<1> QED BY <1>1, <1>2, <1>3, <1>4

LEMMA FileOf ==
  ASSUME FileTypes, ImportTypes, Owned, ~Importing("no")
  PROVE  /\ import.file \in DOMAIN files /\ files[import.file].ids \in SUBSET Ids
         /\ files[import.file].cursor \in 1 .. sent
<1>1. import.file \in DOMAIN files BY DEF Owned
<1>2. files[import.file] \in Files BY <1>1, LenProperties, ElementOfSeq DEF FileTypes
<1> QED BY <1>1, <1>2 DEF FileTypes, Files

\* What an import puts behind the target's timeline.
New == [n \in DOMAIN Ordered(NewOf(import.file)) |-> Message(Ordered(NewOf(import.file))[n])]

LEMMA ImportAdds ==
  ASSUME Types, Owned, ~Importing("no")
  PROVE  /\ timeline["target"] \o New \in Seq(Entries) /\ Unique(timeline["target"] \o New)
         /\ Stored(timeline["target"] \o New) =
              Stored(timeline["target"]) \cup files[import.file].ids
         /\ files[import.file].ids \subseteq Stored(timeline["target"]) =>
              timeline["target"] \o New = timeline["target"]
<1> DEFINE t == timeline["target"]  q == Ordered(NewOf(import.file))
<1>1. files[import.file].ids \in SUBSET Ids BY PartsOf, FileOf
<1>2. NewOf(import.file) = files[import.file].ids \ Stored(t) BY DEF NewOf
<1>3. q \in Seq(Ids) /\ Range(q) = NewOf(import.file) /\ Increasing(q)
  BY <1>1, <1>2, OrderedIs
<1>4. t \in Seq(Entries) /\ Unique(t) BY PartsOf DEF StoreTypes, Devices
<1>5. New \in Seq(Entries) /\ Unique(New) /\ Stored(New) = NewOf(import.file)
  <2> HIDE DEF q
  <2>1. New = [n \in DOMAIN q |-> Message(q[n])] BY DEF New, q
  <2> QED BY <1>3, <2>1, MessagesAdd
<1>6. Stored(t) \cap Stored(New) = {} BY <1>2, <1>5
<1>7. t \o New \in Seq(Entries) /\ Unique(t \o New) /\ Stored(t \o New) = Stored(t) \cup Stored(New)
  <2> HIDE DEF t
  <2> QED BY <1>4, <1>5, <1>6, Joined
<1>8. Stored(t) \cup Stored(New) = Stored(t) \cup files[import.file].ids BY <1>2, <1>5
<1>9. ASSUME files[import.file].ids \subseteq Stored(t) PROVE t \o New = t
  <2>1. Range(q) = {} BY <1>2, <1>3, <1>9
  <2>2. DOMAIN q = {} BY <2>1 DEF Range
  <2>3. New = <<>>
    <3>1. DOMAIN New = {} BY <2>2 DEF New
    <3>2. Len(New) = 0 BY <1>5, <3>1, LenProperties
    <3> QED BY <1>5, <3>2, EmptySeq
  <2> QED BY <1>4, <2>3, ConcatEmptySeq
<1> QED BY <1>7, <1>8, <1>9

LEMMA StoreTypesStep ==
  ASSUME Types, Owned, [Next]_vars, sent \in Nat, sent <= sent', sent' \in Nat
  PROVE  StoreTypes'
<1>0. StoreTypes /\ FileTypes /\ ImportTypes BY PartsOf
<1>1. ASSUME stores' = stores PROVE StoreTypes'
  <2>1. \A d \in Devices : cursor[d] \in 0 .. sent' /\ saved[d].cursor <= sent' BY <1>0, StoreOf
  <2>2. cursor \in [Devices -> 0 .. sent'] BY <1>0, <2>1 DEF StoreTypes
  <2> QED BY <1>0, <1>1, <2>1, <2>2 DEF StoreTypes
<1>2. None \in Stores /\ Unique(None.timeline) /\ None.cursor <= sent BY NoneIsStore
<1>3. \A d \in Devices :
        /\ Store(d) \in Stores /\ Store(d).cursor <= sent /\ Unique(Store(d).timeline)
        /\ cursor[d] \in 0 .. sent /\ timeline[d] \in Seq(Entries) /\ Unique(timeline[d])
        /\ saved[d] \in Stores /\ saved[d].cursor <= sent /\ Unique(saved[d].timeline)
  BY <1>0, StoreOf DEF StoreTypes
<1>4. ASSUME NEW d \in Devices, sent' = sent, UNCHANGED <<cursor, timeline>>,
             Begin(d) \/ Commit(d)
      PROVE  StoreTypes'
  BY <1>0, <1>2, <1>3, <1>4, StoreChanges DEF Begin, Commit
<1>5. ASSUME NEW e \in Engines, Deliver(e) PROVE StoreTypes'
  <2> DEFINE d == Device(e)  i == Head(queue[e])
  <2>1. d \in Devices BY DeviceOf
  <2>2. CASE DeliverBegin(e) BY <1>1, <1>4, <2>1, <2>2 DEF DeliverBegin
  <2>3. CASE Classify(e)
    <3>1. i \in Ids /\ i \in 0 .. sent BY <2>3, HeadIs DEF Classify, Ids
    <3>2. CASE UNCHANGED <<cursor, timeline>> BY <1>1, <2>3, <3>2 DEF Classify
    <3>3. CASE timeline' = [timeline EXCEPT ![d] = timeline[d] \o Markers(d, i)]
               /\ cursor' = [cursor EXCEPT ![d] = i]
      <4>1. sent' = sent /\ saved' = saved BY <2>3 DEF Classify
      <4>2. cursor[d] \in Nat BY <1>3, <2>1
      <4>3. Markers(d, i) \in Seq(Entries) /\ Unique(Markers(d, i)) /\ Stored(Markers(d, i)) = {}
        BY <2>1, <3>1, <4>2, MarkersAdd
      <4>4. timeline[d] \in Seq(Entries) /\ Unique(timeline[d]) BY <1>3, <2>1
      <4> HIDE DEF d, i
      <4>5. timeline[d] \o Markers(d, i) \in Seq(Entries) /\ Unique(timeline[d] \o Markers(d, i))
        BY <4>3, <4>4, Joined
      <4> QED BY <1>0, <1>3, <2>1, <3>1, <3>3, <4>1, <4>5, StoreChanges
    <3> QED BY <2>3, <3>2, <3>3 DEF Classify
  <2>4. CASE Insert(e)
    <3>1. CASE UNCHANGED timeline BY <1>1, <2>4, <3>1 DEF Insert
    <3>2. CASE i \notin Stored(timeline[d])
               /\ timeline' = [timeline EXCEPT ![d] = Append(timeline[d], Message(i))]
      <4>1. sent' = sent /\ saved' = saved /\ cursor' = cursor /\ i \in Ids
        BY <2>4, HeadIs DEF Insert
      <4>2. timeline[d] \in Seq(Entries) /\ Unique(timeline[d]) BY <1>3, <2>1
      <4> HIDE DEF d, i
      <4>3. Message(i) \in Entries BY <4>1, EntryKinds
      <4>4. /\ <<Message(i)>> \in Seq(Entries) /\ Unique(<<Message(i)>>)
            /\ Stored(<<Message(i)>>) = {i}
        BY <4>1, <4>3, OneEntry, EntryKinds
      <4>5. Append(timeline[d], Message(i)) = timeline[d] \o <<Message(i)>>
        BY <4>2, <4>3, AppendIsConcat
      <4>6. Stored(timeline[d]) \cap Stored(<<Message(i)>>) = {} BY <3>2, <4>4
      <4>7. timeline[d] \o <<Message(i)>> \in Seq(Entries) /\ Unique(timeline[d] \o <<Message(i)>>)
        BY <4>2, <4>4, <4>6, Joined
      <4> QED BY <1>0, <1>3, <2>1, <3>2, <4>1, <4>5, <4>7, StoreChanges
    <3> QED BY <2>4, <3>1, <3>2 DEF Insert
  <2>5. CASE DeliverFails(e)
    <3>1. sent' = sent /\ Rollback(d) BY <2>5 DEF DeliverFails
    <3> QED BY <1>0, <2>1, <3>1, RollbackTypes
  <2>6. CASE DeliverCommit(e)
    <3>1. sent' = sent /\ Commit(d) /\ UNCHANGED <<cursor, timeline>> BY <2>6 DEF DeliverCommit
    <3> QED BY <1>4, <2>1, <3>1
  <2> QED BY <1>5, <2>2, <2>3, <2>4, <2>5, <2>6 DEF Deliver
<1>6. CASE Import
  <2> DEFINE d == "target"
  <2>1. d \in Devices BY DEF Devices
  <2>2. ASSUME NEW f \in DOMAIN files, ImportBegin(f) PROVE StoreTypes'
    BY <1>1, <1>4, <2>1, <2>2 DEF ImportBegin
  <2>3. CASE ImportEntries
    <3>1. /\ sent' = sent /\ cursor' = cursor /\ saved' = saved
          /\ timeline' = [timeline EXCEPT ![d] = timeline[d] \o New]
      BY <2>3 DEF ImportEntries, New
    <3>2. timeline[d] \o New \in Seq(Entries) /\ Unique(timeline[d] \o New)
      BY <2>3, ImportAdds DEF ImportEntries, Importing
    <3> HIDE DEF d
    <3> QED BY <1>0, <1>3, <2>1, <3>1, <3>2, StoreChanges
  <2>4. CASE ImportCursor
    <3> DEFINE c == Advanced(cursor[d], files[import.file].cursor)
    <3>1. /\ sent' = sent /\ timeline' = timeline /\ saved' = saved
          /\ cursor' = [cursor EXCEPT ![d] = c]
      BY <2>4 DEF ImportCursor
    <3>2. c \in 0 .. sent
      <4>1. files[import.file].cursor \in 1 .. sent
        BY <1>0, <2>4, FileOf DEF ImportCursor, Importing
      <4> QED BY <1>3, <2>1, <4>1 DEF Advanced
    <3> HIDE DEF c, d
    <3> QED BY <1>0, <1>3, <2>1, <3>1, <3>2, StoreChanges
  <2>5. CASE ImportCommit BY <1>4, <2>1, <2>5 DEF ImportCommit
  <2>6. CASE ImportFails
    <3>1. sent' = sent /\ Rollback(d) BY <2>6 DEF ImportFails
    <3> QED BY <1>0, <2>1, <3>1, RollbackTypes
  <2> QED BY <1>6, <2>2, <2>3, <2>4, <2>5, <2>6 DEF Import
<1>7. ASSUME NEW d \in Devices, Reload(d) PROVE StoreTypes'
  <2>1. sent' = sent /\ (Rollback(d) \/ UNCHANGED stores) BY <1>7 DEF Reload
  <2> QED BY <1>0, <1>1, <2>1, RollbackTypes
<1>8. CASE Send \/ (\E i \in Ids : Expire(i)) \/ (\E d \in Devices, n \in 1 .. 2 : Connect(d, n))
           \/ Export \/ UNCHANGED vars
  <2>1. stores' = stores
    BY <1>8 DEF Send, Expire, Connect, Export, ExportCursor, ExportEntries
  <2> QED BY <1>1, <2>1
<1> QED BY <1>5, <1>6, <1>7, <1>8 DEF Next

\* The files.
LEMMA FileTypesStep ==
  ASSUME Types, [Next]_vars, sent \in Nat, sent <= sent', sent' \in Nat
  PROVE  FileTypes' /\ \A f \in DOMAIN files : f \in DOMAIN files' /\ files'[f] = files[f]
<1>0. FileTypes /\ StoreTypes BY PartsOf
<1>1. \A d \in Devices : /\ Store(d) \in Stores /\ Store(d).cursor <= sent
                         /\ Store(d).cursor = cursor[d] /\ Store(d).timeline = timeline[d]
  BY <1>0, StoreOf
<1>2. "source" \in Devices BY DEF Devices
<1>3. reading \in Stores /\ reading.cursor \in Nat /\ reading.cursor <= sent
  BY <1>0 DEF FileTypes, Stores
<1>4. \A f \in DOMAIN files : files[f].cursor \in 1 .. sent' BY <1>0 DEF FileTypes
<1>5. ASSUME files' = files, reading' = reading \/ reading' = None
      PROVE  FileTypes' /\ \A f \in DOMAIN files : f \in DOMAIN files' /\ files'[f] = files[f]
  <2>1. reading'.cursor <= sent' /\ reading' \in Stores BY <1>3, <1>5, NoneIsStore
  <2> QED BY <1>0, <1>4, <1>5, <2>1 DEF FileTypes
<1>6. CASE ExportCursor
  <2>1. /\ files' = files /\ reading' = Store("source") /\ cursor["source"] # 0
        /\ Len(files) < MaxFiles
    BY <1>6 DEF ExportCursor
  <2>2. reading' \in Stores /\ reading'.cursor <= sent' /\ reading'.cursor # 0
    BY <1>1, <1>2, <2>1 DEF Stores
  <2> QED BY <1>0, <1>4, <2>1, <2>2 DEF FileTypes
<1>7. CASE ExportEntries
  <2> DEFINE x == Payload(reading, Store("source"))
  <2>1. files' = Append(files, x) /\ reading' = None /\ reading # None BY <1>7 DEF ExportEntries
  <2>2. x \in Files /\ x.cursor \in 1 .. sent'
    <3>1. Stored(Store("source").timeline) \in SUBSET Ids BY DEF Stored
    <3>2. reading.cursor \in 1 .. sent' BY <1>0, <1>3, <2>1 DEF FileTypes
    <3> QED BY <3>1, <3>2 DEF Payload, Files
  <2>3. /\ files \in Seq(Files) /\ Len(files) < MaxFiles /\ Len(files) \in Nat
        /\ DOMAIN files = 1 .. Len(files)
    BY <1>0, <2>1, LenProperties DEF FileTypes
  <2> HIDE DEF x
  <2>4. /\ files' \in Seq(Files) /\ Len(files') = Len(files) + 1
        /\ \A f \in DOMAIN files : files'[f] = files[f]
        /\ files'[Len(files) + 1] = x
    <3>1. /\ Append(files, x) \in Seq(Files) /\ Len(Append(files, x)) = Len(files) + 1
          /\ \A f \in 1 .. Len(files) : Append(files, x)[f] = files[f]
          /\ Append(files, x)[Len(files) + 1] = x
      BY <2>2, <2>3, AppendProperties
    <3> QED BY <2>1, <2>3, <3>1
  <2>5. DOMAIN files' = 1 .. Len(files) + 1 BY <2>4, LenProperties
  <2>6. \A f \in DOMAIN files' : f \in DOMAIN files \/ f = Len(files) + 1 BY <2>3, <2>5
  <2>7. \A f \in DOMAIN files' : files'[f].cursor \in 1 .. sent' BY <1>4, <2>2, <2>4, <2>6
  <2>8. reading' \in Stores /\ reading'.cursor <= sent' BY <2>1, NoneIsStore
  <2>9. Len(files') <= MaxFiles BY <2>3, <2>4, Limits
  <2>10. \A f \in DOMAIN files : f \in DOMAIN files' BY <2>3, <2>5
  <2> QED BY <2>1, <2>4, <2>7, <2>8, <2>9, <2>10 DEF FileTypes
<1>8. ASSUME NEW e \in Engines, Deliver(e) PROVE files' = files /\ reading' = reading
  BY <1>8 DEF Deliver, DeliverBegin, Classify, Insert, DeliverFails, DeliverCommit
<1>9. ASSUME NEW d \in Devices, Reload(d) PROVE files' = files /\ reading' \in {reading, None}
  BY <1>9 DEF Reload
<1>10. CASE Send \/ (\E i \in Ids : Expire(i)) \/ (\E d \in Devices, n \in 1 .. 2 : Connect(d, n))
            \/ Import \/ UNCHANGED vars
  <2>1. files' = files /\ reading' = reading
    BY <1>10 DEF Send, Expire, Connect, Import, ImportBegin, ImportEntries, ImportCursor,
                 ImportCommit, ImportFails
  <2> QED BY <1>5, <2>1
<1> QED BY <1>5, <1>6, <1>7, <1>8, <1>9, <1>10 DEF Next, Export

\* The import, and what is counted.
LEMMA ImportTypesStep ==
  ASSUME Types, Owned, [Next]_vars, \A f \in DOMAIN files : f \in DOMAIN files'
  PROVE  ImportTypes' /\ RestTypes'
<1>0. ImportTypes /\ RestTypes /\ FileTypes BY PartsOf
<1>1. imported \subseteq DOMAIN files' BY <1>0 DEF ImportTypes
<1>2. DOMAIN files \subseteq 0 .. MaxFiles
  <2>1. DOMAIN files = 1 .. Len(files) /\ Len(files) \in Nat /\ Len(files) <= MaxFiles
    BY <1>0, LenProperties DEF FileTypes
  <2> QED BY <2>1, Limits
<1>3. NotImporting \in [pc : Pieces, file : 0 .. MaxFiles] BY Limits DEF NotImporting, Pieces
<1>4. ASSUME Upset PROVE upsets' \in 0 .. MaxUpsets BY <1>0, <1>4, Limits DEF Upset, RestTypes
<1>5. ASSUME imported' = imported,
             import' = import \/ import' = NotImporting
             \/ \E pc \in {"cursor", "commit"} : Step(pc)
      PROVE  ImportTypes'
  <2>1. import' \in [pc : Pieces, file : 0 .. MaxFiles] BY <1>0, <1>3, <1>5 DEF ImportTypes, Step, Pieces
  <2> QED BY <1>1, <1>5, <2>1 DEF ImportTypes
<1>6. ASSUME clash' \in {clash, clash \cup {"refused"}, clash \cup {"dirty"}},
             upsets' = upsets \/ Upset
      PROVE  RestTypes'
  BY <1>0, <1>4, <1>6 DEF RestTypes
<1>7. CASE Send \/ (\E i \in Ids : Expire(i)) \/ UNCHANGED vars
  BY <1>5, <1>6, <1>7 DEF Send, Expire
<1>8. ASSUME NEW d \in Devices, NEW n \in 1 .. 2, Connect(d, n) PROVE ImportTypes' /\ RestTypes'
  BY <1>5, <1>6, <1>8 DEF Connect
<1>9. ASSUME NEW e \in Engines, Deliver(e) PROVE ImportTypes' /\ RestTypes'
  <2>1. UNCHANGED <<imported, import, upsets>>
        /\ clash' \in {clash, clash \cup {"refused"}}
    BY <1>9 DEF Deliver, DeliverBegin, Classify, Insert, DeliverFails, DeliverCommit, Refused
  <2> QED BY <1>5, <1>6, <2>1
<1>10. CASE Export
  <2>1. UNCHANGED <<imported, import, upsets>> /\ clash' \in {clash, clash \cup {"dirty"}}
    BY <1>10 DEF Export, ExportCursor, ExportEntries, Dirty
  <2> QED BY <1>5, <1>6, <2>1
<1>11. ASSUME NEW f \in DOMAIN files, ImportBegin(f) PROVE ImportTypes' /\ RestTypes'
  <2>1. import' \in {import, [pc |-> "entries", file |-> f]} /\ imported' = imported
        /\ upsets' = upsets /\ clash' \in {clash, clash \cup {"refused"}}
    BY <1>11 DEF ImportBegin, Refused
  <2>2. import' \in [pc : Pieces, file : 0 .. MaxFiles]
    BY <1>0, <1>2, <2>1 DEF ImportTypes, Pieces
  <2>3. ImportTypes' BY <1>1, <2>1, <2>2 DEF ImportTypes
  <2> QED BY <1>6, <2>1, <2>3
<1>12. CASE ImportEntries \/ ImportCursor \/ ImportFails
  <2>1. /\ imported' = imported /\ clash' = clash /\ (upsets' = upsets \/ Upset)
        /\ Step("cursor") \/ Step("commit") \/ import' = NotImporting
    BY <1>12 DEF ImportEntries, ImportCursor, ImportFails
  <2> QED BY <1>5, <1>6, <2>1
<1>13. CASE ImportCommit
  <2>1. import.file \in DOMAIN files BY <1>13 DEF ImportCommit, Importing, Owned
  <2>2. imported' = imported \cup {import.file} /\ import' = NotImporting
        /\ UNCHANGED <<clash, upsets>>
    BY <1>13 DEF ImportCommit
  <2>3. import.file \in DOMAIN files' BY <2>1
  <2>4. ImportTypes' BY <1>1, <1>3, <2>2, <2>3 DEF ImportTypes
  <2> QED BY <1>6, <2>2, <2>4
<1>14. ASSUME NEW d \in Devices, Reload(d) PROVE ImportTypes' /\ RestTypes'
  BY <1>5, <1>6, <1>14 DEF Reload
<1> QED BY <1>7, <1>8, <1>9, <1>10, <1>11, <1>12, <1>13, <1>14 DEF Next, Import

LEMMA TypesStep == Types /\ Owned /\ [Next]_vars => Types'
<1> SUFFICES ASSUME Types, Owned, [Next]_vars PROVE Types' OBVIOUS
<1>1. RelayTypes' /\ sent <= sent' BY RelayTypesStep
<1>2. sent \in Nat /\ sent' \in Nat
  <2>1. RelayTypes BY PartsOf
  <2> QED BY <1>1, <2>1, Limits DEF RelayTypes
<1>3. EngineTypes' BY <1>1, <1>2, EngineTypesStep
<1>4. StoreTypes' BY <1>1, <1>2, StoreTypesStep
<1>5. FileTypes' /\ \A f \in DOMAIN files : f \in DOMAIN files' BY <1>1, <1>2, FileTypesStep
<1>6. ImportTypes' /\ RestTypes' BY <1>5, ImportTypesStep
<1> QED BY <1>1, <1>3, <1>4, <1>5, <1>6, WholeOf


-----------------------------------------------------------------------------
(* Transactions                                                             *)

\* A BEGIN leaves something to go back to: a store is never that of no transaction.
LEMMA BeginOpens ==
  ASSUME Types, EmptyAtFirst, NEW d \in Devices, Begin(d)
  PROVE  /\ ~Open(d) /\ saved'[d] # None /\ saved'[d] = Store(d)
         /\ saved' = [saved EXCEPT ![d] = Store(d)]
<1>1. StoreTypes /\ ~Open(d) /\ saved' = [saved EXCEPT ![d] = Store(d)]
  BY PartsOf DEF Begin
<1>2. saved'[d] = Store(d) BY <1>1 DEF StoreTypes
<1>3. Store(d) # None
  <2> SUFFICES ASSUME Store(d) = None PROVE FALSE OBVIOUS
  <2>1. Durable(d) = None BY <1>1 DEF Durable
  <2>2. None.timeline = <<>> BY <2>1, NoneIsStore DEF EmptyAtFirst
  <2>3. None.timeline = <<HistoryStart>> BY DEF None
  <2>4. DOMAIN <<>> = {} /\ 1 \in DOMAIN <<HistoryStart>> OBVIOUS
  <2> QED BY <2>2, <2>3, <2>4
<1> QED BY <1>1, <1>2, <1>3

\* What a step does to one device's store.
StaysAt(d) == cursor'[d] = cursor[d] /\ timeline'[d] = timeline[d] /\ saved'[d] = saved[d]
BeginsAt(d) ==
  /\ ~Open(d) /\ saved'[d] = Store(d) /\ saved'[d] # None
  /\ cursor'[d] = cursor[d] /\ timeline'[d] = timeline[d]
CommitsAt(d) == saved'[d] = None /\ cursor'[d] = cursor[d] /\ timeline'[d] = timeline[d]
RollsBackAt(d) ==
  saved'[d] = None /\ cursor'[d] = saved[d].cursor /\ timeline'[d] = saved[d].timeline
WritesAt(d) == Open(d) /\ saved'[d] = saved[d]

LEMMA BeginAt ==
  ASSUME Types, EmptyAtFirst, NEW d \in Devices, Begin(d), UNCHANGED <<cursor, timeline>>
  PROVE  BeginsAt(d) /\ \A g \in Devices \ {d} : StaysAt(g)
<1>1. StoreTypes BY PartsOf
<1> QED BY <1>1, BeginOpens DEF BeginsAt, StaysAt, StoreTypes

LEMMA CommitAt ==
  ASSUME Types, NEW d \in Devices, Commit(d), UNCHANGED <<cursor, timeline>>
  PROVE  CommitsAt(d) /\ \A g \in Devices \ {d} : StaysAt(g)
<1>1. StoreTypes BY PartsOf
<1> QED BY <1>1 DEF CommitsAt, StaysAt, StoreTypes, Commit

LEMMA RollbackAt ==
  ASSUME Types, NEW d \in Devices, Rollback(d)
  PROVE  RollsBackAt(d) /\ \A g \in Devices \ {d} : StaysAt(g)
<1>1. StoreTypes BY PartsOf
<1> QED BY <1>1 DEF RollsBackAt, StaysAt, StoreTypes, Rollback

\* The steps of an engine: in its own device's store, and in no other.
LEMMA DeliverAt ==
  ASSUME Types, Owned, EmptyAtFirst, NEW e \in Engines, Deliver(e)
  PROVE  /\ \A g \in Devices \ {Device(e)} : StaysAt(g)
         /\ \/ StaysAt(Device(e)) /\ DeliverBegin(e) /\ Refused(Device(e)) /\ Idle(e)
            \/ BeginsAt(Device(e)) /\ DeliverBegin(e) /\ GoTo(e, "classify")
            \/ WritesAt(Device(e)) /\ (Classify(e) \/ Insert(e))
            \/ RollsBackAt(Device(e)) /\ DeliverFails(e)
            \/ CommitsAt(Device(e)) /\ DeliverCommit(e)
<1> DEFINE d == Device(e)
<1>1. d \in Devices /\ StoreTypes BY DeviceOf, PartsOf
<1>2. CASE DeliverBegin(e)
  <2>1. CASE Refused(d) /\ Idle(e) /\ UNCHANGED saved
    <3>1. \A g \in Devices : StaysAt(g) BY <1>2, <2>1 DEF DeliverBegin, StaysAt
    <3> QED BY <1>1, <1>2, <2>1, <3>1
  <2>2. CASE Begin(d) /\ GoTo(e, "classify")
    <3>1. UNCHANGED <<cursor, timeline>> BY <1>2 DEF DeliverBegin
    <3>2. BeginsAt(d) /\ \A g \in Devices \ {d} : StaysAt(g) BY <1>1, <2>2, <3>1, BeginAt
    <3> QED BY <1>2, <2>2, <3>2
  <2> QED BY <1>2, <2>1, <2>2 DEF DeliverBegin
<1>3. CASE Classify(e) \/ Insert(e)
  <2>1. task[e] # "idle" /\ saved' = saved BY <1>3 DEF Classify, Insert
  <2>2. Open(d) BY <2>1 DEF Owned
  <2>3. \A g \in Devices \ {d} : StaysAt(g)
    <3>1. \A g \in Devices \ {d} : cursor'[g] = cursor[g] /\ timeline'[g] = timeline[g]
      BY <1>1, <1>3 DEF Classify, Insert, StoreTypes
    <3> QED BY <2>1, <3>1 DEF StaysAt
  <2> QED BY <1>3, <2>1, <2>2, <2>3 DEF WritesAt
<1>4. CASE DeliverFails(e)
  <2>1. Rollback(d) BY <1>4 DEF DeliverFails
  <2> QED BY <1>1, <1>4, <2>1, RollbackAt
<1>5. CASE DeliverCommit(e)
  <2>1. Commit(d) /\ UNCHANGED <<cursor, timeline>> BY <1>5 DEF DeliverCommit
  <2> QED BY <1>1, <1>5, <2>1, CommitAt
<1> QED BY <1>2, <1>3, <1>4, <1>5 DEF Deliver

\* Those of an import: in the target's store.
LEMMA ImportAt ==
  ASSUME Types, Owned, EmptyAtFirst, Import
  PROVE  /\ StaysAt("source")
         /\ \/ StaysAt("target") /\ import' = import
            \/ BeginsAt("target") /\ \E f \in DOMAIN files :
                 import' = [pc |-> "entries", file |-> f] /\ Importing("no")
            \/ WritesAt("target") /\ (ImportEntries \/ ImportCursor)
            \/ RollsBackAt("target") /\ ImportFails
            \/ CommitsAt("target") /\ ImportCommit
<1>1. "target" \in Devices /\ "source" \in Devices /\ "source" # "target" /\ StoreTypes
  BY PartsOf DEF Devices
<1>2. ASSUME NEW f \in DOMAIN files, ImportBegin(f)
      PROVE  /\ StaysAt("source")
             /\ \/ StaysAt("target") /\ import' = import
                \/ BeginsAt("target") /\ import' = [pc |-> "entries", file |-> f] /\ Importing("no")
  <2>1. UNCHANGED <<cursor, timeline>> /\ Importing("no") BY <1>2 DEF ImportBegin
  <2>2. CASE Begin("target") /\ import' = [pc |-> "entries", file |-> f]
    <3>1. BeginsAt("target") /\ StaysAt("source") BY <1>1, <2>1, <2>2, BeginAt
    <3> QED BY <2>1, <2>2, <3>1
  <2>3. CASE UNCHANGED <<saved, import>> BY <2>1, <2>3 DEF StaysAt
  <2> QED BY <1>2, <2>2, <2>3 DEF ImportBegin
<1>3. CASE ImportEntries \/ ImportCursor
  <2>1. ~Importing("no") /\ saved' = saved BY <1>3 DEF ImportEntries, ImportCursor, Importing
  <2>2. Open("target") BY <2>1 DEF Owned
  <2>3. cursor'["source"] = cursor["source"] /\ timeline'["source"] = timeline["source"]
    BY <1>1, <1>3 DEF ImportEntries, ImportCursor, StoreTypes
  <2> QED BY <1>3, <2>1, <2>2, <2>3 DEF WritesAt, StaysAt
<1>4. CASE ImportFails
  <2>1. Rollback("target") BY <1>4 DEF ImportFails
  <2> QED BY <1>1, <1>4, <2>1, RollbackAt
<1>5. CASE ImportCommit
  <2>1. Commit("target") /\ UNCHANGED <<cursor, timeline>> BY <1>5 DEF ImportCommit
  <2> QED BY <1>1, <1>5, <2>1, CommitAt
<1> QED BY <1>2, <1>3, <1>4, <1>5 DEF Import

LEMMA ReloadAt ==
  ASSUME Types, NEW d \in Devices, Reload(d)
  PROVE  /\ \A g \in Devices \ {d} : StaysAt(g)
         /\ (Open(d) /\ RollsBackAt(d)) \/ (~Open(d) /\ StaysAt(d))
<1>1. CASE Open(d) /\ Rollback(d) BY <1>1, RollbackAt
<1>2. CASE ~Open(d) /\ UNCHANGED stores BY <1>2 DEF StaysAt
<1> QED BY <1>1, <1>2 DEF Reload

\* And the others leave the stores alone.
LEMMA OtherAt ==
  ASSUME \/ Send \/ (\E i \in Ids : Expire(i)) \/ (\E d \in Devices, n \in 1 .. 2 : Connect(d, n))
         \/ Export \/ UNCHANGED vars
  PROVE  /\ \A d \in Devices : StaysAt(d)
         /\ UNCHANGED <<task, import, imported>>
BY DEF StaysAt, Send, Expire, Connect, Export, ExportCursor, ExportEntries

\* The queue of an engine that works keeps its first.
LEMMA SendBehind ==
  ASSUME Types, Send, NEW e \in Engines
  PROVE  /\ queue'[e] = queue[e] \/ (queue'[e] = queue[e] \o <<sent + 1>> /\ Connected(e))
         /\ Connected(e) => queue'[e] = queue[e] \o <<sent + 1>>
         /\ queue[e] \in Seq(Ids) /\ sent + 1 \in Ids /\ <<sent + 1>> \in Seq(Ids)
         /\ Range(<<sent + 1>>) = {sent + 1} /\ sent \in Nat
<1>1. EngineTypes /\ RelayTypes BY PartsOf
<1>2. queue[e] \in Seq(Ids) BY <1>1 DEF EngineTypes
<1>3. sent + 1 \in Ids /\ sent \in Nat BY <1>1, Limits DEF Send, RelayTypes, Ids
<1>4. queue'[e] = IF Connected(e) THEN Append(queue[e], sent + 1) ELSE queue[e] BY DEF Send
<1>5. /\ Append(queue[e], sent + 1) = queue[e] \o <<sent + 1>> /\ <<sent + 1>> \in Seq(Ids)
      /\ Range(<<sent + 1>>) = {sent + 1}
  BY <1>2, <1>3, OneBehind
<1> QED BY <1>2, <1>3, <1>4, <1>5

LEMMA QueueKeeps ==
  ASSUME Types, NEW e \in Engines, queue[e] # <<>>,
         \/ Send \/ (\E i \in Ids : Expire(i)) \/ (\E d \in Devices, n \in 1 .. 2 : Connect(d, n))
         \/ Export \/ Import \/ UNCHANGED vars
         \/ \E g \in Engines \ {e} : Deliver(g)
         \/ \E d \in Devices \ {Device(e)} : Reload(d)
  PROVE  queue'[e] # <<>> /\ Head(queue'[e]) = Head(queue[e])
<1>0. EngineTypes /\ RelayTypes BY PartsOf
<1>1. queue[e] \in Seq(Ids) BY <1>0 DEF EngineTypes
<1>2. ASSUME NEW p \in Seq(Ids), queue'[e] = queue[e] \o p
      PROVE  queue'[e] # <<>> /\ Head(queue'[e]) = Head(queue[e])
  BY <1>1, <1>2, Behind
<1>3. CASE Send BY <1>2, <1>3, SendBehind
<1>4. ASSUME NEW d \in Devices, NEW n \in 1 .. 2, Connect(d, n)
      PROVE  queue'[e] # <<>> /\ Head(queue'[e]) = Head(queue[e])
  <2>1. Drained(d) \in Seq(Ids) BY <1>0, DrainedIs
  <2>2. queue'[e] = queue[e] \/ queue'[e] = queue[e] \o Drained(d)
    BY <1>0, <1>4 DEF Connect, EngineTypes
  <2> QED BY <1>2, <2>1, <2>2
<1>5. ASSUME NEW g \in Engines \ {e}, Deliver(g) PROVE queue'[e] = queue[e]
  BY <1>0, <1>5 DEF Deliver, DeliverBegin, Classify, Insert, DeliverFails, DeliverCommit, Idle,
                    GoTo, EngineTypes
<1>6. ASSUME NEW d \in Devices \ {Device(e)}, Reload(d) PROVE queue'[e] = queue[e]
  BY <1>6 DEF Reload
<1>7. CASE (\E i \in Ids : Expire(i)) \/ Export \/ Import \/ UNCHANGED vars
  <2>1. queue' = queue
    BY <1>7 DEF Expire, Export, ExportCursor, ExportEntries, Import, ImportBegin, ImportEntries,
                ImportCursor, ImportCommit, ImportFails
  <2> QED BY <2>1
<1> QED BY <1>3, <1>4, <1>5, <1>6, <1>7

\* An engine goes on where it is, and so does the store that it works on; or it has no
\* delivery, or takes a turn of its own.
Rests(e) ==
  /\ task'[e] = task[e]
  /\ task[e] # "idle" => /\ StaysAt(Device(e)) /\ queue'[e] # <<>>
                         /\ Head(queue'[e]) = Head(queue[e])

LEMMA TurnsOf ==
  ASSUME Types, Owned, EmptyAtFirst, [Next]_vars, NEW e \in Engines
  PROVE  \/ Rests(e) \/ task'[e] = "idle"
         \/ BeginsAt(Device(e)) /\ DeliverBegin(e) /\ GoTo(e, "classify")
         \/ WritesAt(Device(e)) /\ (Classify(e) \/ Insert(e))
<1>0. EngineTypes /\ Device(e) \in Devices BY PartsOf, DeviceOf
<1>1. CASE \/ Send \/ (\E i \in Ids : Expire(i)) \/ (\E d \in Devices, n \in 1 .. 2 : Connect(d, n))
           \/ Export \/ UNCHANGED vars
  <2>1. StaysAt(Device(e)) /\ task' = task BY <1>0, <1>1, OtherAt
  <2>2. task[e] # "idle" => queue[e] # <<>> BY DEF Owned
  <2>3. queue[e] # <<>> => queue'[e] # <<>> /\ Head(queue'[e]) = Head(queue[e])
    BY <1>1, QueueKeeps
  <2> QED BY <2>1, <2>2, <2>3 DEF Rests
<1>2. CASE Deliver(e)
  <2>1. CASE Idle(e)
    <3>1. task'[e] = "idle" BY <1>0, <2>1 DEF Idle, EngineTypes
    <3> QED BY <3>1
  <2>2. DeliverFails(e) \/ DeliverCommit(e) => Idle(e) BY DEF DeliverFails, DeliverCommit
  <2> QED BY <1>2, <2>1, <2>2, DeliverAt
<1>3. ASSUME NEW g \in Engines \ {e}, Deliver(g) PROVE Rests(e)
  <2>1. task'[e] = task[e]
    BY <1>0, <1>3 DEF Deliver, DeliverBegin, Classify, Insert, DeliverFails, DeliverCommit, Idle,
                      GoTo, EngineTypes
  <2>2. ASSUME task[e] # "idle"
        PROVE  StaysAt(Device(e)) /\ queue'[e] # <<>> /\ Head(queue'[e]) = Head(queue[e])
    <3>1. queue[e] # <<>> /\ Open(Device(e)) BY <2>2 DEF Owned
    <3>2. queue'[e] # <<>> /\ Head(queue'[e]) = Head(queue[e]) BY <1>3, <3>1, QueueKeeps
    <3>3. CASE Device(g) # Device(e) BY <1>0, <1>3, <3>2, <3>3, DeliverAt
    <3>4. CASE Device(g) = Device(e)
      <4>1. task[g] = "idle" BY <1>3, <2>2, <3>4 DEF Owned
      <4>2. ~BeginsAt(Device(g)) /\ ~Classify(g) /\ ~Insert(g) /\ ~DeliverFails(g)
            /\ ~DeliverCommit(g)
        BY <3>1, <3>4, <4>1 DEF BeginsAt, Classify, Insert, DeliverFails, DeliverCommit
      <4> QED BY <1>3, <3>2, <3>4, <4>2, DeliverAt
    <3> QED BY <3>3, <3>4
  <2> QED BY <2>1, <2>2 DEF Rests
<1>4. CASE Import
  <2>1. task' = task
    BY <1>4 DEF Import, ImportBegin, ImportEntries, ImportCursor, ImportCommit, ImportFails
  <2>2. ASSUME task[e] # "idle"
        PROVE  StaysAt(Device(e)) /\ queue'[e] # <<>> /\ Head(queue'[e]) = Head(queue[e])
    <3>1. queue[e] # <<>> /\ Open(Device(e)) BY <2>2 DEF Owned
    <3>2. queue'[e] # <<>> /\ Head(queue'[e]) = Head(queue[e]) BY <1>4, <3>1, QueueKeeps
    <3>3. CASE Device(e) = "source" BY <1>4, <3>2, <3>3, ImportAt
    <3>4. CASE Device(e) = "target"
      <4>1. Importing("no") BY <2>2, <3>4 DEF Owned
      <4>2. ~BeginsAt("target") /\ ~ImportEntries /\ ~ImportCursor /\ ~ImportFails /\ ~ImportCommit
        BY <3>1, <3>4, <4>1
           DEF BeginsAt, ImportEntries, ImportCursor, ImportFails, ImportCommit, Importing
      <4> QED BY <1>4, <3>2, <3>4, <4>2, ImportAt
    <3> QED BY <1>0, <3>3, <3>4 DEF Devices
  <2> QED BY <2>1, <2>2 DEF Rests
<1>5. ASSUME NEW d \in Devices, Reload(d) PROVE Rests(e) \/ task'[e] = "idle"
  <2>1. CASE Device(e) = d BY <1>5, <2>1 DEF Reload
  <2>2. CASE Device(e) # d
    <3>1. task'[e] = task[e] BY <1>5, <2>2 DEF Reload
    <3>2. StaysAt(Device(e)) BY <1>0, <1>5, <2>2, ReloadAt
    <3>3. task[e] # "idle" => queue[e] # <<>> BY DEF Owned
    <3>4. queue[e] # <<>> => queue'[e] # <<>> /\ Head(queue'[e]) = Head(queue[e])
      BY <1>5, <2>2, QueueKeeps
    <3> QED BY <3>1, <3>2, <3>3, <3>4 DEF Rests
  <2> QED BY <2>1, <2>2
<1> QED BY <1>1, <1>2, <1>3, <1>4, <1>5 DEF Next

\* What the classification and the insertion write.
LEMMA ClassifyWrites ==
  ASSUME Types, Owned, NEW e \in Engines, Classify(e)
  PROVE  LET d == Device(e)  i == Head(queue[e]) IN
         /\ queue' = queue /\ saved' = saved /\ task[e] = "classify"
         /\ \/ i <= cursor[d] /\ task'[e] = "commit" /\ UNCHANGED <<cursor, timeline>>
            \/ /\ ~ (i <= cursor[d]) /\ task'[e] = "insert" /\ cursor'[d] = i
               /\ Stored(timeline'[d]) = Stored(timeline[d])
<1> DEFINE d == Device(e)  i == Head(queue[e])
<1>1. StoreTypes /\ EngineTypes /\ d \in Devices /\ sent \in Nat
  BY PartsOf, DeviceOf DEF RelayTypes
<1>2. queue' = queue /\ saved' = saved /\ task[e] = "classify" BY DEF Classify, GoTo
<1>3. i \in Ids BY <1>2, HeadIs
<1>4. CASE i <= cursor[d] BY <1>1, <1>2, <1>4 DEF Classify, GoTo, EngineTypes
<1>5. CASE ~ (i <= cursor[d])
  <2>1. /\ task' = [task EXCEPT ![e] = "insert"] /\ cursor' = [cursor EXCEPT ![d] = i]
        /\ timeline' = [timeline EXCEPT ![d] = timeline[d] \o Markers(d, i)]
    BY <1>5 DEF Classify, GoTo
  <2>2. cursor[d] \in Nat /\ timeline[d] \in Seq(Entries) BY <1>1, StoreOf DEF StoreTypes
  <2>3. Markers(d, i) \in Seq(Entries) /\ Stored(Markers(d, i)) = {}
    BY <1>1, <1>3, <2>2, MarkersAdd
  <2> HIDE DEF d, i
  <2>4. Stored(timeline[d] \o Markers(d, i)) = Stored(timeline[d])
    <3>1. Stored(timeline[d] \o Markers(d, i)) = Stored(timeline[d]) \cup Stored(Markers(d, i))
      BY <2>2, <2>3, Joined
    <3> QED BY <2>3, <3>1
  <2>5. timeline'[d] = timeline[d] \o Markers(d, i) /\ cursor'[d] = i /\ task'[e] = "insert"
    BY <1>1, <2>1 DEF StoreTypes, EngineTypes
  <2> QED BY <1>2, <1>5, <2>4, <2>5 DEF d, i
<1> QED BY <1>4, <1>5

LEMMA InsertWrites ==
  ASSUME Types, Owned, NEW e \in Engines, Insert(e)
  PROVE  LET d == Device(e)  i == Head(queue[e]) IN
         /\ queue' = queue /\ saved' = saved /\ cursor' = cursor /\ task[e] = "insert"
         /\ \/ i \in Stored(timeline[d]) /\ task'[e] = "rollback" /\ timeline' = timeline
            \/ task'[e] = "commit" /\ Stored(timeline'[d]) = Stored(timeline[d]) \cup {i}
<1> DEFINE d == Device(e)  i == Head(queue[e])
<1>1. StoreTypes /\ EngineTypes /\ d \in Devices BY PartsOf, DeviceOf
<1>2. queue' = queue /\ saved' = saved /\ cursor' = cursor /\ task[e] = "insert"
  BY DEF Insert, GoTo
<1>3. i \in Ids BY <1>2, HeadIs
<1>4. CASE i \in Stored(timeline[d]) BY <1>1, <1>2, <1>4 DEF Insert, GoTo, EngineTypes
<1>5. CASE i \notin Stored(timeline[d])
  <2>1. /\ task' = [task EXCEPT ![e] = "commit"]
        /\ timeline' = [timeline EXCEPT ![d] = Append(timeline[d], Message(i))]
    BY <1>5 DEF Insert, GoTo
  <2>2. timeline[d] \in Seq(Entries) BY <1>1 DEF StoreTypes
  <2> HIDE DEF d, i
  <2>3. Message(i) \in Entries BY <1>3, EntryKinds
  <2>4. <<Message(i)>> \in Seq(Entries) /\ Stored(<<Message(i)>>) = {i}
    BY <1>3, <2>3, OneEntry, EntryKinds
  <2>5. Append(timeline[d], Message(i)) = timeline[d] \o <<Message(i)>>
    BY <2>2, <2>3, AppendIsConcat
  <2>6. Stored(timeline[d] \o <<Message(i)>>) = Stored(timeline[d]) \cup {i} BY <2>2, <2>4, Joined
  <2>7. timeline'[d] = timeline[d] \o <<Message(i)>> /\ task'[e] = "commit"
    BY <1>1, <2>1, <2>5 DEF StoreTypes, EngineTypes
  <2> QED BY <1>2, <2>6, <2>7 DEF d, i
<1> QED BY <1>4, <1>5

\* A delivery has done what its turns do.
LEMMA DidStep ==
  ASSUME Types, Owned, EmptyAtFirst, DeliveryDid, [Next]_vars
  PROVE  DeliveryDid'
<1> SUFFICES ASSUME NEW e \in Engines PROVE Did(e)' BY DEF DeliveryDid
<1> DEFINE d == Device(e)  i == Head(queue[e])
<1>0. Did(e) /\ d \in Devices /\ StoreTypes /\ EngineTypes /\ sent \in Nat
  BY PartsOf, DeviceOf DEF DeliveryDid, RelayTypes
<1>1. CASE task'[e] = "idle" BY <1>1 DEF Did
<1>2. CASE Rests(e)
  <2>1. CASE task[e] = "idle" BY <1>1, <1>2, <2>1 DEF Rests
  <2>2. CASE task[e] # "idle"
    <3>1. /\ task'[e] = task[e] /\ Head(queue'[e]) = i /\ cursor'[d] = cursor[d]
          /\ timeline'[d] = timeline[d] /\ saved'[d] = saved[d]
      BY <1>2, <2>2 DEF Rests, StaysAt
    <3>2. Store(d)' = Store(d) BY <3>1 DEF Store
    <3> QED BY <1>0, <3>1, <3>2 DEF Did
  <2> QED BY <2>1, <2>2
<1>3. CASE BeginsAt(d) /\ DeliverBegin(e) /\ GoTo(e, "classify")
  <2>1. task'[e] = "classify" BY <1>0, <1>3 DEF GoTo, EngineTypes
  <2>2. Store(d)' = saved'[d] BY <1>3 DEF BeginsAt, Store
  <2> QED BY <2>1, <2>2 DEF Did
<1>4. CASE Classify(e)
  <2>1. /\ queue' = queue /\ saved' = saved /\ task[e] = "classify"
        /\ \/ i <= cursor[d] /\ task'[e] = "commit" /\ UNCHANGED <<cursor, timeline>>
           \/ /\ ~ (i <= cursor[d]) /\ task'[e] = "insert" /\ cursor'[d] = i
              /\ Stored(timeline'[d]) = Stored(timeline[d])
    BY <1>4, ClassifyWrites
  <2>2. Store(d) = saved[d] BY <1>0, <2>1 DEF Did
  <2>3. saved[d].cursor = cursor[d] /\ saved[d].timeline = timeline[d] BY <2>2 DEF Store
  <2>4. CASE i <= cursor[d] /\ task'[e] = "commit" /\ UNCHANGED <<cursor, timeline>>
    <3>1. Store(d)' = saved'[d] BY <2>1, <2>2, <2>4 DEF Store
    <3> QED BY <2>1, <2>4, <3>1 DEF Did
  <2>5. CASE /\ ~ (i <= cursor[d]) /\ task'[e] = "insert" /\ cursor'[d] = i
             /\ Stored(timeline'[d]) = Stored(timeline[d])
    <3>1. i \in Nat /\ cursor[d] \in Nat
      <4>1. i \in Ids BY <2>1, HeadIs
      <4> QED BY <1>0, <4>1, StoreOf DEF Ids
    <3>2. saved[d].cursor < i BY <2>3, <2>5, <3>1
    <3> QED BY <2>1, <2>3, <2>5, <3>2 DEF Did
  <2> QED BY <2>1, <2>4, <2>5
<1>5. CASE Insert(e)
  <2>1. /\ queue' = queue /\ saved' = saved /\ cursor' = cursor /\ task[e] = "insert"
        /\ \/ i \in Stored(timeline[d]) /\ task'[e] = "rollback" /\ timeline' = timeline
           \/ task'[e] = "commit" /\ Stored(timeline'[d]) = Stored(timeline[d]) \cup {i}
    BY <1>5, InsertWrites
  <2>2. cursor[d] = i /\ saved[d].cursor < i /\ Stored(timeline[d]) = Stored(saved[d].timeline)
    BY <1>0, <2>1 DEF Did
  <2> QED BY <2>1, <2>2 DEF Did
<1> QED BY <1>1, <1>2, <1>3, <1>4, <1>5, TurnsOf

\* The import rests, is over, or takes a turn.
LEMMA ImportTurns ==
  ASSUME Types, Owned, EmptyAtFirst, [Next]_vars
  PROVE  \/ import' = import /\ (~Importing("no") => StaysAt("target"))
         \/ import' = NotImporting
         \/ BeginsAt("target") /\ Importing("no") /\ \E f \in DOMAIN files :
              import' = [pc |-> "entries", file |-> f]
         \/ WritesAt("target") /\ (ImportEntries \/ ImportCursor)
<1>0. "target" \in Devices BY DEF Devices
<1>1. CASE \/ Send \/ (\E i \in Ids : Expire(i)) \/ (\E d \in Devices, n \in 1 .. 2 : Connect(d, n))
           \/ Export \/ UNCHANGED vars
  BY <1>0, <1>1, OtherAt
<1>2. ASSUME NEW e \in Engines, Deliver(e)
      PROVE  import' = import /\ (~Importing("no") => StaysAt("target"))
  <2>1. import' = import
    BY <1>2 DEF Deliver, DeliverBegin, Classify, Insert, DeliverFails, DeliverCommit
  <2>2. ASSUME ~Importing("no") PROVE StaysAt("target")
    <3>1. CASE Device(e) # "target" BY <1>0, <1>2, <3>1, DeliverAt
    <3>2. CASE Device(e) = "target"
      <4>1. task[e] = "idle" /\ Open("target") BY <2>2, <3>2 DEF Owned
      <4>2. ~BeginsAt("target") /\ ~Classify(e) /\ ~Insert(e) /\ ~DeliverFails(e)
            /\ ~DeliverCommit(e)
        BY <4>1 DEF BeginsAt, Classify, Insert, DeliverFails, DeliverCommit
      <4> QED BY <1>2, <3>2, <4>2, DeliverAt
    <3> QED BY <3>1, <3>2
  <2> QED BY <2>1, <2>2
<1>3. CASE Import
  <2>1. CASE StaysAt("target") /\ import' = import BY <2>1
  <2>2. ImportFails \/ ImportCommit => import' = NotImporting BY DEF ImportFails, ImportCommit
  <2> QED BY <1>3, <2>1, <2>2, ImportAt
<1>4. ASSUME NEW d \in Devices, Reload(d)
      PROVE  import' = NotImporting \/ (import' = import /\ StaysAt("target"))
  <2>1. CASE d = "target" BY <1>4, <2>1 DEF Reload
  <2>2. CASE d # "target"
    <3>1. import' = import BY <1>4, <2>2 DEF Reload
    <3> QED BY <1>0, <1>4, <2>2, <3>1, ReloadAt
  <2> QED BY <2>1, <2>2
<1> QED BY <1>1, <1>2, <1>3, <1>4 DEF Next

\* And so does an import.
LEMMA ImportDidStep ==
  ASSUME Types, Owned, EmptyAtFirst, ImportDid, [Next]_vars
  PROVE  ImportDid'
<1> DEFINE d == "target"  f == files[import.file]  had == Stored(saved[d].timeline)
<1>0. d \in Devices /\ StoreTypes /\ FileTypes /\ ImportTypes /\ sent \in Nat
  BY PartsOf DEF RelayTypes, Devices
<1>1. \A g \in DOMAIN files : g \in DOMAIN files' /\ files'[g] = files[g]
  <2>1. sent <= sent' /\ RelayTypes' BY RelayTypesStep
  <2>2. sent' \in Nat BY <2>1 DEF RelayTypes
  <2> QED BY <1>0, <2>1, <2>2, FileTypesStep
<1>2. CASE import' = NotImporting BY <1>2 DEF ImportDid, Importing, NotImporting
<1>3. CASE import' = import /\ Importing("no") BY <1>3 DEF ImportDid, Importing
<1>4. CASE import' = import /\ ~Importing("no") /\ StaysAt(d)
  <2>1. files'[import'.file] = f BY <1>1, <1>4 DEF Owned
  <2>2. cursor'[d] = cursor[d] /\ timeline'[d] = timeline[d] /\ saved'[d] = saved[d]
    BY <1>4 DEF StaysAt
  <2>3. Store(d)' = Store(d) BY <2>2 DEF Store
  <2> QED BY <1>4, <2>1, <2>2, <2>3 DEF ImportDid, Importing
<1>5. ASSUME BeginsAt(d), NEW g \in DOMAIN files, import' = [pc |-> "entries", file |-> g]
      PROVE  ImportDid'
  <2>1. Store(d)' = saved'[d] BY <1>5 DEF BeginsAt, Store
  <2> QED BY <1>5, <2>1 DEF ImportDid, Importing
<1>6. CASE ImportEntries
  <2>1. /\ import.pc = "entries" /\ import' = [import EXCEPT !.pc = "cursor"] /\ files' = files
        /\ saved' = saved /\ cursor' = cursor
        /\ timeline' = [timeline EXCEPT ![d] = timeline[d] \o New]
    BY <1>6 DEF ImportEntries, Importing, Step, New
  <2>2. import'.pc = "cursor" /\ import'.file = import.file BY <1>0, <2>1 DEF ImportTypes
  <2>3. Store(d) = saved[d] BY <2>1 DEF ImportDid, Importing
  <2>4. timeline[d] = saved[d].timeline /\ cursor[d] = saved[d].cursor BY <2>3 DEF Store
  <2>5. timeline'[d] = timeline[d] \o New BY <1>0, <2>1 DEF StoreTypes
  <2>6. /\ Stored(timeline[d] \o New) = Stored(timeline[d]) \cup f.ids
        /\ f.ids \subseteq Stored(timeline[d]) => timeline[d] \o New = timeline[d]
    BY <2>1, ImportAdds DEF Importing
  <2>7. Stored(timeline'[d]) = had \cup f.ids
        /\ (f.ids \subseteq had => timeline'[d] = saved[d].timeline)
    BY <2>4, <2>5, <2>6
  <2> QED BY <2>1, <2>2, <2>4, <2>7 DEF ImportDid, Importing
<1>7. CASE ImportCursor
  <2>1. /\ import.pc = "cursor" /\ import' = [import EXCEPT !.pc = "commit"] /\ files' = files
        /\ saved' = saved /\ timeline' = timeline
        /\ cursor' = [cursor EXCEPT ![d] = Advanced(cursor[d], f.cursor)]
    BY <1>7 DEF ImportCursor, Importing, Step
  <2>2. import'.pc = "commit" /\ import'.file = import.file BY <1>0, <2>1 DEF ImportTypes
  <2>3. /\ Stored(timeline[d]) = had \cup f.ids /\ cursor[d] = saved[d].cursor
        /\ f.ids \subseteq had => timeline[d] = saved[d].timeline
    BY <2>1 DEF ImportDid, Importing
  <2>4. cursor'[d] = Advanced(saved[d].cursor, f.cursor) BY <1>0, <2>1, <2>3 DEF StoreTypes
  <2> QED BY <2>1, <2>2, <2>3, <2>4 DEF ImportDid, Importing, Advanced
<1> QED BY <1>2, <1>3, <1>4, <1>5, <1>6, <1>7, ImportTurns

\* A transaction keeps its owner.
LEMMA OwnedStep ==
  ASSUME Types, Owned, EmptyAtFirst, [Next]_vars
  PROVE  Owned'
<1>0. EngineTypes /\ StoreTypes /\ FileTypes /\ ImportTypes BY PartsOf
<1>1. \A g \in DOMAIN files : g \in DOMAIN files'
  <2>1. sent <= sent' /\ RelayTypes' /\ sent \in Nat
    <3>1. RelayTypes BY PartsOf
    <3> QED BY <3>1, RelayTypesStep DEF RelayTypes
  <2>2. sent' \in Nat BY <2>1 DEF RelayTypes
  <2> QED BY <2>1, <2>2, FileTypesStep
<1> DEFINE Free(e) == task'[e] = "idle"
           Mine(e) == /\ saved'[Device(e)] # None /\ queue'[e] # <<>>
                      /\ \A g \in Engines \ {e} : Device(g) = Device(e) => Free(g)
                      /\ Device(e) = "target" => import'.pc = "no"
           Held == import'.pc # "no" => saved'["target"] # None /\ import'.file \in DOMAIN files'
<1> SUFFICES (\A e \in Engines : Free(e) \/ Mine(e)) /\ Held
  BY DEF Owned, Open, Importing
<1>2. /\ \A e \in Engines : task[e] # "idle" =>
           /\ saved[Device(e)] # None /\ queue[e] # <<>>
           /\ \A g \in Engines \ {e} : Device(g) = Device(e) => task[g] = "idle"
           /\ Device(e) = "target" => import.pc = "no"
      /\ import.pc # "no" => saved["target"] # None /\ import.file \in DOMAIN files
  BY DEF Owned, Open, Importing
<1>3. \A e \in Engines : Device(e) \in Devices BY DeviceOf
<1>4. "target" \in Devices /\ "source" \in Devices BY DEF Devices
<1>5. CASE \/ Send \/ (\E i \in Ids : Expire(i)) \/ (\E d \in Devices, n \in 1 .. 2 : Connect(d, n))
           \/ Export \/ UNCHANGED vars
  <2>1. (\A d \in Devices : saved'[d] = saved[d]) /\ task' = task /\ import' = import
    BY <1>5, OtherAt DEF StaysAt
  <2>2. \A e \in Engines : queue[e] # <<>> => queue'[e] # <<>> BY <1>5, QueueKeeps
  <2> QED BY <1>1, <1>2, <1>3, <1>4, <2>1, <2>2
<1>6. ASSUME NEW e \in Engines, Deliver(e) PROVE (\A g \in Engines : Free(g) \/ Mine(g)) /\ Held
  <2> DEFINE d == Device(e)
  <2>1. import' = import /\ \A g \in Engines \ {e} : task'[g] = task[g] /\ queue'[g] = queue[g]
    BY <1>0, <1>6 DEF Deliver, DeliverBegin, Classify, Insert, DeliverFails, DeliverCommit, Idle,
                      GoTo, EngineTypes
  <2>2. \A c \in Devices \ {d} : saved'[c] = saved[c] BY <1>6, DeliverAt DEF StaysAt
  <2>3. \A g \in Engines : Device(g) # d => Free(g) \/ Mine(g)
    BY <1>2, <1>3, <2>1, <2>2
  <2>4. d # "target" => Held BY <1>1, <1>2, <1>4, <2>1, <2>2
  <2>5. CASE StaysAt(d) /\ Idle(e)
    <3>1. Free(e) /\ saved'[d] = saved[d] BY <1>0, <2>5 DEF Idle, EngineTypes, StaysAt
    <3>2. \A g \in Engines \ {e} : Device(g) = d => Free(g) \/ Mine(g) BY <1>2, <2>1, <3>1
    <3>3. Held BY <1>1, <1>2, <1>3, <2>1, <2>4, <3>1
    <3> QED BY <2>3, <3>1, <3>2, <3>3
  <2>6. CASE BeginsAt(d) /\ DeliverBegin(e) /\ GoTo(e, "classify")
    <3>1. saved[d] = None /\ saved'[d] # None BY <2>6 DEF BeginsAt, Open
    <3>2. queue'[e] # <<>> BY <2>6 DEF DeliverBegin, GoTo
    <3>3. \A g \in Engines \ {e} : Device(g) = d => Free(g) BY <1>2, <2>1, <3>1
    <3>4. d = "target" => import.pc = "no" BY <1>2, <3>1
    <3>5. Mine(e) BY <2>1, <3>1, <3>2, <3>3, <3>4
    <3>6. Held BY <2>1, <2>4, <3>4
    <3> QED BY <2>3, <3>3, <3>5, <3>6
  <2>7. CASE WritesAt(d) /\ (Classify(e) \/ Insert(e))
    <3>1. saved'[d] = saved[d] /\ task[e] # "idle" /\ queue' = queue
      BY <2>7 DEF WritesAt, Classify, Insert, GoTo
    <3>2. Mine(e) BY <1>2, <2>1, <3>1
    <3>3. \A g \in Engines \ {e} : Device(g) = d => Free(g) BY <1>2, <2>1, <3>1
    <3>4. Held BY <1>2, <2>1, <2>4, <3>1
    <3> QED BY <2>3, <3>2, <3>3, <3>4
  <2>8. CASE DeliverFails(e) \/ DeliverCommit(e)
    <3>1. task[e] # "idle" /\ Free(e)
      BY <1>0, <2>8 DEF DeliverFails, DeliverCommit, Idle, EngineTypes
    <3>2. \A g \in Engines \ {e} : Device(g) = d => Free(g) BY <1>2, <2>1, <3>1
    <3>3. Held BY <1>2, <2>1, <2>4, <3>1
    <3> QED BY <2>3, <3>1, <3>2, <3>3
  <2> QED BY <1>6, <2>5, <2>6, <2>7, <2>8, DeliverAt
<1>7. CASE Import
  <2>1. engines' = engines /\ saved'["source"] = saved["source"] /\ files' = files
    BY <1>7, ImportAt DEF StaysAt, Import, ImportBegin, ImportEntries, ImportCursor, ImportCommit,
                          ImportFails
  <2>2. \A e \in Engines : Device(e) = "source" => Free(e) \/ Mine(e) BY <1>2, <2>1
  <2>3. \A e \in Engines : Device(e) = "source" \/ Device(e) = "target" BY <1>3 DEF Devices
  <2>4. CASE StaysAt("target") /\ import' = import
    BY <1>2, <2>1, <2>2, <2>3, <2>4 DEF StaysAt
  <2>5. ASSUME BeginsAt("target"), NEW f \in DOMAIN files,
               import' = [pc |-> "entries", file |-> f]
        PROVE  (\A g \in Engines : Free(g) \/ Mine(g)) /\ Held
    <3>1. saved["target"] = None /\ saved'["target"] # None BY <2>5 DEF BeginsAt, Open
    <3>2. \A e \in Engines : Device(e) = "target" => Free(e) BY <1>2, <2>1, <3>1
    <3>3. import'.file = f BY <2>5
    <3> QED BY <2>1, <2>2, <2>3, <3>1, <3>2, <3>3
  <2>6. CASE WritesAt("target") /\ (ImportEntries \/ ImportCursor)
    <3>1. import.pc # "no" /\ saved'["target"] = saved["target"] /\ import'.file = import.file
      BY <1>0, <2>6 DEF WritesAt, ImportEntries, ImportCursor, Importing, Step, ImportTypes
    <3>2. \A e \in Engines : Device(e) = "target" => Free(e) BY <1>2, <2>1, <3>1
    <3> QED BY <1>2, <2>1, <2>2, <2>3, <3>1, <3>2
  <2>7. CASE ImportFails \/ ImportCommit
    <3>1. import.pc # "no" /\ import'.pc = "no"
      BY <2>7 DEF ImportFails, ImportCommit, Importing, NotImporting
    <3>2. \A e \in Engines : Device(e) = "target" => Free(e) BY <1>2, <2>1, <3>1
    <3> QED BY <2>2, <2>3, <3>1, <3>2
  <2> QED BY <1>7, <2>4, <2>5, <2>6, <2>7, ImportAt
<1>8. ASSUME NEW d \in Devices, Reload(d) PROVE (\A g \in Engines : Free(g) \/ Mine(g)) /\ Held
  <2>1. /\ \A e \in Engines : Device(e) = d => Free(e)
        /\ \A e \in Engines : Device(e) # d => task'[e] = task[e] /\ queue'[e] = queue[e]
        /\ import' = IF d = "target" THEN NotImporting ELSE import
        /\ files' = files
    BY <1>8 DEF Reload
  <2>2. \A c \in Devices \ {d} : saved'[c] = saved[c] BY <1>8, ReloadAt DEF StaysAt
  <2>3. NotImporting.pc = "no" BY DEF NotImporting
  <2>4. \A e \in Engines : Device(e) # d => Free(e) \/ Mine(e)
    BY <1>2, <1>3, <2>1, <2>2, <2>3
  <2>5. Held BY <1>2, <1>4, <2>1, <2>2, <2>3
  <2> QED BY <2>1, <2>4, <2>5
<1> QED BY <1>5, <1>6, <1>7, <1>8 DEF Next

-----------------------------------------------------------------------------
(* What a reload would find                                                 *)

LEMMA DurableIs ==
  ASSUME Types, NEW d \in Devices
  PROVE  /\ Durable(d) \in Stores /\ Durable(d).cursor \in Nat /\ Durable(d).cursor <= sent
         /\ Has(d) \subseteq Ids
<1>1. StoreTypes /\ sent \in Nat BY PartsOf DEF RelayTypes
<1>2. Store(d) \in Stores /\ saved[d] \in Stores /\ Store(d).cursor <= sent
      /\ saved[d].cursor <= sent
  BY <1>1, StoreOf
<1>3. Durable(d) \in Stores /\ Durable(d).cursor <= sent BY <1>2 DEF Durable
<1>4. Durable(d).cursor \in Nat BY <1>3 DEF Stores
<1>5. Has(d) \subseteq Ids BY DEF Has, Stored
<1> QED BY <1>3, <1>4, <1>5

\* Nothing but a COMMIT changes it.
LEMMA DurableKeeps ==
  ASSUME Types, NEW d \in Devices,
         StaysAt(d) \/ BeginsAt(d) \/ WritesAt(d) \/ (Open(d) /\ RollsBackAt(d))
  PROVE  Durable(d)' = Durable(d) /\ Has(d)' = Has(d)
<1>1. CASE StaysAt(d) BY <1>1 DEF StaysAt, Durable, Has, Open, Store
<1>2. CASE BeginsAt(d) BY <1>2 DEF BeginsAt, Durable, Has, Open, Store
<1>3. CASE WritesAt(d) BY <1>3 DEF WritesAt, Durable, Has, Open
<1>4. CASE Open(d) /\ RollsBackAt(d)
  <2>1. saved[d] \in Stores BY PartsOf, StoreOf DEF RelayTypes
  <2>2. saved[d] = [cursor |-> saved[d].cursor, timeline |-> saved[d].timeline]
    BY <2>1 DEF Stores
  <2>3. Durable(d)' = saved[d] BY <1>4, <2>2 DEF RollsBackAt, Durable, Open, Store
  <2> QED BY <1>4, <2>3 DEF Durable, Has
<1> QED BY <1>1, <1>2, <1>3, <1>4

\* The commit of a delivery: a duplicate leaves all as it was, another is in the store then.
Takes(d, i) ==
  /\ Durable(d)'.cursor = i /\ Durable(d).cursor < i /\ Has(d)' = Has(d) \cup {i}

LEMMA DeliverCommits ==
  ASSUME Types, Owned, DeliveryDid, NEW e \in Engines, DeliverCommit(e)
  PROVE  LET d == Device(e)  i == Head(queue[e]) IN
         \/ Durable(d)' = Durable(d) /\ Has(d)' = Has(d) /\ i <= Durable(d).cursor
         \/ Takes(d, i)
<1> DEFINE d == Device(e)  i == Head(queue[e])
<1>1. d \in Devices BY DeviceOf
<1>2. task[e] = "commit" /\ Commit(d) /\ UNCHANGED <<cursor, timeline>> BY DEF DeliverCommit
<1>3. CommitsAt(d) /\ Open(d) BY <1>1, <1>2, CommitAt DEF Owned
<1>4. Durable(d)' = Store(d) /\ Durable(d) = saved[d]
  BY <1>3 DEF CommitsAt, Durable, Open, Store
<1>5. Has(d)' = Stored(timeline[d]) /\ Has(d) = Stored(saved[d].timeline)
      /\ Durable(d)'.cursor = cursor[d]
  BY <1>4 DEF Has, Store
<1>6. \/ Store(d) = saved[d] /\ i <= cursor[d]
      \/ cursor[d] = i /\ saved[d].cursor < i
         /\ Stored(timeline[d]) = Stored(saved[d].timeline) \cup {i}
  BY <1>2 DEF DeliveryDid, Did
<1>7. Store(d).cursor = cursor[d] /\ Store(d).timeline = timeline[d] BY DEF Store
<1> QED BY <1>4, <1>5, <1>6, <1>7 DEF Takes

\* The commit of an import: what the file has is in the store then.
Imports(f) ==
  /\ Durable("target")'.cursor = Advanced(Durable("target").cursor, f.cursor)
  /\ Has("target")' = Has("target") \cup f.ids

LEMMA ImportCommits ==
  ASSUME Types, Owned, ImportDid, ImportCommit
  PROVE  Imports(files[import.file])
<1> DEFINE d == "target"
<1>1. d \in Devices BY DEF Devices
<1>2. import.pc = "commit" /\ Commit(d) /\ UNCHANGED <<cursor, timeline>>
  BY DEF ImportCommit, Importing
<1>3. CommitsAt(d) /\ Open(d) BY <1>1, <1>2, CommitAt DEF Owned, Importing
<1>4. Durable(d)' = Store(d) /\ Durable(d) = saved[d]
  BY <1>3 DEF CommitsAt, Durable, Open, Store
<1>5. Has(d)' = Stored(timeline[d]) /\ Has(d) = Stored(saved[d].timeline)
      /\ Durable(d)'.cursor = cursor[d]
  BY <1>4 DEF Has, Store
<1>6. /\ Stored(timeline[d]) = Stored(saved[d].timeline) \cup files[import.file].ids
      /\ cursor[d] = Advanced(saved[d].cursor, files[import.file].cursor)
  BY <1>2 DEF ImportDid, Importing
<1> QED BY <1>4, <1>5, <1>6 DEF Imports

\* Every step: it keeps what is durable, or is one of the two commits.
Quiet(d) == Durable(d)' = Durable(d) /\ Has(d)' = Has(d)

LEMMA QuietStep ==
  ASSUME Types, Owned, EmptyAtFirst, DeliveryDid, ImportDid, [Next]_vars, NEW d \in Devices
  PROVE  \/ Quiet(d)
         \/ \E e \in Engines : d = Device(e) /\ DeliverCommit(e) /\ Takes(d, Head(queue[e]))
         \/ d = "target" /\ ImportCommit /\ Imports(files[import.file])
<1> USE DEF Quiet
<1>1. CASE \/ Send \/ (\E i \in Ids : Expire(i)) \/ (\E c \in Devices, n \in 1 .. 2 : Connect(c, n))
           \/ Export \/ UNCHANGED vars
  BY <1>1, OtherAt, DurableKeeps
<1>2. ASSUME NEW e \in Engines, Deliver(e)
      PROVE  Quiet(d) \/ (d = Device(e) /\ DeliverCommit(e) /\ Takes(d, Head(queue[e])))
  <2>1. CASE d # Device(e) BY <1>2, <2>1, DeliverAt, DurableKeeps
  <2>2. CASE d = Device(e)
    <3>1. CASE StaysAt(d) \/ BeginsAt(d) \/ WritesAt(d) BY <3>1, DurableKeeps
    <3>2. CASE RollsBackAt(d) /\ DeliverFails(e)
      <4>1. Open(d) BY <2>2, <3>2 DEF Owned, DeliverFails
      <4> QED BY <3>2, <4>1, DurableKeeps
    <3>3. CASE DeliverCommit(e) BY <2>2, <3>3, DeliverCommits
    <3> QED BY <1>2, <2>2, <3>1, <3>2, <3>3, DeliverAt
  <2> QED BY <2>1, <2>2
<1>3. CASE Import
  <2>1. CASE d # "target"
    <3>1. d = "source" BY <2>1 DEF Devices
    <3> QED BY <1>3, <3>1, ImportAt, DurableKeeps
  <2>2. CASE d = "target"
    <3>1. CASE StaysAt(d) \/ BeginsAt(d) \/ WritesAt(d) BY <3>1, DurableKeeps
    <3>2. CASE RollsBackAt(d) /\ ImportFails
      <4>1. Open(d) BY <2>2, <3>2 DEF Owned, ImportFails, Importing
      <4> QED BY <3>2, <4>1, DurableKeeps
    <3>3. CASE ImportCommit BY <2>2, <3>3, ImportCommits
    <3> QED BY <1>3, <2>2, <3>1, <3>2, <3>3, ImportAt
  <2> QED BY <2>1, <2>2
<1>4. ASSUME NEW c \in Devices, Reload(c) PROVE Quiet(d)
  <2>1. CASE d # c BY <1>4, <2>1, ReloadAt, DurableKeeps
  <2>2. CASE d = c BY <1>4, <2>2, ReloadAt, DurableKeeps
  <2> QED BY <2>1, <2>2
<1> QED BY <1>1, <1>2, <1>3, <1>4 DEF Next

\* So nothing is lost, and a store that has anything has a cursor.
LEMMA DurableGrows ==
  ASSUME Types, Owned, EmptyAtFirst, DeliveryDid, ImportDid, [Next]_vars
  PROVE  /\ EmptyAtFirst'
         /\ \A d \in Devices : Has(d) \subseteq Has(d)'
                               /\ Durable(d).cursor <= Durable(d)'.cursor
<1>1. ASSUME NEW d \in Devices
      PROVE  /\ Durable(d)'.cursor = 0 => Durable(d)'.timeline = <<>>
             /\ Has(d) \subseteq Has(d)' /\ Durable(d).cursor <= Durable(d)'.cursor
  <2>1. Durable(d).cursor \in Nat BY DurableIs
  <2>2. CASE Quiet(d) BY <2>1, <2>2 DEF Quiet, EmptyAtFirst
  <2>3. ASSUME NEW e \in Engines, DeliverCommit(e), Takes(d, Head(queue[e]))
        PROVE  /\ Durable(d)'.cursor # 0
               /\ Has(d) \subseteq Has(d)' /\ Durable(d).cursor <= Durable(d)'.cursor
    <3>1. Head(queue[e]) \in Ids BY <2>3, HeadIs DEF DeliverCommit
    <3> QED BY <2>1, <2>3, <3>1 DEF Takes, Ids
  <2>4. CASE d = "target" /\ ImportCommit /\ Imports(files[import.file])
    <3>1. files[import.file].cursor \in 1 .. sent /\ sent \in Nat
      BY <2>4, PartsOf, FileOf DEF ImportCommit, Importing, RelayTypes
    <3>2. /\ Durable(d)'.cursor = Advanced(Durable(d).cursor, files[import.file].cursor)
          /\ Has(d)' = Has(d) \cup files[import.file].ids
      BY <2>4 DEF Imports
    <3>3. Durable(d)'.cursor # 0 /\ Durable(d).cursor <= Durable(d)'.cursor
      BY <2>1, <3>1, <3>2 DEF Advanced
    <3> QED BY <3>2, <3>3
  <2> QED BY <2>2, <2>3, <2>4, QuietStep
<1> QED BY <1>1 DEF EmptyAtFirst

\* What was imported stays.
LEMMA ImportedStep ==
  ASSUME Types, Owned, EmptyAtFirst, DeliveryDid, ImportDid, ImportedStays, [Next]_vars, Types'
  PROVE  ImportedStays'
<1> SUFFICES ASSUME NEW f \in imported'
             PROVE  files'[f].ids \subseteq Has("target")'
                    /\ files'[f].cursor <= Durable("target")'.cursor
  BY DEF ImportedStays
<1>0. "target" \in Devices /\ FileTypes /\ ImportTypes /\ RelayTypes BY PartsOf DEF Devices
<1>1. \A g \in DOMAIN files : files'[g] = files[g]
  <2>1. sent <= sent' /\ RelayTypes' BY RelayTypesStep
  <2>2. sent \in Nat /\ sent' \in Nat BY <1>0, <2>1 DEF RelayTypes
  <2> QED BY <2>1, <2>2, FileTypesStep
<1>2. /\ Has("target") \subseteq Has("target")'
      /\ Durable("target").cursor <= Durable("target")'.cursor
  BY <1>0, DurableGrows
<1>3. Durable("target").cursor \in Nat BY <1>0, DurableIs
<1>4. CASE f \in imported
  <2>1. f \in DOMAIN files /\ files'[f] = files[f] BY <1>0, <1>1, <1>4 DEF ImportTypes
  <2>2. files[f].ids \subseteq Has("target") /\ files[f].cursor <= Durable("target").cursor
    BY <1>4 DEF ImportedStays
  <2>3. files[f].cursor \in Nat BY <1>0, <2>1 DEF FileTypes, RelayTypes
  <2>4. Durable("target")'.cursor \in Nat
    <3>1. \A d \in Devices : Types' => Durable(d)'.cursor \in Nat
      <4> SUFFICES ASSUME NEW d \in Devices PROVE Durable(d)'.cursor \in Nat OBVIOUS
      <4>1. /\ cursor' \in [Devices -> 0 .. sent'] /\ sent' \in Nat
            /\ saved' \in [Devices -> Stores]
        <5>1. TypeOK' /\ Shapes' BY DEF Types
        <5>2. sent' \in 0 .. MaxSeq /\ cursor' \in [Devices -> 0 .. sent'] BY <5>1 DEF TypeOK
        <5>3. saved' \in [Devices -> Stores] BY <5>1 DEF Shapes
        <5> QED BY <5>2, <5>3, Limits
      <4>2. cursor'[d] \in Nat /\ saved'[d].cursor \in Nat BY <4>1 DEF Stores
      <4> QED BY <4>2 DEF Durable, Store
    <3> QED BY <1>0, <3>1
  <2> QED BY <1>2, <1>3, <2>1, <2>2, <2>3, <2>4
<1>5. CASE f \notin imported
  <2>1. ImportCommit /\ f = import.file
    <3>1. CASE ImportCommit BY <1>5, <3>1 DEF ImportCommit
    <3>2. CASE ~ImportCommit
      <4>1. imported' = imported
        BY <3>2 DEF Next, Send, Expire, Connect, Deliver, DeliverBegin, Classify, Insert,
                    DeliverFails, DeliverCommit, Export, ExportCursor, ExportEntries, Import,
                    ImportBegin, ImportEntries, ImportCursor, ImportFails, Reload
      <4> QED BY <1>5, <4>1
    <3> QED BY <3>1, <3>2
  <2>2. f \in DOMAIN files /\ files'[f] = files[f] /\ files[f].cursor \in 1 .. sent /\ sent \in Nat
    BY <1>0, <1>1, <2>1, FileOf DEF ImportCommit, Importing, RelayTypes
  <2>3. Imports(files[f]) BY <2>1, ImportCommits
  <2> QED BY <1>3, <2>2, <2>3 DEF Imports, Advanced
<1> QED BY <1>4, <1>5

\* The numbers up to the cursor: as long as every file keeps to them, the stores do.
LEMMA NothingAboveStep ==
  ASSUME Types, Owned, EmptyAtFirst, DeliveryDid, ImportDid, NothingAbove, [Next]_vars
  PROVE  NothingAbove'
<1>0. FileTypes /\ RelayTypes BY PartsOf
<1>1. \A f \in DOMAIN files : f \in DOMAIN files' /\ files'[f] = files[f]
  <2>1. sent <= sent' /\ RelayTypes' BY RelayTypesStep
  <2>2. sent \in Nat /\ sent' \in Nat BY <1>0, <2>1 DEF RelayTypes
  <2> QED BY <2>1, <2>2, FileTypesStep
<1> SUFFICES ASSUME \A f \in DOMAIN files' : Whole(f)',
                    NEW d \in Devices, NEW i \in Has(d)'
             PROVE  i <= Durable(d)'.cursor
  BY DEF NothingAbove
<1>2. \A f \in DOMAIN files : Whole(f) BY <1>1 DEF Whole
<1>3. /\ \A k \in Has(d) : k <= Durable(d).cursor BY <1>2 DEF NothingAbove
<1>4. Durable(d).cursor \in Nat /\ Has(d) \subseteq Ids BY DurableIs
<1>5. CASE Quiet(d) BY <1>3, <1>5 DEF Quiet
<1>6. ASSUME NEW e \in Engines, DeliverCommit(e), Takes(d, Head(queue[e]))
      PROVE  i <= Durable(d)'.cursor
  <2>1. Head(queue[e]) \in Ids BY <1>6, HeadIs DEF DeliverCommit
  <2>2. i \in Has(d) \/ i = Head(queue[e]) BY <1>6 DEF Takes
  <2>3. i \in Nat BY <1>4, <2>1, <2>2 DEF Ids
  <2> QED BY <1>3, <1>4, <1>6, <2>1, <2>2, <2>3 DEF Takes, Ids
<1>7. CASE d = "target" /\ ImportCommit /\ Imports(files[import.file])
  <2> DEFINE f == files[import.file]
  <2>1. /\ import.file \in DOMAIN files /\ f.cursor \in 1 .. sent /\ sent \in Nat
        /\ f.ids \in SUBSET Ids
    BY <1>0, <1>7, PartsOf, FileOf DEF ImportCommit, Importing, RelayTypes
  <2>2. \A k \in f.ids : k <= f.cursor BY <1>2, <2>1 DEF Whole
  <2> HIDE DEF f
  <2>3. i \in Has(d) \/ i \in f.ids BY <1>7 DEF Imports, f
  <2>4. i \in Nat BY <1>4, <2>1, <2>3 DEF Ids
  <2>5. Durable(d)'.cursor = Advanced(Durable(d).cursor, f.cursor) BY <1>7 DEF Imports, f
  <2> QED BY <1>3, <1>4, <2>1, <2>2, <2>3, <2>4, <2>5 DEF Advanced
<1> QED BY <1>5, <1>6, <1>7, QuietStep

\* What is pending for the target.
LEMMA PendingStep ==
  ASSUME Types, PendingAtSource, [Next]_vars
  PROVE  PendingAtSource'
<1>0. RelayTypes /\ "source" \in Devices /\ "target" \in Devices BY PartsOf DEF Devices
<1>1. CASE Send BY <1>0, <1>1 DEF Send, PendingAtSource
<1>2. ASSUME NEW i \in Ids, Expire(i) PROVE PendingAtSource'
  BY <1>0, <1>2 DEF Expire, PendingAtSource
<1>3. ASSUME NEW e \in Engines, DeliverCommit(e) PROVE PendingAtSource'
  <2> DEFINE d == Device(e)  i == Head(queue[e])
  <2>1. d \in Devices BY DeviceOf
  <2>2. \/ /\ acked' = [acked EXCEPT ![d] = acked[d] \cup {i}]
           /\ pending' = [pending EXCEPT ![d] = pending[d] \ {i}]
        \/ UNCHANGED <<acked, pending>>
    BY <1>3 DEF DeliverCommit
  <2> HIDE DEF d, i
  <2> QED BY <1>0, <2>1, <2>2 DEF PendingAtSource, RelayTypes
<1>4. CASE UNCHANGED <<pending, acked>> BY <1>4 DEF PendingAtSource
<1> QED BY <1>1, <1>2, <1>3, <1>4
        DEF Next, Connect, Deliver, DeliverBegin, Classify, Insert, DeliverFails, Export,
            ExportCursor, ExportEntries, Import, ImportBegin, ImportEntries, ImportCursor,
            ImportCommit, ImportFails, Reload

-----------------------------------------------------------------------------
(* What is still to come                                                    *)

\* As long as nobody disturbs a transaction.
AckedHas == \A d \in Devices : acked[d] \subseteq Has(d)
DueAhead == \A d \in Devices : \A i \in Due(d) : i > Durable(d).cursor
DueQueued == \A e \in Engines : /\ Connected(e) => Due(Device(e)) \subseteq Range(queue[e])
                                /\ InOrder(queue[e], Due(Device(e)))
FilesCover == \A f \in DOMAIN files : \A i \in pending["target"] :
                i <= files[f].cursor => i \in files[f].ids
ReadingCovers == reading # None =>
  /\ Stored(reading.timeline) \subseteq Has("source")
  /\ \A i \in pending["target"] : i <= reading.cursor => i \in Stored(reading.timeline)

Calm == AckedHas /\ DueAhead /\ DueQueued /\ FilesCover /\ ReadingCovers

LEMMA SettledIs == Settled <=> (clash = {} => Calm)
BY DEF Settled, Calm, AckedHas, DueAhead, DueQueued, FilesCover, ReadingCovers

LEMMA ClashGrows == [Next]_vars => clash \subseteq clash'
BY DEF Next, Send, Expire, Connect, Deliver, DeliverBegin, Classify, Insert, DeliverFails,
       DeliverCommit, Refused, Export, ExportCursor, ExportEntries, Dirty, Import, ImportBegin,
       ImportEntries, ImportCursor, ImportCommit, ImportFails, Reload

\* The invariant before the step.
Before == Types /\ Owned /\ EmptyAtFirst /\ DeliveryDid /\ ImportDid /\ PendingAtSource

\* What is due is sent, and what a step adds to it is the message that it sends.
LEMMA DueIs ==
  ASSUME Types, NEW d \in Devices
  PROVE  Due(d) \in SUBSET Ids /\ pending[d] \in SUBSET Ids /\ \A i \in pending[d] : i <= sent
<1>1. pending[d] \in SUBSET Ids /\ pending[d] \subseteq 1 .. sent /\ sent \in Nat
  BY PartsOf DEF RelayTypes
<1> QED BY <1>1 DEF Due, Ids

LEMMA PendingOf ==
  ASSUME Types, [Next]_vars, NEW d \in Devices
  PROVE  \/ Send /\ pending'[d] = pending[d] \cup {sent + 1}
         \/ ~Send /\ pending'[d] \subseteq pending[d]
<1>0. RelayTypes BY PartsOf
<1>1. CASE Send BY <1>1 DEF Send
<1>2. CASE ~Send
  <2>1. ASSUME NEW i \in Ids, Expire(i) PROVE pending'[d] \subseteq pending[d]
    BY <2>1 DEF Expire
  <2>2. ASSUME NEW e \in Engines, DeliverCommit(e) PROVE pending'[d] \subseteq pending[d]
    <3>1. \/ pending' = [pending EXCEPT ![Device(e)] = @ \ {Head(queue[e])}]
          \/ pending' = pending
      BY <2>2 DEF DeliverCommit
    <3> QED BY <1>0, <3>1, DeviceOf DEF RelayTypes
  <2>3. pending' = pending => pending'[d] \subseteq pending[d] OBVIOUS
  <2>4. (\E i \in Ids : Expire(i)) \/ (\E e \in Engines : DeliverCommit(e)) \/ pending' = pending
    BY <1>2 DEF Next, Connect, Deliver, DeliverBegin, Classify, Insert, DeliverFails, Export,
            ExportCursor, ExportEntries, Import, ImportBegin, ImportEntries, ImportCursor,
            ImportCommit, ImportFails, Reload
  <2> QED BY <1>2, <2>1, <2>2, <2>3, <2>4
<1> QED BY <1>1, <1>2

LEMMA DueShrinks ==
  ASSUME Before, [Next]_vars, NEW d \in Devices
  PROVE  \/ Send /\ Due(d)' \subseteq Due(d) \cup {sent + 1} /\ Quiet(d)
         \/ ~Send /\ Due(d)' \subseteq Due(d)
<1>1. Has(d) \subseteq Has(d)' BY DurableGrows DEF Before
<1>2. Send => Quiet(d) BY OtherAt, DurableKeeps DEF Before, Quiet
<1> QED BY <1>1, <1>2, PendingOf DEF Before, Due

\* The number that an engine has done with is not due.
LEMMA DoneIsNotDue ==
  ASSUME Before, DueAhead, NEW e \in Engines, DeliverCommit(e) \/ DeliverFails(e), [Next]_vars
  PROVE  Head(queue[e]) \notin Due(Device(e))'
<1> DEFINE d == Device(e)  i == Head(queue[e])
<1>1. d \in Devices /\ i \in Ids BY DeviceOf, HeadIs DEF Before, DeliverCommit, DeliverFails
<1>2. CASE DeliverCommit(e) /\ Takes(d, i) BY <1>2 DEF Takes, Due
<1>3. CASE Quiet(d) /\ i <= Durable(d).cursor
  <2>1. i \notin Due(d)
    <3>1. i \in Due(d) => i > Durable(d).cursor BY <1>1 DEF DueAhead
    <3>2. i \in Nat /\ Durable(d).cursor \in Nat BY <1>1, DurableIs DEF Before, Ids
    <3> QED BY <1>3, <3>1, <3>2
  <2>2. ~Send
    BY DEF Send, DeliverCommit, DeliverFails, Commit, Rollback, Idle, Before, Types, TypeOK
  <2> QED BY <1>1, <2>1, <2>2, DueShrinks
<1>4. CASE DeliverFails(e)
  <2>1. task[e] = "rollback" /\ Open(d) BY <1>4 DEF DeliverFails, Before, Owned
  <2>2. i \in Has(d) BY <2>1 DEF Before, DeliveryDid, Did, Has, Durable
  <2>3. Has(d) \subseteq Has(d)' BY <1>1, DurableGrows DEF Before
  <2> QED BY <2>2, <2>3 DEF Due
<1> QED BY <1>2, <1>3, <1>4, DeliverCommits DEF Before, Quiet

\* What is acked is in the store.
LEMMA AckedStep ==
  ASSUME Before, AckedHas, DueAhead, [Next]_vars
  PROVE  AckedHas'
<1> SUFFICES ASSUME NEW d \in Devices PROVE acked'[d] \subseteq Has(d)' BY DEF AckedHas
<1>0. RelayTypes /\ acked[d] \subseteq Has(d) /\ Has(d) \subseteq Has(d)'
  BY PartsOf, DurableGrows DEF Before, AckedHas
<1>1. CASE acked' = acked BY <1>0, <1>1
<1>2. ASSUME NEW e \in Engines, DeliverCommit(e) PROVE acked'[d] \subseteq Has(d)'
  <2> DEFINE i == Head(queue[e])
  <2>1. CASE acked'[d] = acked[d] BY <1>0, <2>1
  <2>2. CASE d = Device(e) /\ i \in pending[d] /\ acked'[d] = acked[d] \cup {i}
    <3>1. i \in Has(d)'
      <4>1. CASE Takes(d, i) BY <4>1 DEF Takes
      <4>2. CASE i <= Durable(d).cursor
        <5>1. i \in Nat /\ Durable(d).cursor \in Nat
          BY <1>2, HeadIs, DurableIs DEF Before, DeliverCommit, Ids
        <5>2. i \notin Due(d) BY <4>2, <5>1 DEF DueAhead
        <5> QED BY <1>0, <2>2, <5>2 DEF Due
      <4> QED BY <1>2, <2>2, <4>1, <4>2, DeliverCommits DEF Before
    <3> QED BY <1>0, <2>2, <3>1
  <2>3. Device(e) \in Devices BY DeviceOf
  <2>4. \/ i \in pending[Device(e)] /\ acked' = [acked EXCEPT ![Device(e)] = @ \cup {i}]
        \/ acked' = acked
    BY <1>2 DEF DeliverCommit
  <2> QED BY <1>0, <2>1, <2>2, <2>3, <2>4 DEF RelayTypes
<1>3. acked' = acked \/ \E e \in Engines : DeliverCommit(e)
  BY DEF Next, Send, Expire, Connect, Deliver, DeliverBegin, Classify, Insert, DeliverFails, Export,
         ExportCursor, ExportEntries, Import, ImportBegin, ImportEntries, ImportCursor,
         ImportCommit, ImportFails, Reload
<1> QED BY <1>1, <1>2, <1>3

\* What is due is above the cursor: deliveries come in order, and a file has the rest.
LEMMA AheadStep ==
  ASSUME Before, DueAhead, DueQueued, FilesCover, [Next]_vars
  PROVE  DueAhead'
<1> SUFFICES ASSUME NEW d \in Devices, NEW j \in Due(d)' PROVE j > Durable(d)'.cursor
  BY DEF DueAhead
<1>0. Durable(d).cursor \in Nat /\ Durable(d).cursor <= sent /\ sent \in Nat
  BY PartsOf, DurableIs DEF Before, RelayTypes
<1>1. CASE Send /\ j = sent + 1
  <2>1. Quiet(d) BY <1>1, DueShrinks
  <2> QED BY <1>0, <1>1, <2>1 DEF Quiet
<1>2. CASE j \in Due(d)
  <2>1. j > Durable(d).cursor /\ j \in Ids /\ j \in Nat /\ j \in pending[d]
    BY <1>2, DueIs DEF DueAhead, Before, Due, Ids
  <2>2. j \notin Has(d)' BY DEF Due
  <2>3. CASE Quiet(d) BY <2>1, <2>3 DEF Quiet
  <2>4. ASSUME NEW e \in Engines, d = Device(e), DeliverCommit(e), Takes(d, Head(queue[e]))
        PROVE  j > Durable(d)'.cursor
    <3> DEFINE i == Head(queue[e])
    <3>1. i \in Ids /\ queue[e] # <<>> /\ queue[e] \in Seq(Ids)
      BY <2>4, HeadIs DEF Before, DeliverCommit
    <3>2. InOrder(queue[e], Due(d)) /\ Due(d) \in SUBSET Ids
      BY <2>4, DueIs DEF DueQueued, Before
    <3>3. i \notin {} /\ {} \in SUBSET Due(d) OBVIOUS
    <3>4. \A k \in Due(d) : ~ (k < i) BY <3>1, <3>2, <3>3, TailInOrder
    <3>5. i \in Has(d)' /\ Durable(d)'.cursor = i BY <2>4 DEF Takes
    <3>6. j # i /\ ~ (j < i) /\ i \in Nat BY <1>2, <2>2, <3>1, <3>4, <3>5 DEF Ids
    <3> HIDE DEF i
    <3> QED BY <2>1, <3>5, <3>6
  <2>5. CASE d = "target" /\ ImportCommit /\ Imports(files[import.file])
    <3> DEFINE f == files[import.file]
    <3>1. import.file \in DOMAIN files /\ f.cursor \in 1 .. sent
      BY <2>5, PartsOf, FileOf DEF Before, ImportCommit, Importing
    <3>2. f.ids \subseteq Has(d)' /\ Durable(d)'.cursor = Advanced(Durable(d).cursor, f.cursor)
      BY <2>5 DEF Imports
    <3>3. ~ (j <= f.cursor) BY <2>1, <2>2, <2>5, <3>1, <3>2 DEF FilesCover
    <3> HIDE DEF f
    <3> QED BY <1>0, <2>1, <3>1, <3>2, <3>3 DEF Advanced
  <2> QED BY <2>3, <2>4, <2>5, QuietStep DEF Before
<1> QED BY <1>1, <1>2, DueShrinks

\* The queues: what is due comes to the engine that is connected, and comes in order.
QueuedFor(e) ==
  /\ Connected(e) => Due(Device(e)) \subseteq Range(queue[e])
  /\ InOrder(queue[e], Due(Device(e)))

LEMMA QueuedOnSend ==
  ASSUME Before, Send, [Next]_vars, NEW e \in Engines, QueuedFor(e)
  PROVE  QueuedFor(e)'
<1> DEFINE d == Device(e)  D == Due(d)  n == sent + 1
<1>1. d \in Devices /\ D \in SUBSET Ids /\ \A i \in D : i <= sent
  BY DeviceOf, DueIs DEF Before, Due
<1>2. Due(d)' \subseteq D \cup {n} BY <1>1, DueShrinks
<1>3. /\ queue'[e] = queue[e] \/ (queue'[e] = queue[e] \o <<n>> /\ Connected(e))
      /\ Connected(e) => queue'[e] = queue[e] \o <<n>>
      /\ queue[e] \in Seq(Ids) /\ n \in Ids /\ <<n>> \in Seq(Ids) /\ Range(<<n>>) = {n}
      /\ sent \in Nat
  BY SendBehind DEF Before
<1>4. Connected(e)' <=> Connected(e) BY DEF Send, Connected
<1>5. \A k \in DOMAIN queue[e] : queue[e][k] <= sent BY PartsOf DEF Before, EngineTypes
<1>6. InOrder(queue[e], D) /\ (Connected(e) => D \subseteq Range(queue[e])) BY DEF QueuedFor
<1> HIDE DEF D, n
<1>7. InOrder(queue[e], Due(d)')
  BY <1>1, <1>2, <1>3, <1>5, <1>6, HigherInOrder DEF n
<1>8. CASE Connected(e)
  <2>1. queue'[e] = queue[e] \o <<n>> BY <1>3, <1>8
  <2>2. Range(queue[e] \o <<n>>) = Range(queue[e]) \cup Range(<<n>>) BY <1>3, Behind
  <2>3. Due(d)' \subseteq Range(queue[e]) \cup Range(<<n>>) BY <1>2, <1>3, <1>6, <1>8
  <2>4. Increasing(<<n>>) BY DEF Increasing
  <2>5. Due(d)' \in SUBSET Ids BY <1>1, <1>2, <1>3
  <2>6. InOrder(queue[e] \o <<n>>, Due(d)') BY <1>3, <1>7, <2>3, <2>4, <2>5, BehindInOrder
  <2> QED BY <2>1, <2>2, <2>3, <2>6 DEF QueuedFor
<1>9. CASE ~Connected(e)
  <2>1. queue'[e] = queue[e] BY <1>3, <1>9
  <2> QED BY <1>4, <1>7, <1>9, <2>1 DEF QueuedFor
<1> QED BY <1>8, <1>9

\* The same queue, or the rest of it.
LEMMA QueuedOnSame ==
  ASSUME Before, ~Send, [Next]_vars, NEW e \in Engines, QueuedFor(e), queue'[e] = queue[e],
         Connected(e)' => Connected(e)
  PROVE  QueuedFor(e)'
<1> DEFINE d == Device(e)
<1>1. Due(d)' \subseteq Due(d) BY DeviceOf, DueShrinks
<1>2. InOrder(queue[e], Due(d)') BY <1>1, FewerInOrder DEF QueuedFor
<1> QED BY <1>1, <1>2 DEF QueuedFor

LEMMA QueuedOnTail ==
  ASSUME Before, DueAhead, [Next]_vars, NEW e \in Engines, QueuedFor(e), Idle(e), ~Send,
         DeliverCommit(e) \/ DeliverFails(e)
  PROVE  QueuedFor(e)'
<1> DEFINE d == Device(e)  D == Due(d)  E == Due(d)'  q == queue[e]
<1>1. d \in Devices /\ D \in SUBSET Ids /\ E \in SUBSET D
  BY DeviceOf, DueIs, DueShrinks DEF Before
<1>2. Head(q) \notin E BY DoneIsNotDue
<1>3. q \in Seq(Ids) /\ q # <<>> BY HeadIs DEF Before, DeliverCommit, DeliverFails
<1>4. InOrder(q, D) /\ (Connected(e) => D \subseteq Range(q)) BY DEF QueuedFor
<1>5. queue'[e] = Tail(q) BY PartsOf DEF Before, Idle, EngineTypes
<1>6. Connected(e)' <=> Connected(e) BY DEF DeliverCommit, DeliverFails, Connected
<1> HIDE DEF D, E, q
<1>7. InOrder(Tail(q), E) /\ (D \subseteq Range(q) => E \subseteq Range(Tail(q)))
  BY <1>1, <1>2, <1>3, <1>4, TailInOrder
<1> QED BY <1>4, <1>5, <1>6, <1>7 DEF QueuedFor, E

\* What the relay drains: all that is pending, in its order.
LEMMA QueuedOnDrain ==
  ASSUME Before, ~Send, [Next]_vars, NEW e \in Engines, NEW q \in Seq(Ids),
         InOrder(q, Due(Device(e))), queue'[e] = q \o Drained(Device(e))
  PROVE  QueuedFor(e)'
<1> DEFINE d == Device(e)  D == Due(d)  p == Drained(d)
<1>1. d \in Devices /\ D \in SUBSET Ids /\ Due(d)' \subseteq D /\ D \subseteq pending[d]
  BY DeviceOf, DueIs, DueShrinks DEF Before, Due
<1>2. p \in Seq(Ids) /\ Range(p) = pending[d] /\ Increasing(p)
  BY <1>1, PartsOf, DrainedIs DEF Before
<1> HIDE DEF D, p
<1>3. D \subseteq Range(q) \cup Range(p) BY <1>1, <1>2
<1>4. InOrder(q \o p, D) BY <1>1, <1>2, <1>3, BehindInOrder DEF D
<1>5. InOrder(q \o p, Due(d)') BY <1>1, <1>4, FewerInOrder
<1>6. Range(q \o p) = Range(q) \cup Range(p) BY <1>2, Behind
<1>7. Due(d)' \subseteq Range(q \o p) BY <1>1, <1>3, <1>6
<1> QED BY <1>5, <1>7 DEF QueuedFor, p

LEMMA QueuedStep ==
  ASSUME Before, DueAhead, DueQueued, [Next]_vars, clash' = {}
  PROVE  DueQueued'
<1> SUFFICES ASSUME NEW e \in Engines PROVE QueuedFor(e)' BY DEF DueQueued, QueuedFor
<1> DEFINE d == Device(e)
<1>0. /\ QueuedFor(e) /\ EngineTypes /\ RelayTypes /\ d \in Devices /\ e = <<d, e[2]>>
      /\ queue[e] \in Seq(Ids) /\ InOrder(queue[e], Due(d))
  BY PartsOf, DeviceOf DEF DueQueued, QueuedFor, Before, EngineTypes
<1>1. CASE Send BY <1>0, <1>1, QueuedOnSend
<1>2. CASE \/ (\E i \in Ids : Expire(i)) \/ Export \/ Import \/ UNCHANGED vars
  <2>1. queue' = queue /\ live' = live /\ sent' = sent
    BY <1>2 DEF Expire, Export, ExportCursor, ExportEntries, Import, ImportBegin, ImportEntries,
                ImportCursor, ImportCommit, ImportFails
  <2>2. ~Send BY <1>0, <2>1 DEF Send, RelayTypes
  <2>3. Connected(e)' <=> Connected(e) BY <2>1 DEF Connected
  <2> QED BY <1>0, <2>1, <2>2, <2>3, QueuedOnSame
<1>3. ASSUME NEW g \in Engines, Deliver(g) PROVE QueuedFor(e)'
  <2>1. live' = live /\ sent' = sent
    BY <1>3 DEF Deliver, DeliverBegin, Classify, Insert, DeliverFails, DeliverCommit
  <2>2. ~Send /\ (Connected(e)' <=> Connected(e))
    BY <1>0, <2>1 DEF Send, RelayTypes, Connected
  <2>3. CASE queue'[e] = queue[e] BY <1>0, <2>2, <2>3, QueuedOnSame
  <2>4. CASE g = e /\ Idle(e)
    <3>1. ~Refused(d) BY DEF Refused
    <3>2. DeliverCommit(e) \/ DeliverFails(e)
      <4>1. CASE GoTo(e, "classify")
        <5>1. task'[e] = "classify" /\ task'[e] = "idle"
          BY <1>0, <2>4, <4>1 DEF GoTo, Idle, EngineTypes
        <5> QED BY <5>1
      <4>2. CASE Classify(e) \/ Insert(e)
        <5>1. task'[e] = "idle" BY <1>0, <2>4 DEF Idle, EngineTypes
        <5>2. task'[e] # "idle" BY <4>2, ClassifyWrites, InsertWrites DEF Before
        <5> QED BY <5>1, <5>2
      <4> QED BY <1>3, <2>4, <3>1, <4>1, <4>2, DeliverAt DEF Before
    <3> QED BY <1>0, <2>2, <2>4, <3>2, QueuedOnTail
  <2>5. queue'[e] = queue[e] \/ (g = e /\ Idle(e))
    BY <1>0, <1>3 DEF Deliver, DeliverBegin, Classify, Insert, DeliverFails, DeliverCommit, Idle,
                      GoTo, EngineTypes
  <2> QED BY <2>3, <2>4, <2>5
<1>4. ASSUME NEW c \in Devices, NEW n \in 1 .. 2, Connect(c, n) PROVE QueuedFor(e)'
  <2>1. /\ live' = [live EXCEPT ![c] = n] /\ sent' = sent
        /\ queue' = [queue EXCEPT ![<<c, n>>] = queue[<<c, n>>] \o Drained(c)]
    BY <1>4 DEF Connect
  <2>2. ~Send BY <1>0, <2>1 DEF Send, RelayTypes
  <2>3. CASE e = <<c, n>>
    <3>1. c = d BY <2>3 DEF Device
    <3>2. queue'[e] = queue[e] \o Drained(d) BY <1>0, <2>1, <2>3, <3>1 DEF EngineTypes
    <3> QED BY <1>0, <2>2, <3>2, QueuedOnDrain
  <2>4. CASE e # <<c, n>>
    <3>1. queue'[e] = queue[e] BY <1>0, <2>1, <2>4 DEF EngineTypes
    <3>2. Connected(e)' => Connected(e)
      <4>1. CASE c = d
        <5>1. live'[d] = n /\ e[2] # n BY <1>0, <2>1, <2>4, <4>1 DEF RelayTypes
        <5> QED BY <5>1 DEF Connected
      <4>2. CASE c # d
        <5>1. live'[d] = live[d] BY <1>0, <2>1, <4>2 DEF RelayTypes
        <5> QED BY <5>1 DEF Connected
      <4> QED BY <4>1, <4>2
    <3> QED BY <1>0, <2>2, <3>1, <3>2, QueuedOnSame
  <2> QED BY <2>3, <2>4
<1>5. ASSUME NEW c \in Devices, Reload(c) PROVE QueuedFor(e)'
  <2>1. /\ live' = [live EXCEPT ![c] = 1] /\ sent' = sent
        /\ queue'[e] = IF d # c THEN queue[e] ELSE IF e[2] = 1 THEN Drained(c) ELSE <<>>
    BY <1>5 DEF Reload
  <2>2. ~Send BY <1>0, <2>1 DEF Send, RelayTypes
  <2>3. CASE d # c
    <3>1. Connected(e)' <=> Connected(e) BY <1>0, <2>1, <2>3 DEF Connected, RelayTypes
    <3> QED BY <1>0, <2>1, <2>2, <2>3, <3>1, QueuedOnSame
  <2>4. CASE d = c /\ e[2] = 1
    <3>1. Drained(d) \in Seq(Ids) BY <1>0, DrainedIs
    <3>2. <<>> \o Drained(d) = Drained(d) BY <3>1, ConcatEmptySeq
    <3>3. <<>> \in Seq(Ids) /\ InOrder(<<>>, Due(d)) BY DEF InOrder
    <3>4. queue'[e] = <<>> \o Drained(d) BY <2>1, <2>4, <3>2
    <3> QED BY <2>2, <3>3, <3>4, QueuedOnDrain
  <2>5. CASE d = c /\ e[2] # 1
    <3>1. ~Connected(e)' BY <1>0, <2>1, <2>5 DEF Connected, RelayTypes
    <3>2. queue'[e] = <<>> BY <2>1, <2>5
    <3>3. InOrder(queue'[e], Due(d)') BY <3>2 DEF InOrder
    <3> QED BY <3>1, <3>3 DEF QueuedFor
  <2> QED BY <2>3, <2>4, <2>5
<1> QED BY <1>1, <1>2, <1>3, <1>4, <1>5 DEF Next

\* An export reads a store that is complete up to its cursor.
LEMMA CleanRead ==
  ASSUME Before, AckedHas, DueAhead, Dirty, clash' = {}
  PROVE  /\ Store("source") = Durable("source")
         /\ Stored(Store("source").timeline) = Has("source")
         /\ \A i \in pending["target"] :
              i <= Store("source").cursor => i \in Stored(Store("source").timeline)
<1> DEFINE d == "source"
<1>1. d \in Devices /\ "target" \in Devices BY DEF Devices
<1>2. ~Open(d) BY DEF Dirty
<1>3. Store(d) = Durable(d) /\ Stored(Store(d).timeline) = Has(d) BY <1>2 DEF Durable, Has
<1>4. ASSUME NEW i \in pending["target"], i <= Durable(d).cursor PROVE i \in Has(d)
  <2>1. i \in pending[d] \/ i \in Has(d) BY <1>1 DEF Before, PendingAtSource, AckedHas
  <2>2. i \in Due(d) => i > Durable(d).cursor BY <1>1 DEF DueAhead
  <2>3. i \in Nat /\ Durable(d).cursor \in Nat BY <1>1, DueIs, DurableIs DEF Before, Ids
  <2> QED BY <1>4, <2>1, <2>2, <2>3 DEF Due
<1> QED BY <1>3, <1>4

\* A file covers what the target is still to get, and so does a reading.
LEMMA FilesStep ==
  ASSUME Before, AckedHas, DueAhead, FilesCover, ReadingCovers, [Next]_vars, clash' = {}
  PROVE  FilesCover'
<1>0. "target" \in Devices /\ RelayTypes /\ FileTypes BY PartsOf DEF Devices, Before
<1>1. \A f \in DOMAIN files : files'[f] = files[f]
  <2>1. sent <= sent' /\ RelayTypes' BY RelayTypesStep DEF Before
  <2>2. sent \in Nat /\ sent' \in Nat BY <1>0, <2>1 DEF RelayTypes
  <2> QED BY <2>1, <2>2, FileTypesStep DEF Before
<1> SUFFICES ASSUME NEW f \in DOMAIN files', NEW i \in pending'["target"],
                    i <= files'[f].cursor
             PROVE  i \in files'[f].ids
  BY DEF FilesCover
<1>2. CASE f \in DOMAIN files
  <2>1. files'[f] = files[f] /\ files[f].cursor \in 1 .. sent /\ sent \in Nat
    BY <1>0, <1>1, <1>2 DEF FileTypes, RelayTypes
  <2>2. i # sent + 1 BY <2>1
  <2>3. i \in pending["target"] BY <1>0, <2>2, PendingOf DEF Before
  <2> QED BY <1>2, <2>1, <2>3 DEF FilesCover
<1>3. CASE f \notin DOMAIN files
  <2>1. CASE ExportEntries
    <3> DEFINE x == Payload(reading, Store("source"))
    <3>1. files' = Append(files, x) /\ reading # None /\ Dirty /\ pending' = pending
      BY <2>1 DEF ExportEntries
    <3>2. files'[f] = x
      <4>1. files \in Seq(Files) /\ DOMAIN files = 1 .. Len(files) /\ Len(files) \in Nat
        BY <1>0, LenProperties DEF FileTypes
      <4>2. x \in Files
        <5>1. reading.cursor \in Nat BY <1>0 DEF FileTypes, Stores
        <5> QED BY <5>1 DEF Payload, Files, Stored
      <4> HIDE DEF x
      <4>3. /\ Append(files, x) \in Seq(Files) /\ Len(Append(files, x)) = Len(files) + 1
            /\ Append(files, x)[Len(files) + 1] = x
        BY <4>1, <4>2, AppendProperties
      <4>4. f \in 1 .. Len(files) + 1
        <5>1. DOMAIN files' = 1 .. Len(files) + 1 BY <3>1, <4>3, LenProperties
        <5> QED BY <5>1
      <4>5. f = Len(files) + 1 BY <1>3, <4>1, <4>4
      <4> QED BY <3>1, <4>3, <4>5
    <3>3. x.cursor = reading.cursor /\ x.ids = Stored(Store("source").timeline) BY DEF Payload
    <3>4. Stored(Store("source").timeline) = Has("source") BY <3>1, CleanRead
    <3>5. Stored(reading.timeline) \subseteq Has("source")
          /\ \A k \in pending["target"] : k <= reading.cursor => k \in Stored(reading.timeline)
      BY <3>1 DEF ReadingCovers
    <3> QED BY <3>1, <3>2, <3>3, <3>4, <3>5
  <2>2. CASE ~ExportEntries
    <3>1. files' = files
      BY <2>2 DEF Next, Send, Expire, Connect, Deliver, DeliverBegin, Classify, Insert,
                  DeliverFails, DeliverCommit, Export, ExportCursor, Import, ImportBegin,
                  ImportEntries, ImportCursor, ImportCommit, ImportFails, Reload
    <3> QED BY <1>3, <3>1
  <2> QED BY <2>1, <2>2
<1> QED BY <1>2, <1>3

LEMMA ReadingStep ==
  ASSUME Before, AckedHas, DueAhead, ReadingCovers, [Next]_vars, clash' = {}
  PROVE  ReadingCovers'
<1>0. /\ "target" \in Devices /\ "source" \in Devices /\ RelayTypes /\ FileTypes /\ sent \in Nat
      /\ Has("source") \subseteq Has("source")'
  BY PartsOf, DurableGrows DEF Devices, Before, RelayTypes
<1>1. CASE ExportCursor
  <2>1. reading' = Store("source") /\ Dirty /\ pending' = pending BY <1>1 DEF ExportCursor
  <2>2. /\ Stored(Store("source").timeline) = Has("source")
        /\ \A i \in pending["target"] :
             i <= Store("source").cursor => i \in Stored(Store("source").timeline)
    BY <2>1, CleanRead
  <2> QED BY <1>0, <2>1, <2>2 DEF ReadingCovers
<1>2. CASE reading' = reading
  <2> SUFFICES ASSUME reading # None
               PROVE  /\ Stored(reading.timeline) \subseteq Has("source")'
                      /\ \A i \in pending'["target"] :
                           i <= reading.cursor => i \in Stored(reading.timeline)
    BY <1>2 DEF ReadingCovers
  <2>1. reading.cursor \in Nat /\ reading.cursor <= sent BY <1>0 DEF FileTypes, Stores
  <2>2. \A i \in pending'["target"] : i \in pending["target"] \/ i = sent + 1
    BY <1>0, PendingOf DEF Before
  <2>3. ~ (sent + 1 <= reading.cursor) BY <1>0, <2>1
  <2> QED BY <1>0, <2>2, <2>3 DEF ReadingCovers
<1>3. CASE reading' = None BY <1>3 DEF ReadingCovers
<1>4. ExportCursor \/ reading' = reading \/ reading' = None
  BY DEF Next, Send, Expire, Connect, Deliver, DeliverBegin, Classify, Insert, DeliverFails,
         DeliverCommit, Export, ExportEntries, Import, ImportBegin, ImportEntries, ImportCursor,
         ImportCommit, ImportFails, Reload
<1> QED BY <1>1, <1>2, <1>3, <1>4

LEMMA SettledStep ==
  ASSUME Before, Settled, [Next]_vars
  PROVE  Settled'
<1>1. Settled' <=> (clash' = {} => Calm')
  BY DEF Settled, Calm, AckedHas, DueAhead, DueQueued, FilesCover, ReadingCovers
<1> SUFFICES ASSUME clash' = {} PROVE Calm' BY <1>1
<1>2. Calm BY ClashGrows, SettledIs
<1>3. AckedHas' BY <1>2, AckedStep DEF Calm
<1>4. DueAhead' BY <1>2, AheadStep DEF Calm
<1>5. DueQueued' BY <1>2, QueuedStep DEF Calm
<1>6. FilesCover' BY <1>2, FilesStep DEF Calm
<1>7. ReadingCovers' BY <1>2, ReadingStep DEF Calm
<1> QED BY <1>3, <1>4, <1>5, <1>6, <1>7 DEF Calm

-----------------------------------------------------------------------------
(* Theorems                                                                 *)

LEMMA InvInit == Init => Types /\ IInv
<1> SUFFICES ASSUME Init PROVE Types /\ IInv OBVIOUS
<1>1. \A e \in Engines : queue[e] = <<>> /\ task[e] = "idle" BY DEF Init
<1>2. \A d \in Devices : /\ pending[d] = {} /\ acked[d] = {} /\ live[d] = 1 /\ cursor[d] = 0
                         /\ timeline[d] = <<>> /\ saved[d] = None
  BY DEF Init
<1>3. /\ sent = 0 /\ reading = None /\ files = <<>> /\ import = NotImporting /\ imported = {}
      /\ clash = {} /\ upsets = 0
  BY DEF Init
<1>4. None \in Stores /\ Unique(None.timeline) /\ None.cursor = 0 BY NoneIsStore
<1>5. <<>> \in Seq(Entries) /\ Unique(<<>>) /\ Stored(<<>>) = {} BY NoEntry
<1>6. Types
  <2>1. DOMAIN <<>> = {} /\ Range(<<>>) = {} /\ Len(<<>>) = 0 BY DEF Range
  <2>2. TypeOK
    <3>1. 0 \in 0 .. MaxSeq /\ 0 \in 0 .. MaxUpsets BY Limits
    <3>2. live \in [Devices -> 1 .. 2] /\ cursor \in [Devices -> 0 .. sent] BY <1>3 DEF Init
    <3>3. task \in [Engines -> Turns] BY DEF Init, Turns
    <3>4. import \in [pc : Pieces, file : 0 .. MaxFiles] BY <1>3, Limits DEF NotImporting, Pieces
    <3>5. reading.cursor \in 0 .. sent BY <1>3, <1>4
    <3> QED BY <1>2, <1>3, <1>5, <2>1, <3>1, <3>2, <3>3, <3>4, <3>5 DEF TypeOK
  <2>3. Shapes
    <3>1. <<>> \in Seq(Ids) /\ <<>> \in Seq(Files) OBVIOUS
    <3>2. /\ pending \in [Devices -> SUBSET Ids] /\ acked \in [Devices -> SUBSET Ids]
          /\ queue \in [Engines -> Seq(Ids)] /\ timeline \in [Devices -> Seq(Entries)]
          /\ saved \in [Devices -> Stores]
      BY <1>4, <1>5, <3>1 DEF Init
    <3> QED BY <1>1, <1>2, <1>3, <1>4, <2>1, <3>1, <3>2, Limits DEF Shapes
  <2> QED BY <2>2, <2>3 DEF Types
<1>7. \A d \in Devices : Durable(d).timeline = <<>> /\ Has(d) = {} /\ Due(d) = {}
  BY <1>2, <1>5 DEF Durable, Open, Store, Has, Due
<1>8. Owned BY <1>1, <1>3 DEF Owned, Importing, NotImporting
<1>9. DeliveryDid BY <1>1 DEF DeliveryDid, Did
<1>10. ImportDid BY <1>3 DEF ImportDid, Importing, NotImporting
<1>11. EmptyAtFirst /\ ImportedStays /\ NothingAbove
  BY <1>3, <1>7 DEF EmptyAtFirst, ImportedStays, NothingAbove
<1>12. PendingAtSource BY <1>2 DEF PendingAtSource, Devices
<1>13. Settled
  <2>1. AckedHas /\ DueAhead BY <1>2, <1>7 DEF AckedHas, DueAhead
  <2>2. DueQueued
    <3>1. \A e \in Engines : Due(Device(e)) = {} BY <1>7, DeviceOf
    <3> QED BY <3>1 DEF DueQueued, InOrder
  <2>3. FilesCover /\ ReadingCovers
    <3>1. DOMAIN files = {} BY <1>3
    <3> QED BY <1>3, <3>1 DEF FilesCover, ReadingCovers
  <2> QED BY <2>1, <2>2, <2>3, SettledIs DEF Calm
<1> QED BY <1>6, <1>8, <1>9, <1>10, <1>11, <1>12, <1>13 DEF IInv

LEMMA InvStep == Types /\ IInv /\ [Next]_vars => Types' /\ IInv'
<1> SUFFICES ASSUME Types, IInv, [Next]_vars PROVE Types' /\ IInv' OBVIOUS
<1>1. Owned /\ DeliveryDid /\ ImportDid /\ EmptyAtFirst /\ ImportedStays /\ NothingAbove
      /\ PendingAtSource /\ Settled
  BY DEF IInv
<1>2. Before BY <1>1 DEF Before
<1>3. Types' BY <1>1, TypesStep
<1>4. Owned' BY <1>1, OwnedStep
<1>5. DeliveryDid' BY <1>1, DidStep
<1>6. ImportDid' BY <1>1, ImportDidStep
<1>7. EmptyAtFirst' BY <1>1, DurableGrows
<1>8. ImportedStays' BY <1>1, <1>3, ImportedStep
<1>9. NothingAbove' BY <1>1, NothingAboveStep
<1>10. PendingAtSource' BY <1>1, PendingStep
<1>11. Settled' BY <1>1, <1>2, SettledStep
<1> QED BY <1>3, <1>4, <1>5, <1>6, <1>7, <1>8, <1>9, <1>10, <1>11 DEF IInv

\* Every reachable state: the types hold, and so does the invariant.
THEOREM Invariant == Spec => [](Types /\ IInv)
BY InvInit, InvStep, PTL DEF Spec

\* The variables keep their types, and a message is once in a timeline at most.
THEOREM TypeCorrect == Spec => []TypeOK
<1>1. Types /\ IInv => TypeOK BY DEF Types
<1> QED BY <1>1, Invariant, PTL

\* However deliveries, exports and imports interleave, what a device has acked is in its
\* store, unless one of them has read or begun within another's transaction.
THEOREM AcksAreKept == Spec => []AckedIsKept
<1>1. Types /\ IInv => AckedIsKept
  <2> SUFFICES ASSUME IInv, clash = {}, NEW d \in Devices, ~Open(d)
               PROVE  acked[d] \subseteq Stored(timeline[d])
    BY DEF AckedIsKept
  <2>1. acked[d] \subseteq Has(d) BY DEF IInv, Settled
  <2>2. Has(d) = Stored(timeline[d]) BY DEF Has, Durable, Store
  <2> QED BY <2>1, <2>2
<1> QED BY <1>1, Invariant, PTL

\* A file that was imported once adds nothing: its second import writes the store that it found.
THEOREM ImportsAreIdempotent == Spec => []ReimportIsNoop
<1>1. Types /\ IInv => ReimportIsNoop
  <2> SUFFICES ASSUME Types, IInv, Importing("commit"), import.file \in imported
               PROVE  Store("target") = saved["target"]
    BY DEF ReimportIsNoop
  <2> DEFINE d == "target"  f == files[import.file]
  <2>1. /\ Stored(timeline[d]) = Stored(saved[d].timeline) \cup f.ids
        /\ f.ids \subseteq Stored(saved[d].timeline) => timeline[d] = saved[d].timeline
        /\ cursor[d] = Advanced(saved[d].cursor, f.cursor)
    BY DEF IInv, ImportDid, Importing
  <2>2. Open(d) BY DEF IInv, Owned, Importing
  <2>3. f.ids \subseteq Stored(saved[d].timeline) /\ f.cursor <= saved[d].cursor
    BY <2>2 DEF IInv, ImportedStays, Has, Durable
  <2>4. saved[d] \in Stores /\ saved[d].cursor \in Nat
    BY PartsOf, StoreOf DEF RelayTypes, Devices
  <2>5. f.cursor \in Nat BY PartsOf, FileOf DEF IInv, Importing, RelayTypes
  <2>6. cursor[d] = saved[d].cursor BY <2>1, <2>3, <2>4, <2>5 DEF Advanced
  <2>7. timeline[d] = saved[d].timeline BY <2>1, <2>3
  <2> QED BY <2>4, <2>6, <2>7 DEF Store, Stores
<1> QED BY <1>1, Invariant, PTL

\* The table refuses no delivery, as long as no file has messages above its own cursor.
THEOREM DeliveriesAreTaken == Spec => []NothingAhead
<1>1. Types /\ IInv => NothingAhead
  <2> SUFFICES ASSUME Types, IInv, \A f \in DOMAIN files : Whole(f),
                      NEW e \in Engines, task[e] = "rollback"
               PROVE  FALSE
    BY DEF NothingAhead
  <2> DEFINE d == Device(e)  i == Head(queue[e])
  <2>1. d \in Devices /\ Open(d) BY DeviceOf DEF IInv, Owned
  <2>2. i \in Stored(saved[d].timeline) /\ saved[d].cursor < i BY DEF IInv, DeliveryDid, Did
  <2>3. \A k \in Has(d) : k <= Durable(d).cursor BY <2>1 DEF IInv, NothingAbove
  <2>4. i <= saved[d].cursor BY <2>1, <2>2, <2>3 DEF Has, Durable
  <2>5. saved[d].cursor \in Nat /\ i \in Nat
    BY <2>1, <2>2, PartsOf, StoreOf DEF RelayTypes, Stored, Ids
  <2> QED BY <2>2, <2>4, <2>5
<1> QED BY <1>1, Invariant, PTL

=============================================================================
