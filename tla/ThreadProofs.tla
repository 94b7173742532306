---------------------------- MODULE ThreadProofs ----------------------------
(***************************************************************************)
(* Thread for any number of messages, any size of a page and any number of *)
(* failures: a read tick is never ahead of the reader's store, and no tick *)
(* is taken back.                                                          *)
(***************************************************************************)
EXTENDS Thread, WellFoundedInduction, TLAPS

USE DEF relay, stores, pages, reading, sockets, vars

\* The limits one by one.
LEMMA Limits == MaxSeq \in Nat /\ MaxUpsets \in Nat /\ PageSize \in Nat /\ PageSize > 0
BY ThreadBounds

\* A bounded set of numbers has a greatest one.
LEMMA HasMax ==
  ASSUME NEW S \in SUBSET Nat, S # {}, NEW N \in Nat, \A n \in S : n <= N
  PROVE  Max(S) \in S
<1> DEFINE T == {N - n : n \in S}
<1>1. T \subseteq Nat /\ T # {} OBVIOUS
<1>2. PICK x \in T : \A y \in T : ~ (<<y, x>> \in OpToRel(<, Nat))
  <2> HIDE DEF T
  <2> QED BY <1>1, NatLessThanWellFounded, WFMin
<1>3. \A y \in T : ~ (y < x) BY <1>1, <1>2 DEF OpToRel
<1>4. PICK m \in S : x = N - m OBVIOUS
<1>5. \A n \in S : m >= n BY <1>3, <1>4
<1>6. \E k \in S : \A n \in S : k >= n BY <1>5
<1> QED BY <1>6 DEF Max

-----------------------------------------------------------------------------
(* Types                                                                    *)

\* The initial state: nothing is sent, and no page is open.
LEMMA InitInv == Init => TypeOK /\ IInv
<1> SUFFICES ASSUME Init PROVE TypeOK /\ IInv OBVIOUS
<1>1. TypeOK
  <2>1. 0 \in 0 .. MaxSeq /\ 0 \in 0 .. MaxUpsets BY Limits
  <2>2. NoRead \in Reads BY DEF NoRead, Reads
  <2>3. DOMAIN <<>> = {} /\ \A S : <<>> \in Seq(S) OBVIOUS
  <2> QED BY <2>1, <2>2, <2>3 DEF Init, TypeOK, NoTicks, Ticks, Entries, NoRead
<1>2. StoredIsPassed BY DEF StoredIsPassed, Init, Entries
<1>3. ToldIsPassed /\ ReadIsPassed BY DEF ToldIsPassed, ReadIsPassed, Init, NoTicks
<1> QED BY <1>1, <1>2, <1>3 DEF IInv

\* The stores keep what they have, and what comes is no higher than the cursor.
Grows ==
  /\ timeline' \in [Users -> Seq(Sent' \cup {Notice})] /\ cursor' \in [Users -> 0 .. MaxSeq]
  /\ \A u \in Users :
       /\ cursor[u] <= cursor'[u]
       /\ \A k \in Entries(u) : k \in Entries(u)' /\ timeline'[u][k] = timeline[u][k]
       /\ \A k \in Entries(u)' \ Entries(u) : timeline'[u][k] <= cursor'[u]

\* The transaction of a delivery or of an own message.
LEMMA TakeGrows ==
  ASSUME TypeOK, NEW u \in Users, NEW i \in Sent, Take(u, i), author' = author
  PROVE  Grows
<1> DEFINE X == Sent \cup {Notice}  m == Markers(u, i)  t == timeline[u] \o m \o <<i>>
<1>1. m \in {<<>>, <<Notice>>} BY DEF Markers
<1>2. Sent' = Sent /\ i \in 1 .. MaxSeq /\ i \in X /\ Notice \in X BY DEF Sent, Ids
<1>3. timeline[u] \in Seq(X) BY DEF TypeOK
<1>4. /\ t \in Seq(X) /\ DOMAIN timeline[u] \subseteq DOMAIN t
      /\ \A k \in DOMAIN timeline[u] : t[k] = timeline[u][k]
      /\ \A k \in DOMAIN t \ DOMAIN timeline[u] : t[k] \in {Notice, i}
  <2>1. timeline[u] \in Seq(X) /\ i \in X /\ Notice \in X BY <1>2, <1>3
  <2> HIDE DEF X, m
  <2>2. CASE m = <<>> BY <2>1, <2>2
  <2>3. CASE m = <<Notice>> BY <2>1, <2>3
  <2> QED BY <1>1, <2>2, <2>3
<1>5. timeline' = [timeline EXCEPT ![u] = t] BY DEF Take
<1>6. cursor' = [cursor EXCEPT ![u] = IF i > cursor[u] THEN i ELSE cursor[u]] BY DEF Take
<1>7. cursor' \in [Users -> 0 .. MaxSeq] BY <1>2, <1>6 DEF TypeOK
<1>8. cursor'[u] >= i /\ cursor'[u] >= 0 /\ \A v \in Users : cursor[v] <= cursor'[v]
  BY <1>2, <1>6, Limits DEF TypeOK
<1>9. timeline'[u] = t /\ \A v \in Users \ {u} : timeline'[v] = timeline[v]
  BY <1>5 DEF TypeOK
<1>10. timeline' \in [Users -> Seq(X)]
  <2> HIDE DEF t, X
  <2> QED BY <1>4, <1>5 DEF TypeOK, X
<1>11. ASSUME NEW v \in Users
       PROVE  /\ \A k \in Entries(v) : k \in Entries(v)' /\ timeline'[v][k] = timeline[v][k]
              /\ \A k \in Entries(v)' \ Entries(v) : timeline'[v][k] <= cursor'[v]
  <2>1. CASE v = u
    <3> HIDE DEF t
    <3> QED BY <1>2, <1>4, <1>8, <1>9, <2>1 DEF Entries, Notice
  <2>2. CASE v # u BY <1>9, <2>2 DEF Entries
  <2> QED BY <2>1, <2>2
<1> QED BY <1>2, <1>7, <1>8, <1>10, <1>11 DEF Grows

\* A notice that is appended.
LEMMA MarkGrows == ASSUME TypeOK, NEW u \in Users, MarkDormancy(u) PROVE Grows
<1> DEFINE X == Sent \cup {Notice}  t == Append(timeline[u], Notice)
<1>1. timeline[u] \in Seq(X) /\ Notice \in X BY DEF TypeOK
<1>2. /\ t \in Seq(X) /\ DOMAIN timeline[u] \subseteq DOMAIN t
      /\ \A k \in DOMAIN timeline[u] : t[k] = timeline[u][k]
      /\ \A k \in DOMAIN t \ DOMAIN timeline[u] : t[k] = Notice
  <2> HIDE DEF X
  <2> QED BY <1>1
<1>3. timeline' = [timeline EXCEPT ![u] = t] /\ UNCHANGED <<author, cursor>>
  BY DEF MarkDormancy
<1>4. Sent' = Sent BY <1>3 DEF Sent
<1>5. timeline'[u] = t /\ \A v \in Users \ {u} : timeline'[v] = timeline[v]
  BY <1>3 DEF TypeOK
<1>6. timeline' \in [Users -> Seq(X)]
  <2> HIDE DEF t, X
  <2> QED BY <1>2, <1>3 DEF TypeOK, X
<1>7. \A v \in Users : cursor'[v] = cursor[v] /\ cursor[v] \in Nat BY <1>3, Limits DEF TypeOK
<1>8. ASSUME NEW v \in Users
      PROVE  /\ \A k \in Entries(v) : k \in Entries(v)' /\ timeline'[v][k] = timeline[v][k]
             /\ \A k \in Entries(v)' \ Entries(v) : timeline'[v][k] <= cursor'[v]
  <2>1. CASE v = u
    <3> HIDE DEF t
    <3> QED BY <1>2, <1>5, <1>7, <2>1 DEF Entries, Notice
  <2>2. CASE v # u BY <1>5, <2>2 DEF Entries
  <2> QED BY <2>1, <2>2
<1>9. timeline' \in [Users -> Seq(Sent' \cup {Notice})] BY <1>4, <1>6
<1>10. cursor' \in [Users -> 0 .. MaxSeq] /\ \A v \in Users : cursor[v] <= cursor'[v]
  BY <1>3, <1>7, Limits DEF TypeOK
<1> QED BY <1>8, <1>9, <1>10 DEF Grows

\* What has been read of a store that grows is still there.
LEMMA TypeGrows ==
  ASSUME TypeOK, Grows, UNCHANGED <<author, open, loaded, polled, reading, tick, held, connected>>,
         way' \in [Users -> SUBSET Sent], events' \subseteq [kind : {"ack", "read"}, n : Ids],
         upsets' \in 0 .. MaxUpsets
  PROVE  TypeOK'
<1>1. Sent' = Sent BY DEF Sent
<1>2. \A u \in Users : Entries(u) \subseteq Entries(u)' BY DEF Grows
<1>3. Reader \in Users BY DEF Users
<1>4. /\ \A u \in Users : loaded'[u] \cup polled'[u].entries \subseteq Entries(u)'
      /\ older'.entries \subseteq Entries(Reader)'
  BY <1>2, <1>3 DEF TypeOK
<1>5. /\ timeline' \in [Users -> Seq(Sent' \cup {Notice})] /\ cursor' \in [Users -> 0 .. MaxSeq]
  BY DEF Grows
<1>6. way' \in [Users -> SUBSET Sent'] BY <1>1
<1> QED BY <1>4, <1>5, <1>6 DEF TypeOK

\* One more step of an instance's bound.
LEMMA UpsetType == TypeOK /\ Upset => upsets' \in 0 .. MaxUpsets
BY Limits DEF TypeOK, Upset

\* What happens to a store is not seen by the pages.
LEMMA TypeStores ==
  ASSUME TypeOK, NEW u \in Users, Store(u) \/ MarkDormancy(u)
  PROVE  TypeOK' /\ Grows
<1>1. ASSUME NEW i \in way[u], StoreOwn(u, i) PROVE TypeOK' /\ Grows
  <2>1. i \in Sent BY DEF TypeOK
  <2>2. Grows BY <1>1, <2>1, TakeGrows DEF StoreOwn
  <2>3. way' \in [Users -> SUBSET Sent] BY <1>1 DEF StoreOwn, TypeOK
  <2> QED BY <1>1, <2>2, <2>3, TypeGrows DEF StoreOwn, TypeOK
<1>2. ASSUME NEW i \in way[u], StoreIncoming(u, i) PROVE TypeOK' /\ Grows
  <2>1. i \in Sent /\ i \in Ids BY DEF TypeOK, Sent
  <2>2. Grows
    <3>1. CASE i <= cursor[u]
      <4>1. UNCHANGED <<author, cursor, timeline>> BY <1>2, <3>1 DEF StoreIncoming
      <4>2. \A v \in Users : cursor[v] <= cursor[v] BY Limits DEF TypeOK
      <4> QED BY <4>1, <4>2 DEF Grows, TypeOK, Sent, Entries
    <3>2. CASE ~(i <= cursor[u]) BY <1>2, <2>1, <3>2, TakeGrows DEF StoreIncoming
    <3> QED BY <3>1, <3>2
  <2>3. way' \in [Users -> SUBSET Sent] BY <1>2 DEF StoreIncoming, TypeOK
  <2>4. events' \subseteq [kind : {"ack", "read"}, n : Ids]
    BY <1>2, <2>1 DEF StoreIncoming, TypeOK, Ack
  <2> QED BY <1>2, <2>2, <2>3, <2>4, TypeGrows DEF StoreIncoming, TypeOK
<1>3. ASSUME MarkDormancy(u) PROVE TypeOK' /\ Grows
  BY <1>3, MarkGrows, TypeGrows, UpsetType DEF MarkDormancy, TypeOK
<1> QED BY <1>1, <1>2, <1>3 DEF Store

\* What is loaded of the reader's timeline has an entry with the greatest id, and what is
\* told is its number.
LEMMA NewestLoaded ==
  ASSUME TypeOK, NEW entries \in SUBSET Entries(Reader), entries # {}
  PROVE  Max(entries) \in Entries(Reader) /\ SeqOf(Max(entries)) \in 0 .. MaxSeq
<1>1. Reader \in Users BY DEF Users
<1>2. timeline[Reader] \in Seq(Sent \cup {Notice}) BY <1>1 DEF TypeOK
<1>3. Len(timeline[Reader]) \in Nat /\ Entries(Reader) = 1 .. Len(timeline[Reader])
  BY <1>2 DEF Entries
<1>4. Max(entries) \in entries
  <2> DEFINE N == Len(timeline[Reader])
  <2>1. N \in Nat /\ entries \in SUBSET Nat /\ \A n \in entries : n <= N BY <1>3
  <2> HIDE DEF N
  <2> QED BY <2>1, HasMax
<1>5. timeline[Reader][Max(entries)] \in Sent \cup {Notice} BY <1>2, <1>4 DEF Entries
<1> QED BY <1>4, <1>5, Limits DEF SeqOf, Sent, Ids, Notice

\* The watermark is the number of a message.
LEMMA TellType ==
  ASSUME TypeOK, NEW seq \in 0 .. MaxSeq, Tell(seq)
  PROVE  /\ through' \in 0 .. MaxSeq /\ held' \subseteq Ids
         /\ events' \subseteq [kind : {"ack", "read"}, n : Ids]
<1>1. CASE seq <= through BY <1>1 DEF Tell, TypeOK
<1>2. CASE ~(seq <= through)
  <2>1. seq \in Ids BY <1>2, Limits DEF TypeOK, Ids
  <2>2. ReadTo(seq) \in [kind : {"ack", "read"}, n : Ids] BY <2>1 DEF ReadTo
  <2>3. through' \in 0 .. MaxSeq BY <1>2 DEF Tell
  <2>4. held' = held \cup {seq} \/ held' = held BY <1>2 DEF Tell
  <2>5. events' = events \cup {ReadTo(seq)} \/ events' = events BY <1>2 DEF Tell
  <2> QED BY <2>1, <2>2, <2>3, <2>4, <2>5 DEF TypeOK
<1> QED BY <1>1, <1>2

\* The pages read only what is stored.
LEMMA TypePages ==
  ASSUME TypeOK, NEW u \in Users, Open(u) \/ Leave(u) \/ Poll(u) \/ Polled(u)
  PROVE  TypeOK'
<1>1. CASE Open(u) BY <1>1 DEF Open, TypeOK, Sent, Entries
<1>2. CASE Leave(u)
  <2>1. upsets' \in 0 .. MaxUpsets BY <1>2, UpsetType DEF Leave
  <2>2. 0 \in 0 .. MaxSeq BY Limits
  <2>3. NoRead \in Reads /\ NoRead.entries = {} BY DEF NoRead, Reads
  <2>4. UNCHANGED <<author, way, cursor, timeline, events, held, connected>> BY <1>2 DEF Leave
  <2>5. /\ loaded' \in [Users -> SUBSET Nat] /\ polled' \in [Users -> Reads]
        /\ \A v \in Users : loaded'[v] \cup polled'[v].entries \subseteq Entries(v)
    BY <1>2, <2>3 DEF Leave, TypeOK
  <2>6. /\ older' \in Reads /\ older'.entries \subseteq Entries(Reader)
        /\ more' \in BOOLEAN /\ burst' \in BOOLEAN /\ through' \in 0 .. MaxSeq
    BY <1>2, <2>2, <2>3 DEF Leave, TypeOK
  <2>7. tick' \in [Ids -> Ticks] BY <1>2 DEF Leave, TypeOK, NoTicks, Ticks
  <2>8. open' \subseteq Users BY <1>2 DEF Leave, TypeOK
  <2> QED BY <2>1, <2>4, <2>5, <2>6, <2>7, <2>8 DEF TypeOK, Sent, Entries
<1>3. CASE Poll(u)
  <2> DEFINE list == ListTimeline(u, Len(timeline[u]) + 1)
  <2>1. timeline[u] \in Seq(Sent \cup {Notice}) BY DEF TypeOK
  <2>2. list \subseteq Entries(u) /\ Entries(u) \subseteq Nat
    BY <2>1 DEF ListTimeline, Entries
  <2>3. Read(u, list) \in Reads /\ Read(u, list).entries = list BY <2>2 DEF Read, Reads
  <2> HIDE DEF list
  <2>4. polled' = [polled EXCEPT ![u] = Read(u, list)] BY <1>3 DEF Poll, list
  <2>5. /\ polled' \in [Users -> Reads]
        /\ \A v \in Users : loaded[v] \cup polled'[v].entries \subseteq Entries(v)
    BY <2>2, <2>3, <2>4 DEF TypeOK
  <2>6. burst' \in BOOLEAN BY <1>3 DEF Poll, TypeOK
  <2> QED BY <1>3, <2>5, <2>6 DEF Poll, TypeOK, Sent, Entries
<1>4. CASE Polled(u)
  <2> DEFINE entries == loaded[u] \cup polled[u].entries
  <2>1. entries \subseteq Entries(u) /\ entries \in SUBSET Nat
    BY DEF TypeOK, Reads
  <2>2. NoRead \in Reads /\ NoRead.entries = {} BY DEF NoRead, Reads
  <2> HIDE DEF entries
  <2>3. loaded' = [loaded EXCEPT ![u] = entries] /\ polled' = [polled EXCEPT ![u] = NoRead]
    BY <1>4 DEF Polled, entries
  <2>4. /\ loaded' \in [Users -> SUBSET Nat] /\ polled' \in [Users -> Reads]
        /\ \A v \in Users : loaded'[v] \cup polled'[v].entries \subseteq Entries(v)
    BY <2>1, <2>2, <2>3 DEF TypeOK
  <2>5. /\ through' \in 0 .. MaxSeq /\ held' \subseteq Ids
        /\ events' \subseteq [kind : {"ack", "read"}, n : Ids]
    <3>1. CASE u = Reader /\ entries # {}
      <4>1. SeqOf(Max(entries)) \in 0 .. MaxSeq BY <2>1, <3>1, NewestLoaded
      <4>2. Tell(SeqOf(Max(entries))) BY <1>4, <3>1 DEF Polled, entries
      <4> QED BY <4>1, <4>2, TellType
    <3>2. CASE ~(u = Reader /\ entries # {})
      BY <1>4, <3>2 DEF Polled, entries, TypeOK
    <3> QED BY <3>1, <3>2
  <2> QED BY <1>4, <2>4, <2>5 DEF Polled, TypeOK, Sent, Entries
<1> QED BY <1>1, <1>2, <1>3, <1>4

\* The same of "load older".
LEMMA TypeOlder == ASSUME TypeOK, LoadOlder \/ OlderLoaded PROVE TypeOK'
<1>1. Reader \in Users BY DEF Users
<1>2. CASE LoadOlder
  <2> DEFINE list == ListTimeline(Reader, Min(loaded[Reader]))
  <2>1. timeline[Reader] \in Seq(Sent \cup {Notice}) BY <1>1 DEF TypeOK
  <2>2. list \subseteq Entries(Reader) /\ Entries(Reader) \subseteq Nat
    BY <2>1 DEF ListTimeline, Entries
  <2>3. Read(Reader, list) \in Reads /\ Read(Reader, list).entries = list
    BY <1>1, <2>2 DEF Read, Reads
  <2> HIDE DEF list
  <2>4. older' = Read(Reader, list) BY <1>2 DEF LoadOlder, list
  <2> QED BY <1>2, <2>2, <2>3, <2>4 DEF LoadOlder, TypeOK, Sent, Entries
<1>3. CASE OlderLoaded
  <2>1. NoRead \in Reads /\ NoRead.entries = {} BY DEF NoRead, Reads
  <2>2. older.entries \subseteq Entries(Reader) /\ older.entries \in SUBSET Nat
    BY DEF TypeOK, Reads
  <2>3. /\ loaded' \in [Users -> SUBSET Nat]
        /\ \A v \in Users : loaded'[v] \cup polled[v].entries \subseteq Entries(v)
    BY <1>1, <1>3, <2>2 DEF OlderLoaded, TypeOK
  <2>4. more' \in BOOLEAN BY <1>3 DEF OlderLoaded, TypeOK
  <2> QED BY <1>3, <2>1, <2>3, <2>4 DEF OlderLoaded, TypeOK, Sent, Entries
<1> QED BY <1>2, <1>3

\* A message, and what becomes of an event.
LEMMA TypeEvents ==
  ASSUME TypeOK,
         \/ \E u \in Users : Send(u) \/ Disconnect(u) \/ Reconnect(u)
         \/ \E e \in events : Arrive(e) \/ Lose(e)
  PROVE  TypeOK'
<1>1. ASSUME NEW u \in Users, Send(u) PROVE TypeOK'
  <2> DEFINE i == Cardinality(Sent) + 1
  <2>1. i \in Ids /\ author' = [author EXCEPT ![i] = u] BY <1>1 DEF Send
  <2>2. u # NoUser BY TwoUsers DEF Users
  <2> HIDE DEF i
  <2>3. author' \in [Ids -> Users \cup {NoUser}] BY <2>1 DEF TypeOK
  <2>4. Sent \subseteq Sent' /\ i \in Sent' BY <2>1, <2>2 DEF TypeOK, Sent
  <2>5. way' = [v \in Users |-> way[v] \cup {i}] BY <1>1 DEF Send, i
  <2>6. way' \in [Users -> SUBSET Sent'] BY <2>4, <2>5 DEF TypeOK
  <2>7. \A s \in Seq(Sent \cup {Notice}) : s \in Seq(Sent' \cup {Notice}) BY <2>4
  <2>8. timeline' \in [Users -> Seq(Sent' \cup {Notice})] BY <1>1, <2>7 DEF Send, TypeOK
  <2> QED BY <1>1, <2>3, <2>6, <2>8 DEF Send, TypeOK, Entries
<1>2. ASSUME NEW u \in Users, Disconnect(u) PROVE TypeOK'
  BY <1>2, UpsetType DEF Disconnect, TypeOK, Sent, Entries
<1>3. ASSUME NEW u \in Users, Reconnect(u) PROVE TypeOK'
  <2>1. {ReadTo(n) : n \in held} \subseteq [kind : {"ack", "read"}, n : Ids]
    BY DEF TypeOK, ReadTo
  <2>2. events' \subseteq [kind : {"ack", "read"}, n : Ids] /\ held' \subseteq Ids
    BY <1>3, <2>1 DEF Reconnect, TypeOK
  <2> QED BY <1>3, <2>2 DEF Reconnect, TypeOK, Sent, Entries
<1>4. ASSUME NEW e \in events, Arrive(e) PROVE TypeOK'
  <2>1. e.n \in Ids BY DEF TypeOK
  <2>2. tick' \in [Ids -> Ticks]
    BY <1>4, <2>1 DEF Arrive, ReadThrough, Delivered, TypeOK, Ticks
  <2> QED BY <1>4, <2>2 DEF Arrive, TypeOK, Sent, Entries
<1>5. ASSUME NEW e \in events, Lose(e) PROVE TypeOK'
  BY <1>5, UpsetType DEF Lose, TypeOK, Sent, Entries
<1> QED BY <1>1, <1>2, <1>3, <1>4, <1>5

\* Every step keeps the types.
LEMMA TypeStep == TypeOK /\ [Next]_vars => TypeOK'
<1> SUFFICES ASSUME TypeOK, [Next]_vars PROVE TypeOK' OBVIOUS
<1>1. CASE UNCHANGED vars BY <1>1 DEF TypeOK, Sent, Entries
<1>2. CASE Next
  BY <1>2, TypeStores, TypePages, TypeOlder, TypeEvents DEF Next, Fail
<1> QED BY <1>1, <1>2

-----------------------------------------------------------------------------
(* The invariant                                                            *)

\* What the pages set leaves the stores and the ticks alone.
LEMMA InvStores ==
  ASSUME TypeOK, IInv, NEW u \in Users, Store(u) \/ MarkDormancy(u)
  PROVE  IInv'
<1>1. Grows /\ Reader \in Users BY TypeStores DEF Users
<1>2. cursor[Reader] <= cursor'[Reader] /\ cursor[Reader] \in Nat /\ cursor'[Reader] \in Nat
  BY <1>1, Limits DEF Grows, TypeOK
<1>3. StoredIsPassed'
  <2> SUFFICES ASSUME NEW v \in Users, NEW n \in Entries(v)' PROVE timeline'[v][n] <= cursor'[v]
    BY DEF StoredIsPassed
  <2>1. CASE n \in Entries(v)
    <3>1. timeline'[v][n] = timeline[v][n] /\ timeline[v][n] <= cursor[v]
      BY <1>1, <2>1 DEF Grows, IInv, StoredIsPassed
    <3>2. timeline[v][n] \in Sent \cup {Notice} BY <2>1 DEF TypeOK, Entries
    <3>3. timeline[v][n] \in Nat /\ cursor[v] \in Nat /\ cursor'[v] \in Nat
      BY <1>1, <3>2, Limits DEF TypeOK, Grows, Sent, Ids, Notice
    <3> QED BY <1>1, <3>1, <3>3 DEF Grows
  <2>2. CASE n \notin Entries(v) BY <1>1, <2>2 DEF Grows
  <2> QED BY <2>1, <2>2
<1>4. /\ UNCHANGED <<tick, held>>
      /\ \A e \in events' : e.kind = "read" => e \in events
  BY DEF Store, StoreOwn, StoreIncoming, MarkDormancy, Ack
<1>5. ToldIsPassed'
  <2>1. \A n \in held : n \in Nat /\ n <= cursor[Reader]
    BY DEF TypeOK, Ids, IInv, ToldIsPassed
  <2>2. \A e \in events : e.n \in Nat /\ (e.kind = "read" => e.n <= cursor[Reader])
    BY DEF TypeOK, Ids, IInv, ToldIsPassed
  <2>3. \A n \in held' : n <= cursor'[Reader] BY <1>2, <1>4, <2>1
  <2>4. \A e \in events' : e.kind = "read" => e.n <= cursor'[Reader] BY <1>2, <1>4, <2>2
  <2> QED BY <2>3, <2>4 DEF ToldIsPassed
<1>6. ReadIsPassed'
  BY <1>2, <1>4 DEF IInv, ReadIsPassed, Ids
<1> QED BY <1>3, <1>5, <1>6 DEF IInv

\* The watermark that a poll tells is the number of what is stored.
LEMMA InvPolled == ASSUME TypeOK, IInv, NEW u \in Users, Polled(u) PROVE IInv'
<1> DEFINE entries == loaded[u] \cup polled[u].entries
<1>1. UNCHANGED <<cursor, timeline, tick>> BY DEF Polled
<1>2. StoredIsPassed' /\ ReadIsPassed'
  BY <1>1 DEF IInv, StoredIsPassed, ReadIsPassed, Entries
<1>3. CASE u = Reader /\ entries # {}
  <2> DEFINE seq == SeqOf(Max(entries))
  <2>1. entries \in SUBSET Entries(Reader) /\ Reader \in Users BY <1>3 DEF TypeOK
  <2>2. Max(entries) \in Entries(Reader)
    <3> HIDE DEF entries
    <3> QED BY <1>3, <2>1, NewestLoaded
  <2>3. seq <= cursor[Reader] BY <2>1, <2>2 DEF IInv, StoredIsPassed, SeqOf
  <2>4. Tell(seq) BY <1>3 DEF Polled
  <2> HIDE DEF seq
  <2>5. held' \subseteq held \cup {seq} /\ events' \subseteq events \cup {ReadTo(seq)}
    BY <2>4 DEF Tell
  <2>6. ReadTo(seq).n = seq BY DEF ReadTo
  <2>7. ToldIsPassed' BY <1>1, <2>3, <2>5, <2>6 DEF IInv, ToldIsPassed
  <2> QED BY <1>2, <2>7 DEF IInv
<1>4. CASE ~(u = Reader /\ entries # {})
  <2>1. UNCHANGED <<events, held>> BY <1>4 DEF Polled
  <2> QED BY <1>1, <1>2, <2>1 DEF IInv, ToldIsPassed
<1> QED BY <1>3, <1>4

\* A watermark that arrives sets the ticks up to it.
LEMMA InvArrive == ASSUME TypeOK, IInv, NEW e \in events, Arrive(e) PROVE IInv'
<1>1. UNCHANGED <<cursor, timeline, held>> /\ events' \subseteq events BY DEF Arrive
<1>2. StoredIsPassed' /\ ToldIsPassed'
  BY <1>1 DEF IInv, StoredIsPassed, ToldIsPassed, Entries
<1>3. /\ Reader \in Users /\ cursor[Reader] \in Nat /\ e.n \in Ids
      /\ e.kind = "read" => e.n <= cursor[Reader]
  BY Limits DEF Users, TypeOK, IInv, ToldIsPassed
<1>4. ASSUME NEW i \in Ids, tick'[i] = "read" PROVE i <= cursor[Reader]
  <2>1. tick[i] = "read" \/ (e.kind = "read" /\ i <= e.n)
    BY <1>4 DEF Arrive, ReadThrough, Delivered, TypeOK
  <2> QED BY <1>3, <2>1 DEF IInv, ReadIsPassed, Ids
<1>5. ReadIsPassed' BY <1>1, <1>4 DEF ReadIsPassed
<1> QED BY <1>2, <1>5 DEF IInv

\* Every step keeps the invariant.
LEMMA InvStep == TypeOK /\ IInv /\ [Next]_vars => IInv'
<1> SUFFICES ASSUME TypeOK, IInv, [Next]_vars PROVE IInv' OBVIOUS
<1> USE DEF IInv
<1>1. ASSUME UNCHANGED <<cursor, timeline, tick, held>>, events' \subseteq events PROVE IInv'
  BY <1>1 DEF StoredIsPassed, ToldIsPassed, ReadIsPassed, Entries
<1>2. ASSUME NEW u \in Users, Send(u) \/ Open(u) \/ Poll(u) \/ Disconnect(u) PROVE IInv'
  BY <1>1, <1>2 DEF Send, Open, Poll, Disconnect
<1>3. ASSUME NEW u \in Users, Store(u) \/ MarkDormancy(u) PROVE IInv' BY <1>3, InvStores
<1>4. ASSUME NEW u \in Users, Polled(u) PROVE IInv' BY <1>4, InvPolled
<1>5. ASSUME NEW u \in Users, Leave(u) PROVE IInv'
  <2>1. UNCHANGED <<cursor, timeline, events, held>> /\ (tick' = tick \/ tick' = NoTicks)
    BY <1>5 DEF Leave
  <2> QED BY <2>1 DEF StoredIsPassed, ToldIsPassed, ReadIsPassed, Entries, NoTicks
<1>6. ASSUME NEW u \in Users, Reconnect(u) PROVE IInv'
  <2>1. UNCHANGED <<cursor, timeline, tick>> /\ held' \subseteq held
        /\ events' \subseteq events \cup {ReadTo(n) : n \in held}
    BY <1>6 DEF Reconnect
  <2>2. \A n \in held : ReadTo(n).n <= cursor[Reader] BY DEF ReadTo, ToldIsPassed
  <2> QED BY <2>1, <2>2 DEF StoredIsPassed, ToldIsPassed, ReadIsPassed, Entries
<1>7. ASSUME NEW e \in events, Arrive(e) PROVE IInv' BY <1>7, InvArrive
<1>8. CASE LoadOlder \/ OlderLoaded \/ \E e \in events : Lose(e)
  BY <1>1, <1>8 DEF LoadOlder, OlderLoaded, Lose
<1>9. CASE UNCHANGED vars BY <1>1, <1>9
<1> QED BY <1>2, <1>3, <1>4, <1>5, <1>6, <1>7, <1>8, <1>9 DEF Next, Fail

\* A tick changes only where an event arrives, and there it rises.
LEMMA TickStep ==
  ASSUME TypeOK, [Next]_vars, Writer \in open, Writer \in open', NEW i \in Ids
  PROVE  Rank(tick[i]) <= Rank(tick'[i])
<1>1. tick[i] \in {"sent", "delivered", "read"} BY DEF TypeOK, Ticks
<1>2. tick'[i] = tick[i] \/ tick'[i] = "read" \/ (tick[i] # "read" /\ tick'[i] = "delivered")
  <2>1. CASE UNCHANGED tick BY <2>1
  <2>2. ASSUME NEW e \in events, Arrive(e)
        PROVE  \/ tick'[i] = tick[i] \/ tick'[i] = "read"
               \/ tick[i] # "read" /\ tick'[i] = "delivered"
    BY <2>2 DEF Arrive, ReadThrough, Delivered, TypeOK
  <2>3. ASSUME NEW u \in Users, Leave(u) PROVE UNCHANGED tick
    BY <2>3, TwoUsers DEF Leave
  <2> QED BY <2>1, <2>2, <2>3
       DEF Next, Send, Store, StoreOwn, StoreIncoming, Open, Poll, Polled, Fail, MarkDormancy,
           Disconnect, Reconnect, LoadOlder, OlderLoaded, Lose
<1> QED BY <1>1, <1>2 DEF Rank

-----------------------------------------------------------------------------
(* The page                                                                 *)

\* A set of numbers has a least one.
LEMMA HasMin ==
  ASSUME NEW S \in SUBSET Nat, S # {}
  PROVE  Min(S) \in S /\ \A n \in S : Min(S) <= n
<1>1. PICK x \in S : \A y \in S : ~ (<<y, x>> \in OpToRel(<, Nat))
  BY NatLessThanWellFounded, WFMin
<1>2. \A y \in S : ~ (y < x) BY <1>1 DEF OpToRel
<1>3. \A n \in S : x <= n BY <1>2
<1>4. \E k \in S : \A n \in S : k <= n BY <1>3
<1> QED BY <1>4 DEF Min

\* And a bounded one a greatest, as the reads assume.
LEMMA MaxBounds ==
  ASSUME NEW S \in SUBSET Nat, S # {}, NEW N \in Nat, \A n \in S : n <= N
  PROVE  Max(S) \in S /\ \A n \in S : n <= Max(S)
<1>1. Max(S) \in S BY HasMax
<1>2. \E k \in S : \A n \in S : k >= n
  <2> DEFINE T == {N - n : n \in S}
  <2>1. T \in SUBSET Nat /\ T # {}
    <3>1. \A n \in S : n \in Nat /\ N - n \in Nat OBVIOUS
    <3> QED BY <3>1
  <2>2. Min(T) \in T /\ \A t \in T : Min(T) <= t
    <3> HIDE DEF T
    <3> QED BY <2>1, HasMin
  <2>3. PICK k \in S : Min(T) = N - k BY <2>2
  <2>4. \A n \in S : N - k <= N - n BY <2>2, <2>3
  <2> QED BY <2>4
<1>3. \A n \in S : Max(S) >= n BY <1>2 DEF Max
<1> QED BY <1>1, <1>3

\* Two sets without a hole that share what is between them have none together.
LEMMA GaplessUnion ==
  ASSUME NEW L \in SUBSET Nat, NEW P \in SUBSET Nat, NEW O \in SUBSET Nat,
         L # {}, Gapless(L \cup P), Gapless(L \cup O)
  PROVE  Gapless((L \cup P) \cup O)
<1> SUFFICES ASSUME NEW a \in (L \cup P) \cup O, NEW b \in (L \cup P) \cup O, NEW c \in a .. b
             PROVE  c \in (L \cup P) \cup O
  BY DEF Gapless
<1>1. PICK l \in L : TRUE OBVIOUS
<1>2. a \in Nat /\ b \in Nat /\ l \in Nat /\ c \in Nat OBVIOUS
<1>3. \A x, y \in L \cup P : c \in x .. y => c \in L \cup P BY DEF Gapless
<1>4. \A x, y \in L \cup O : c \in x .. y => c \in L \cup O BY DEF Gapless
<1>5. CASE c <= l
  <2>1. c \in a .. l BY <1>2, <1>5
  <2> QED BY <1>1, <1>3, <1>4, <2>1
<1>6. CASE l <= c
  <2>1. c \in l .. b BY <1>2, <1>6
  <2> QED BY <1>1, <1>3, <1>4, <2>1
<1> QED BY <1>2, <1>5, <1>6

\* The ids of the reader's timeline, and what a read before an id has of them.
LEMMA ListIs ==
  ASSUME TypeOK
  PROVE  /\ Len(timeline[Reader]) \in Nat
         /\ Entries(Reader) = 1 .. Len(timeline[Reader])
         /\ \A b : ListTimeline(Reader, b) =
                {n \in 1 .. Len(timeline[Reader]) : n < b /\ n + PageSize >= b}
<1>1. Reader \in Users BY DEF Users
<1>2. timeline[Reader] \in Seq(Sent \cup {Notice}) BY <1>1 DEF TypeOK
<1>3. Len(timeline[Reader]) \in Nat /\ DOMAIN timeline[Reader] = 1 .. Len(timeline[Reader])
  BY <1>2
<1> QED BY <1>3 DEF Entries, ListTimeline

\* A poll that finds at most a page of new entries leaves no hole.
LEMMA PageOfPoll ==
  ASSUME TypeOK, NEW L \in SUBSET Entries(Reader), Gapless(L),
         L = {} \/ ~ (Max(L) + PageSize < Len(timeline[Reader]))
  PROVE  Gapless(L \cup ListTimeline(Reader, Len(timeline[Reader]) + 1))
<1> DEFINE N == Len(timeline[Reader])
           P == {n \in 1 .. N : n < N + 1 /\ n + PageSize >= N + 1}
<1>1. N \in Nat /\ L \in SUBSET (1 .. N) /\ ListTimeline(Reader, N + 1) = P BY ListIs
<1> HIDE DEF N
<1> SUFFICES ASSUME NEW a \in L \cup P, NEW b \in L \cup P, NEW c \in a .. b PROVE c \in L \cup P
  BY <1>1 DEF Gapless, N
<1>2. a \in 1 .. N /\ b \in 1 .. N /\ c \in 1 .. N /\ a <= c /\ c <= b BY <1>1
<1>3. CASE c + PageSize >= N + 1 BY <1>1, <1>2, <1>3
<1>4. CASE ~ (c + PageSize >= N + 1)
  <2>1. a \in L BY <1>1, <1>2, <1>4, Limits
  <2>2. Max(L) \in L /\ \A n \in L : n <= Max(L)
    <3>1. L \in SUBSET Nat /\ \A n \in L : n <= N BY <1>1
    <3> QED BY <1>1, <2>1, <3>1, MaxBounds
  <2>3. c <= Max(L)
    <3>1. ~ (Max(L) + PageSize < N) BY <2>1 DEF N
    <3>2. Max(L) \in Nat
      <4>1. L \subseteq Nat BY <1>1
      <4> QED BY <2>2, <4>1, Zenon
    <3> QED BY <1>1, <1>2, <1>4, <3>1, <3>2, Limits
  <2>4. c \in a .. Max(L) BY <1>1, <1>2, <2>2, <2>3
  <2> QED BY <2>1, <2>2, <2>4 DEF Gapless
<1> QED BY <1>3, <1>4

\* What comes before the oldest loaded entry leaves no hole, and is empty only for the first.
LEMMA PageOfOlder ==
  ASSUME TypeOK, NEW L \in SUBSET Entries(Reader), L # {}
  PROVE  /\ Gapless(L) => Gapless(L \cup ListTimeline(Reader, Min(L)))
         /\ ListTimeline(Reader, Min(L)) = {} => 1 \in L
<1> DEFINE N == Len(timeline[Reader])  m == Min(L)
           P == {n \in 1 .. N : n < m /\ n + PageSize >= m}
<1>1. N \in Nat /\ L \in SUBSET (1 .. N) /\ ListTimeline(Reader, m) = P BY ListIs
<1>2. m \in L /\ \A n \in L : m <= n
  <2>1. L \in SUBSET Nat BY <1>1
  <2> QED BY <2>1, HasMin
<1> HIDE DEF N, m
<1>3. m \in 1 .. N /\ m \in Nat /\ PageSize \in Nat BY <1>1, <1>2, Limits
<1>4. ASSUME Gapless(L), NEW a \in L \cup P, NEW b \in L \cup P, NEW c \in a .. b
      PROVE  c \in L \cup P
  <2>1. a \in 1 .. N /\ b \in 1 .. N /\ c \in 1 .. N /\ a <= c /\ c <= b BY <1>1, <1>4
  <2>2. CASE c >= m
    <3>1. b \in L /\ c \in m .. b BY <1>1, <1>3, <1>4, <2>1, <2>2
    <3> QED BY <1>2, <1>4, <3>1 DEF Gapless
  <2>3. CASE ~ (c >= m)
    <3>1. a < m BY <1>3, <2>1, <2>3
    <3>2. a \in P BY <1>2, <1>3, <1>4, <2>1, <3>1
    <3> QED BY <1>3, <2>1, <2>3, <3>2
  <2> QED BY <2>2, <2>3
<1>5. ASSUME P = {} PROVE 1 \in L
  <2>1. CASE m = 1 BY <1>2, <2>1
  <2>2. CASE m # 1
    <3>1. m - 1 \in P BY <1>1, <1>3, <2>2, Limits
    <3> QED BY <1>5, <3>1
  <2> QED BY <2>1, <2>2
<1>6. Gapless(L) => Gapless(L \cup P) BY <1>4 DEF Gapless
<1> QED BY <1>1, <1>5, <1>6 DEF m

\* Every step keeps the page whole, until a burst is noted.
LEMMA PageStep == ASSUME TypeOK, PageInv, [Next]_vars PROVE PageInv'
<1> DEFINE L == loaded[Reader]  P == polled[Reader].entries  O == older.entries
<1>1. /\ Reader \in Users /\ L \subseteq Entries(Reader) /\ P \subseteq Entries(Reader)
      /\ O \subseteq Entries(Reader) /\ Entries(Reader) \subseteq Nat
  BY ListIs DEF TypeOK, Users
<1>2. NoRead.entries = {} /\ \A u \in Users : \A S : Read(u, S).entries = S /\ Read(u, S) # NoRead
  BY TwoUsers DEF NoRead, Read, Users
<1>3. ASSUME UNCHANGED <<loaded, polled, older, more, burst>> PROVE PageInv'
  BY <1>3 DEF PageInv, NoRead, Gapless
<1>4. ASSUME NEW u \in Users, Leave(u) PROVE PageInv'
  <2>1. CASE u = Reader
    <3>1. /\ loaded'[Reader] = {} /\ polled'[Reader] = NoRead
          /\ older' = NoRead /\ more' = TRUE /\ burst' = FALSE
      BY <1>1, <1>4, <2>1 DEF Leave, TypeOK
    <3> QED BY <1>2, <3>1 DEF PageInv, Gapless, NoRead
  <2>2. CASE u # Reader
    <3>1. /\ loaded'[Reader] = loaded[Reader] /\ polled'[Reader] = polled[Reader]
          /\ UNCHANGED <<older, more, burst>>
      BY <1>1, <1>4, <2>2 DEF Leave, TypeOK
    <3> QED BY <3>1 DEF PageInv, NoRead, Gapless
  <2> QED BY <2>1, <2>2
<1>5. ASSUME NEW u \in Users, Poll(u) PROVE PageInv'
  <2>1. UNCHANGED <<loaded, older, more>> BY <1>5 DEF Poll
  <2>2. CASE u = Reader
    <3> DEFINE list == ListTimeline(Reader, Len(timeline[Reader]) + 1)
    <3>1. polled'[Reader] = Read(Reader, list) BY <1>1, <1>5, <2>2 DEF Poll, TypeOK
    <3>2. ~burst' => ~burst /\ (L = {} \/ ~ (Max(L) + PageSize < Len(timeline[Reader])))
      BY <1>5, <2>2 DEF Poll
    <3>3. polled'[Reader].entries = list BY <1>1, <1>2, <3>1
    <3>4. ~burst' => Gapless(L \cup list) BY <1>1, <3>2, PageOfPoll DEF PageInv
    <3> HIDE DEF list
    <3> QED BY <2>1, <3>2, <3>3, <3>4 DEF PageInv, NoRead
  <2>3. CASE u # Reader
    <3>1. polled'[Reader] = polled[Reader] /\ burst' = burst
      BY <1>1, <1>5, <2>3 DEF Poll, TypeOK
    <3> QED BY <2>1, <3>1 DEF PageInv, NoRead
  <2> QED BY <2>2, <2>3
<1>6. ASSUME NEW u \in Users, Polled(u) PROVE PageInv'
  <2>1. UNCHANGED <<older, more, burst>> BY <1>6 DEF Polled
  <2>2. CASE u = Reader
    <3>1. loaded'[Reader] = L \cup P /\ polled'[Reader] = NoRead
      BY <1>1, <1>6, <2>2 DEF Polled, TypeOK
    <3>2. polled'[Reader].entries = {} BY <1>2, <3>1
    <3>3. ~burst => Gapless(L \cup P) /\ Gapless((L \cup P) \cup {}) BY DEF PageInv, Gapless
    <3>4. ~burst => Gapless((L \cup P) \cup O)
      <4>1. CASE older = NoRead BY <1>2, <3>3, <4>1
      <4>2. CASE older # NoRead
        <5>1. L # {} /\ L \in SUBSET Nat /\ P \in SUBSET Nat /\ O \in SUBSET Nat
          BY <1>1, <4>2 DEF PageInv
        <5>2. ~burst => Gapless(L \cup P) /\ Gapless(L \cup O) BY DEF PageInv
        <5> QED BY <5>1, <5>2, GaplessUnion
      <4> QED BY <4>1, <4>2
    <3> QED BY <2>1, <3>1, <3>2, <3>3, <3>4 DEF PageInv, NoRead
  <2>3. CASE u # Reader
    <3>1. loaded'[Reader] = loaded[Reader] /\ polled'[Reader] = polled[Reader]
      BY <1>1, <1>6, <2>3 DEF Polled, TypeOK
    <3> QED BY <2>1, <3>1 DEF PageInv, NoRead
  <2> QED BY <2>2, <2>3
<1>7. CASE LoadOlder
  <2> DEFINE list == ListTimeline(Reader, Min(L))
  <2>1. L # {} /\ more /\ older' = Read(Reader, list) /\ UNCHANGED <<loaded, polled, more, burst>>
    BY <1>7 DEF LoadOlder
  <2>2. older'.entries = list /\ older' # NoRead BY <1>1, <1>2, <2>1
  <2>3. (Gapless(L) => Gapless(L \cup list)) /\ (list = {} => 1 \in L)
    BY <1>1, <2>1, PageOfOlder
  <2> HIDE DEF list
  <2> QED BY <2>1, <2>2, <2>3 DEF PageInv, NoRead
<1>8. CASE OlderLoaded
  <2>1. /\ older # NoRead /\ older' = NoRead /\ loaded'[Reader] = L \cup O
        /\ more' = (more /\ O # {}) /\ UNCHANGED <<polled, burst>>
    BY <1>1, <1>8 DEF OlderLoaded, TypeOK
  <2>2. L # {} /\ (~more' => 1 \in L) BY <2>1 DEF PageInv, TypeOK
  <2>3. ~burst => Gapless(L \cup O) /\ Gapless((L \cup O) \cup {}) BY DEF PageInv, Gapless
  <2>4. ~burst => Gapless((L \cup O) \cup P)
    <3>1. L \in SUBSET Nat /\ P \in SUBSET Nat /\ O \in SUBSET Nat BY <1>1
    <3>2. ~burst => Gapless(L \cup P) /\ Gapless(L \cup O) BY DEF PageInv
    <3> QED BY <2>2, <3>1, <3>2, GaplessUnion
  <2>5. older'.entries = {} BY <1>2, <2>1
  <2> QED BY <2>1, <2>2, <2>3, <2>4, <2>5 DEF PageInv, NoRead
<1>9. CASE \/ UNCHANGED vars
           \/ \E u \in Users : \/ Send(u) \/ Store(u) \/ Open(u) \/ MarkDormancy(u)
                               \/ Disconnect(u) \/ Reconnect(u)
           \/ \E e \in events : Arrive(e) \/ Lose(e)
  <2>1. UNCHANGED <<loaded, polled, older, more, burst>>
    BY <1>9 DEF Send, Store, StoreOwn, StoreIncoming, Open, MarkDormancy, Disconnect, Reconnect,
                Arrive, Lose
  <2> QED BY <1>3, <2>1
<1> QED BY <1>4, <1>5, <1>6, <1>7, <1>8, <1>9 DEF Next, Fail

-----------------------------------------------------------------------------
(* Theorems                                                                 *)

(* TypeOK for any number of messages, pages and failures: what a page has   *)
(* loaded is in its store, and what it tells is the number of a message.    *)
THEOREM TypeCorrect == Spec => []TypeOK
BY InitInv, TypeStep, PTL DEF Spec

(* The inductive invariant: nothing is stored or told above the cursor.     *)
THEOREM Inductive == Spec => []IInv
BY InitInv, TypeCorrect, InvStep, PTL DEF Spec

(* ReadIsPassed: no order of deliveries, polls, reconnections and losses    *)
(* shows a message as read that the reader's store has not come to.         *)
THEOREM ReadsArePassed == Spec => []ReadIsPassed
<1>1. IInv => ReadIsPassed BY DEF IInv
<1> QED BY Inductive, <1>1, PTL

(* TickNeverFalls: whichever of its events comes last, a tick only rises    *)
(* while the page is open.                                                  *)
THEOREM TicksRise == Spec => TickNeverFalls
<1>1. TypeOK /\ [Next]_vars
        => [(Writer \in open /\ Writer \in open')
             => \A i \in Ids : Rank(tick[i]) <= Rank(tick'[i])]_vars
  BY TickStep
<1> QED BY TypeCorrect, <1>1, PTL DEF Spec, TickNeverFalls

(* PageIsWhole: however polls, "load older", deliveries and departures      *)
(* overlap, the page shows an interval of the timeline, and offers no more  *)
(* only when it shows the first entry.                                      *)
THEOREM PagesAreWhole == Spec => []PageIsWhole
<1>1. Init => PageInv
  BY DEF Init, PageInv, Gapless, NoRead, Users
<1>2. TypeOK /\ PageInv /\ [Next]_vars => PageInv' BY PageStep
<1>3. TypeOK /\ PageInv => PageIsWhole
  <2> SUFFICES ASSUME TypeOK, PageInv, loaded[Reader] # {}, ~burst
               PROVE  /\ loaded[Reader] = Min(loaded[Reader]) .. Max(loaded[Reader])
                      /\ ~more => 1 \in loaded[Reader]
    BY DEF PageIsWhole
  <2> DEFINE L == loaded[Reader]  N == Len(timeline[Reader])
  <2>1. N \in Nat /\ L \in SUBSET Nat /\ L # {} /\ \A n \in L : n <= N
    BY ListIs DEF TypeOK, Users
  <2>2. Gapless(L) /\ (~more => 1 \in L) BY DEF PageInv
  <2> HIDE DEF L, N
  <2>3. /\ Max(L) \in L /\ \A n \in L : n <= Max(L)
        /\ Min(L) \in L /\ \A n \in L : Min(L) <= n
    BY <2>1, HasMin, MaxBounds
  <2>4. L \subseteq Min(L) .. Max(L)
    <3> SUFFICES ASSUME NEW n \in L PROVE n \in Min(L) .. Max(L) OBVIOUS
    <3>1. n \in Nat /\ Min(L) \in Nat /\ Max(L) \in Nat BY <2>1, <2>3
    <3> QED BY <2>3, <3>1
  <2>5. Min(L) .. Max(L) \subseteq L BY <2>2, <2>3 DEF Gapless
  <2> QED BY <2>2, <2>4, <2>5 DEF L
<1> QED BY <1>1, <1>2, <1>3, TypeCorrect, PTL DEF Spec
=============================================================================
