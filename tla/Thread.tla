------------------------------- MODULE Thread -------------------------------
(***************************************************************************)
(* The thread page of a direct conversation on the devices of its two      *)
(* members: what it loads of its own store's timeline, the watermark that  *)
(* the reader's page tells the writer's, and the ticks that acks and       *)
(* watermarks set there; the other direction is the same.  None of it is   *)
(* kept: an event that finds no page, no connection or no entry to set the *)
(* tick of is gone.                                                        *)
(***************************************************************************)
EXTENDS Naturals, Sequences, FiniteSets, FiniteSetsExt

CONSTANTS
  Reader, Writer,
  NoUser,
  PageSize,   \* PAGE_SIZE
  MaxSeq,     \* bound: messages sent
  MaxUpsets   \* bound: pages left, connections and events lost, markers of a dormancy

ASSUME TwoUsers == Reader # Writer /\ NoUser \notin {Reader, Writer}
ASSUME ThreadBounds == PageSize \in Nat \ {0} /\ {MaxSeq, MaxUpsets} \subseteq Nat

Users == {Reader, Writer}
Ids == 1 .. MaxSeq
Notice == 0    \* an entry that is not a message

VARIABLES
  author,     \* who sent each message; the relay numbers them
  way,        \* the messages that are on their way into each store
  cursor,     \* conversation_cursors of each store
  timeline,   \* its timeline_entries: the local id of an entry is its place
  open,       \* whose page is open
  loaded,     \* entriesById of each page
  polled,     \* what refresh has read and not yet set
  older,      \* what loadOlder of the reader's page has
  more,       \* its hasMore
  through,    \* its lastReadSeqSentRef
  burst,      \* whether more entries came between two reads of its refresh than one returns
  tick,       \* messageStatus of the writer's page
  events,     \* acks and watermarks under way to it in the server's handlers
  held,       \* watermarks the reader's socket keeps until it connects
  connected,
  upsets

relay   == <<author, way>>
stores  == <<cursor, timeline>>
pages   == <<open, loaded, polled>>
reading == <<older, more, through, burst>>
sockets == <<events, held, connected>>
vars    == <<relay, stores, pages, reading, tick, sockets, upsets>>

Sent == {i \in Ids : author[i] # NoUser}
NoRead == [of |-> NoUser, entries |-> {}]
Read(u, entries) == [of |-> u, entries |-> entries]
NoTicks == [i \in Ids |-> "sent"]

Init ==
  /\ author = [i \in Ids |-> NoUser] /\ way = [u \in Users |-> {}]
  /\ cursor = [u \in Users |-> 0] /\ timeline = [u \in Users |-> <<>>]
  /\ open = {} /\ loaded = [u \in Users |-> {}] /\ polled = [u \in Users |-> NoRead]
  /\ older = NoRead /\ more = TRUE /\ through = 0 /\ burst = FALSE
  /\ tick = NoTicks /\ events = {} /\ held = {} /\ connected = Users /\ upsets = 0

Upset == upsets < MaxUpsets /\ upsets' = upsets + 1

-----------------------------------------------------------------------------
(* What happens to a store                                                  *)

Send(u) ==
  LET i == Cardinality(Sent) + 1 IN
  /\ i \in Ids
  /\ author' = [author EXCEPT ![i] = u]
  /\ way' = [v \in Users |-> way[v] \cup {i}]
  /\ UNCHANGED <<stores, pages, reading, tick, sockets, upsets>>

\* A marker is for what came before the first, and for what is missing.
Markers(u, i) ==
  IF cursor[u] # 0 /\ i <= cursor[u] + 1 THEN <<>> ELSE <<Notice>>

Take(u, i) ==
  /\ timeline' = [timeline EXCEPT ![u] = @ \o Markers(u, i) \o <<i>>]
  /\ cursor' = [cursor EXCEPT ![u] = IF i > @ THEN i ELSE @]

\* reconcileOutboxEntry: the own message is inserted wherever the cursor is.
StoreOwn(u, i) ==
  /\ i \in way[u] /\ author[i] = u /\ way' = [way EXCEPT ![u] = @ \ {i}]
  /\ Take(u, i)
  /\ UNCHANGED <<author, pages, reading, tick, sockets, upsets>>

Ack(i)     == [kind |-> "ack", n |-> i]
ReadTo(n)  == [kind |-> "read", n |-> n]

\* insertIncomingEnvelope, then the ack, of a number that was passed too.
StoreIncoming(u, i) ==
  /\ i \in way[u] /\ author[i] # u /\ way' = [way EXCEPT ![u] = @ \ {i}]
  /\ IF i <= cursor[u] THEN UNCHANGED stores ELSE Take(u, i)
  /\ events' = IF u = Reader THEN events \cup {Ack(i)} ELSE events
  /\ UNCHANGED <<author, pages, reading, tick, held, connected, upsets>>

\* dormancy:return
MarkDormancy(u) ==
  /\ Upset /\ cursor[u] # 0
  /\ timeline' = [timeline EXCEPT ![u] = Append(@, Notice)]
  /\ UNCHANGED <<relay, cursor, pages, reading, tick, sockets>>

-----------------------------------------------------------------------------
(* The page and its reads                                                   *)

Open(u) ==
  /\ u \notin open /\ open' = open \cup {u}
  /\ UNCHANGED <<relay, stores, loaded, polled, reading, tick, sockets, upsets>>

\* The state of the page goes, and what its reads return is set nowhere.
Leave(u) ==
  /\ Upset /\ u \in open /\ open' = open \ {u}
  /\ loaded' = [loaded EXCEPT ![u] = {}] /\ polled' = [polled EXCEPT ![u] = NoRead]
  /\ IF u = Reader THEN older' = NoRead /\ more' = TRUE /\ through' = 0 /\ burst' = FALSE
                   ELSE UNCHANGED reading
  /\ tick' = IF u = Writer THEN NoTicks ELSE tick
  /\ UNCHANGED <<relay, stores, sockets>>

\* Fault: one entry is skipped between two pages of the timeline.
ListSkipping(u, before) == {n \in DOMAIN timeline[u] : n < before - 1 /\ n + PageSize >= before - 1}

\* listTimeline: the newest of what is before an id.
ListTimeline(u, before) == {n \in DOMAIN timeline[u] : n < before /\ n + PageSize >= before}

\* refresh, at once and by the interval.
Poll(u) ==
  /\ u \in open /\ polled[u] = NoRead
  /\ polled' = [polled EXCEPT ![u] = Read(u, ListTimeline(u, Len(timeline[u]) + 1))]
  /\ burst' = (burst \/ (u = Reader /\ loaded[u] # {} /\ Max(loaded[u]) + PageSize < Len(timeline[u])))
  /\ UNCHANGED <<relay, stores, open, loaded, older, more, through, tick, sockets, upsets>>

\* Fault: the local id is told for the number.
LocalId(n) == n

SeqOf(n) == timeline[Reader][n]

\* The writer is told of a number above the last it was told of; without a connection the
\* socket keeps that until it has one.
Tell(seq) ==
  IF seq <= through THEN UNCHANGED <<through, events, held>>
  ELSE /\ through' = seq
       /\ IF Reader \in connected THEN events' = events \cup {ReadTo(seq)} /\ UNCHANGED held
                                  ELSE held' = held \cup {seq} /\ UNCHANGED events

\* What was read is set, and the effect looks at the newest entry by local id, a notice if
\* that is what it is, and at no other.
Polled(u) ==
  LET entries == loaded[u] \cup polled[u].entries IN
  /\ polled[u] # NoRead /\ polled' = [polled EXCEPT ![u] = NoRead]
  /\ loaded' = [loaded EXCEPT ![u] = entries]
  /\ IF u = Reader /\ entries # {} THEN Tell(SeqOf(Max(entries)))
     ELSE UNCHANGED <<through, events, held>>
  /\ UNCHANGED <<relay, stores, open, older, more, burst, tick, connected, upsets>>

\* loadOlder
LoadOlder ==
  /\ loaded[Reader] # {} /\ more /\ older = NoRead
  /\ older' = Read(Reader, ListTimeline(Reader, Min(loaded[Reader])))
  /\ UNCHANGED <<relay, stores, pages, more, through, burst, tick, sockets, upsets>>

OlderLoaded ==
  /\ older # NoRead /\ older' = NoRead
  /\ loaded' = [loaded EXCEPT ![Reader] = @ \cup older.entries]
  /\ more' = (more /\ older.entries # {})
  /\ UNCHANGED <<relay, stores, open, polled, through, burst, tick, sockets, upsets>>

-----------------------------------------------------------------------------
(* Ticks                                                                    *)

\* Fault: an ack that comes late takes a tick back.
DeliveredAlways(i) == [tick EXCEPT ![i] = "delivered"]

\* handleDelivered: whether or not the message is loaded.
Delivered(i) == [tick EXCEPT ![i] = IF @ = "read" THEN @ ELSE "delivered"]

\* handleRead: the own messages that are loaded, up to the watermark.
Own == {i \in Sent : author[i] = Writer /\ \E n \in loaded[Writer] : timeline[Writer][n] = i}
ReadThrough(seq) == [i \in Ids |-> IF i \in Own /\ i <= seq THEN "read" ELSE tick[i]]

\* A handler of the server has made its queries, and emits to the writer's device.
Arrive(e) ==
  /\ events' = events \ {e}
  /\ tick' = IF Writer \notin connected \cap open THEN tick
             ELSE IF e.kind = "read" THEN ReadThrough(e.n) ELSE Delivered(e.n)
  /\ UNCHANGED <<relay, stores, pages, reading, held, connected, upsets>>

\* A query fails, or the socket of who emitted it went before the server had it.
Lose(e) ==
  /\ Upset /\ events' = events \ {e}
  /\ UNCHANGED <<relay, stores, pages, reading, tick, held, connected>>

Disconnect(u) ==
  /\ Upset /\ u \in connected /\ connected' = connected \ {u}
  /\ UNCHANGED <<relay, stores, pages, reading, tick, events, held>>

Reconnect(u) ==
  /\ u \notin connected /\ connected' = connected \cup {u}
  /\ IF u = Reader THEN events' = events \cup {ReadTo(n) : n \in held} /\ held' = {}
                   ELSE UNCHANGED <<events, held>>
  /\ UNCHANGED <<relay, stores, pages, reading, tick, upsets>>

-----------------------------------------------------------------------------
Store(u) == \E i \in way[u] : StoreOwn(u, i) \/ StoreIncoming(u, i)
Fail(u)  == MarkDormancy(u) \/ Leave(u) \/ Disconnect(u) \/ Reconnect(u)

Next ==
  \/ \E u \in Users : Send(u) \/ Store(u) \/ Open(u) \/ Poll(u) \/ Polled(u) \/ Fail(u)
  \/ LoadOlder \/ OlderLoaded
  \/ \E e \in events : Arrive(e) \/ Lose(e)

Spec == Init /\ [][Next]_vars

-----------------------------------------------------------------------------
(* Properties                                                              *)

Ticks == {"sent", "delivered", "read"}
Entries(u) == DOMAIN timeline[u]

Reads == [of : Users \cup {NoUser}, entries : SUBSET Nat]

TypeOK ==
  /\ author \in [Ids -> Users \cup {NoUser}] /\ way \in [Users -> SUBSET Sent]
  /\ cursor \in [Users -> 0 .. MaxSeq] /\ timeline \in [Users -> Seq(Sent \cup {Notice})]
  /\ loaded \in [Users -> SUBSET Nat] /\ polled \in [Users -> Reads] /\ older \in Reads
  /\ \A u \in Users : loaded[u] \cup polled[u].entries \subseteq Entries(u)
  /\ older.entries \subseteq Entries(Reader) /\ more \in BOOLEAN /\ burst \in BOOLEAN
  /\ tick \in [Ids -> Ticks] /\ through \in 0 .. MaxSeq /\ held \subseteq Ids
  /\ events \subseteq [kind : {"ack", "read"}, n : Ids]
  /\ open \cup connected \subseteq Users /\ upsets \in 0 .. MaxUpsets

(* A message is shown as read only if the reader's device has it or shows   *)
(* it as missing, whatever was reordered, lost, or kept for a reconnection. *)
ReadIsPassed == \A i \in Ids : tick[i] = "read" => i <= cursor[Reader]

(* The inductive invariant of the proofs: what is stored, told and on its   *)
(* way is at or below the cursor.                                           *)
StoredIsPassed == \A u \in Users : \A n \in Entries(u) : timeline[u][n] <= cursor[u]

ToldIsPassed ==
  /\ \A n \in held : n <= cursor[Reader]
  /\ \A e \in events : e.kind = "read" => e.n <= cursor[Reader]

IInv == StoredIsPassed /\ ToldIsPassed /\ ReadIsPassed

(* A tick is not taken back while the page stays, however the handlers of   *)
(* acks and watermarks overtake each other.                                 *)
Rank(t) == CASE t = "sent" -> 0 [] t = "delivered" -> 1 [] t = "read" -> 2
TickNeverFalls ==
  [][(Writer \in open /\ Writer \in open') => \A i \in Ids : Rank(tick[i]) <= Rank(tick'[i])]_vars

(* Unless more than PAGE_SIZE entries came between two polls, the page has  *)
(* no hole, and "load older" goes away only at the beginning of the history,*)
(* also if its two reads overlap each other and deliveries.                 *)
PageIsWhole ==
  loaded[Reader] # {} /\ ~burst =>
    /\ loaded[Reader] = Min(loaded[Reader]) .. Max(loaded[Reader])
    /\ ~more => 1 \in loaded[Reader]

(* Why: what is loaded and what a read has not yet set have no hole between *)
(* them, a read for "load older" is of a page with entries, and one that is *)
(* empty is of the first.                                                   *)
Gapless(S) == \A a, b \in S : a .. b \subseteq S
PageInv ==
  /\ older # NoRead => loaded[Reader] # {}
  /\ ~more \/ (older # NoRead /\ older.entries = {}) => 1 \in loaded[Reader]
  /\ ~burst => /\ Gapless(loaded[Reader])
               /\ Gapless(loaded[Reader] \cup polled[Reader].entries)
               /\ Gapless(loaded[Reader] \cup older.entries)

-----------------------------------------------------------------------------
(* A claim that the code does not keep                                      *)

\* ADR-0011: a tick is behind only if a device was offline at that moment.  A watermark
\* that comes before the poll that loads the message, or a message that was not the newest
\* of its poll, leaves it behind as well.
Settled ==
  /\ upsets = 0 /\ events = {} /\ open = Users
  /\ \A u \in Users : way[u] = {} /\ polled[u] = NoRead /\ Len(timeline[u]) \in loaded[u]
ReadIsShown ==
  Settled => \A i \in Own : (\E n \in loaded[Reader] : SeqOf(n) = i) => tick[i] = "read"
=============================================================================
