------------------------------ MODULE History ------------------------------
(***************************************************************************)
(* The history of one conversation on two devices of a user, and what      *)
(* carries it from one to the other: a backup file, or the payload of a    *)
(* linked device.  Each store is one SQLite connection, which drizzle's    *)
(* transactions do not keep others off: the engines, the export and the    *)
(* import of a device interleave statement by statement.                   *)
(***************************************************************************)
EXTENDS Naturals, Sequences, Functions, FiniteSets

CONSTANTS
  MaxSeq,    \* bound: how many envelopes the conversation sees
  MaxFiles,  \* bound: how many backups are exported
  MaxUpsets  \* bound: reconnections, new access tokens, reloads and failed imports

ASSUME HistoryBounds == {MaxSeq, MaxFiles, MaxUpsets} \subseteq Nat

Ids == 1 .. MaxSeq
Devices == {"source", "target"}

\* The engines of a device: the second is the one that a new access token creates.
Engines == {<<"source", 1>>, <<"target", 1>>, <<"target", 2>>}
Device(e) == e[1]

VARIABLES
  sent,       \* envelopes the relay has numbered
  pending,    \* those it keeps for each device
  acked,      \* those each device has acked
  live,       \* which engine's socket is connected, 0 for none
  queue,      \* the deliveries in each engine's queue
  task,       \* how far each engine is with the first of them
  cursor, timeline,
  saved,      \* the store at the BEGIN of the transaction that is open, if one is
  reading,    \* the store that collectBackupPayload has read the cursor of, if one runs
  files,      \* the payloads there are, each named by the order they were made in
  import,     \* the importTimelineEntries under way on the target
  imported,   \* the files it has committed
  clash,      \* what users of one connection have done to each other: see below
  upsets

relay   == <<sent, pending, acked, live>>
engines == <<queue, task>>
stores  == <<cursor, timeline, saved>>
backup  == <<reading, files, import, imported>>
vars    == <<relay, engines, stores, backup, clash, upsets>>

Message(i) == [kind |-> "message", from |-> i, to |-> i]
Gap(i, j)  == [kind |-> "gap", from |-> i, to |-> j]
HistoryStart == [kind |-> "history_start", from |-> 1, to |-> 0]

\* No store: no transaction is open, no export under way.
None  == [cursor |-> 0, timeline |-> <<HistoryStart>>]
Store(d) == [cursor |-> cursor[d], timeline |-> timeline[d]]
Open(d)  == saved[d] # None

Stored(entries) == {i \in Ids : Message(i) \in Range(entries)}

NotImporting == [pc |-> "no", file |-> 0]

Init ==
  /\ sent = 0
  /\ pending = [d \in Devices |-> {}] /\ acked = [d \in Devices |-> {}]
  /\ live = [d \in Devices |-> 1]
  /\ queue = [e \in Engines |-> <<>>] /\ task = [e \in Engines |-> "idle"]
  /\ cursor = [d \in Devices |-> 0] /\ timeline = [d \in Devices |-> <<>>]
  /\ saved = [d \in Devices |-> None]
  /\ reading = None /\ files = <<>> /\ import = NotImporting /\ imported = {}
  /\ clash = {} /\ upsets = 0

Upset == upsets < MaxUpsets /\ upsets' = upsets + 1

-----------------------------------------------------------------------------
(* The relay                                                               *)

Connected(e) == live[Device(e)] = e[2]

\* Somebody sends a message; it goes to every device of the user.
Send ==
  /\ sent < MaxSeq /\ sent' = sent + 1
  /\ pending' = [d \in Devices |-> pending[d] \cup {sent + 1}]
  /\ queue' = [e \in Engines |-> IF Connected(e) THEN Append(queue[e], sent + 1) ELSE queue[e]]
  /\ UNCHANGED <<acked, live, task, stores, backup, clash, upsets>>

\* The retention sweep: the envelope is gone for all.
Expire(i) ==
  /\ i \in UNION Range(pending)
  /\ pending' = [d \in Devices |-> pending[d] \ {i}]
  /\ UNCHANGED <<sent, acked, live, engines, stores, backup, clash, upsets>>

\* The members of a set of numbers in their order.
Increasing(q) == \A m, n \in DOMAIN q : m < n => q[m] < q[n]
Ordered(S) == CHOOSE q \in [1 .. Cardinality(S) -> S] : Range(q) = S /\ Increasing(q)

Drained(d) == Ordered(pending[d])

\* The socket of engine n of the device connects, and the relay drains to it.  A new engine
\* takes the place of one whose queue goes on without a socket.
Connect(d, n) ==
  /\ Upset /\ <<d, n>> \in Engines /\ live[d] <= n
  /\ live' = [live EXCEPT ![d] = n]
  /\ queue' = [queue EXCEPT ![<<d, n>>] = @ \o Drained(d)]
  /\ UNCHANGED <<sent, pending, acked, task, stores, backup, clash>>

-----------------------------------------------------------------------------
(* Transactions on a connection                                            *)

Idle(e) == task' = [task EXCEPT ![e] = "idle"] /\ queue' = [queue EXCEPT ![e] = Tail(@)]
GoTo(e, pc) == task' = [task EXCEPT ![e] = pc] /\ UNCHANGED queue

Begin(d)  == ~Open(d) /\ saved' = [saved EXCEPT ![d] = Store(d)]
Commit(d) == saved' = [saved EXCEPT ![d] = None]

\* BEGIN within a transaction is an error, and nothing tries again.
Refused(d) == Open(d) /\ clash' = clash \cup {"refused"}

Rollback(d) ==
  /\ cursor' = [cursor EXCEPT ![d] = saved[d].cursor]
  /\ timeline' = [timeline EXCEPT ![d] = saved[d].timeline]
  /\ saved' = [saved EXCEPT ![d] = None]

-----------------------------------------------------------------------------
(* insertIncomingEnvelope, once its turn in the queue has come              *)

DeliverBegin(e) ==
  /\ queue[e] # <<>> /\ task[e] = "idle"
  /\ \/ Begin(Device(e)) /\ GoTo(e, "classify") /\ UNCHANGED clash
     \/ Refused(Device(e)) /\ Idle(e) /\ UNCHANGED saved
  /\ UNCHANGED <<relay, cursor, timeline, backup, upsets>>

Markers(d, i) ==
  IF cursor[d] = 0 THEN <<HistoryStart>>
  ELSE IF i > cursor[d] + 1 THEN <<Gap(cursor[d] + 1, i - 1)>> ELSE <<>>

\* classifyAndAdvanceCursor.
Classify(e) ==
  LET d == Device(e)  i == Head(queue[e]) IN
  /\ task[e] = "classify"
  /\ IF i <= cursor[d] THEN GoTo(e, "commit") /\ UNCHANGED <<cursor, timeline>>
     ELSE /\ GoTo(e, "insert")
          /\ timeline' = [timeline EXCEPT ![d] = @ \o Markers(d, i)]
          /\ cursor' = [cursor EXCEPT ![d] = i]
  /\ UNCHANGED <<relay, saved, backup, clash, upsets>>

\* envelope_id is unique, and nothing is said here of a conflict.
Insert(e) ==
  LET d == Device(e)  i == Head(queue[e]) IN
  /\ task[e] = "insert"
  /\ IF i \in Stored(timeline[d]) THEN GoTo(e, "rollback") /\ UNCHANGED timeline
     ELSE /\ GoTo(e, "commit")
          /\ timeline' = [timeline EXCEPT ![d] = Append(@, Message(i))]
  /\ UNCHANGED <<relay, cursor, saved, backup, clash, upsets>>

\* The handler failed: no ack.
DeliverFails(e) ==
  /\ task[e] = "rollback" /\ Rollback(Device(e)) /\ Idle(e)
  /\ UNCHANGED <<relay, backup, clash, upsets>>

\* The ack goes to the engine's own socket.
DeliverCommit(e) ==
  LET d == Device(e)  i == Head(queue[e]) IN
  /\ task[e] = "commit" /\ Commit(d) /\ Idle(e)
  /\ IF Connected(e) /\ i \in pending[d]
     THEN /\ acked' = [acked EXCEPT ![d] = @ \cup {i}]
          /\ pending' = [pending EXCEPT ![d] = @ \ {i}]
     ELSE UNCHANGED <<acked, pending>>
  /\ UNCHANGED <<sent, live, cursor, timeline, backup, clash, upsets>>

-----------------------------------------------------------------------------
(* collectBackupPayload on the source                                      *)

Dirty == clash' = IF Open("source") THEN clash \cup {"dirty"} ELSE clash

\* A conversation without a cursor is skipped.
ExportCursor ==
  /\ Len(files) < MaxFiles /\ reading = None /\ cursor["source"] # 0
  /\ reading' = Store("source") /\ Dirty
  /\ UNCHANGED <<relay, engines, stores, files, import, imported, upsets>>

\* Fault: the entries are read before the cursor.
EntriesFirst(first, second) == [cursor |-> second.cursor, ids |-> Stored(first.timeline)]

\* What was delivered in between is in the entries and above the cursor.
Payload(first, second) == [cursor |-> first.cursor, ids |-> Stored(second.timeline)]

ExportEntries ==
  /\ reading # None /\ reading' = None /\ Dirty
  /\ files' = Append(files, Payload(reading, Store("source")))
  /\ UNCHANGED <<relay, engines, stores, import, imported, upsets>>

Export == ExportCursor \/ ExportEntries

-----------------------------------------------------------------------------
(* importTimelineEntries on the target                                      *)

Importing(pc) == import.pc = pc
Step(pc) == import' = [import EXCEPT !.pc = pc]

ImportBegin(f) ==
  /\ Importing("no")
  /\ \/ Begin("target") /\ import' = [pc |-> "entries", file |-> f] /\ UNCHANGED clash
     \/ Refused("target") /\ UNCHANGED <<saved, import>>
  /\ UNCHANGED <<relay, engines, cursor, timeline, reading, files, imported, upsets>>

\* Fault: an entry that is there already is written again.
Every(f) == files[f].ids

\* onConflictDoNothing
NewOf(f) == files[f].ids \ Stored(timeline["target"])

ImportEntries ==
  LET new == Ordered(NewOf(import.file)) IN
  /\ Importing("entries") /\ Step("cursor")
  /\ timeline' = [timeline EXCEPT !["target"] = @ \o [n \in DOMAIN new |-> Message(new[n])]]
  /\ UNCHANGED <<relay, engines, cursor, saved, reading, files, imported, clash, upsets>>

\* Fault: the cursor is that of the file.
Overwritten(old, new) == new

\* Fault: the cursor stays.
Kept(old, new) == old

\* Never backwards.
Advanced(old, new) == IF new > old THEN new ELSE old

ImportCursor ==
  /\ Importing("cursor") /\ Step("commit")
  /\ cursor' = [cursor EXCEPT !["target"] = Advanced(@, files[import.file].cursor)]
  /\ UNCHANGED <<relay, engines, timeline, saved, reading, files, imported, clash, upsets>>

ImportCommit ==
  /\ Importing("commit") /\ Commit("target")
  /\ imported' = imported \cup {import.file} /\ import' = NotImporting
  /\ UNCHANGED <<relay, engines, cursor, timeline, reading, files, clash, upsets>>

\* A statement fails.
ImportFails ==
  /\ import.pc \in {"entries", "cursor"} /\ Upset
  /\ Rollback("target") /\ import' = NotImporting
  /\ UNCHANGED <<relay, engines, reading, files, imported, clash>>

-----------------------------------------------------------------------------
\* The page is loaded anew: the connection closes, and what was open is rolled back.
Reload(d) ==
  /\ Upset
  /\ IF Open(d) THEN Rollback(d) ELSE UNCHANGED stores
  /\ live' = [live EXCEPT ![d] = 1]
  /\ queue' = [e \in Engines |-> IF Device(e) # d THEN queue[e]
                                 ELSE IF e[2] = 1 THEN Drained(d) ELSE <<>>]
  /\ task' = [e \in Engines |-> IF Device(e) = d THEN "idle" ELSE task[e]]
  /\ reading' = IF d = "source" THEN None ELSE reading
  /\ import' = IF d = "target" THEN NotImporting ELSE import
  /\ UNCHANGED <<sent, pending, acked, files, imported, clash>>

Deliver(e) ==
  DeliverBegin(e) \/ Classify(e) \/ Insert(e) \/ DeliverFails(e) \/ DeliverCommit(e)

Import ==
  \/ \E f \in DOMAIN files : ImportBegin(f)
  \/ ImportEntries \/ ImportCursor \/ ImportCommit \/ ImportFails

Next ==
  \/ Send \/ \E i \in Ids : Expire(i)
  \/ \E d \in Devices, n \in 1 .. 2 : Connect(d, n)
  \/ \E e \in Engines : Deliver(e)
  \/ Export \/ Import
  \/ \E d \in Devices : Reload(d)

Spec == Init /\ [][Next]_vars

-----------------------------------------------------------------------------
(* Properties                                                              *)

Entries == {Message(i) : i \in Ids} \cup {Gap(i, j) : i, j \in Ids} \cup {HistoryStart}
Pieces == {"no", "entries", "cursor", "commit"}
Turns == {"idle", "classify", "insert", "commit", "rollback"}

\* envelope_id is unique.
Unique(entries) == \A m, n \in DOMAIN entries :
  entries[m] = entries[n] /\ entries[m].kind = "message" => m = n

TypeOK ==
  /\ sent \in 0 .. MaxSeq
  /\ \A d \in Devices : pending[d] \cup acked[d] \subseteq 1 .. sent
  /\ cursor \in [Devices -> 0 .. sent]
  /\ \A d \in Devices : Range(timeline[d]) \subseteq Entries /\ Unique(timeline[d])
  /\ live \in [Devices -> 1 .. 2]
  /\ task \in [Engines -> Turns]
  /\ reading.cursor \in 0 .. sent /\ imported \subseteq DOMAIN files
  /\ import \in [pc : Pieces, file : 0 .. MaxFiles]
  /\ clash \subseteq {"refused", "dirty"} /\ upsets \in 0 .. MaxUpsets

(* What a device has acked it has, however backups of the other device are *)
(* imported between its deliveries: an imported cursor never turns a       *)
(* message that is not in the import into a duplicate.  Unless a BEGIN was *)
(* refused, or an export read inside a transaction: then it may.           *)
AckedIsKept ==
  clash = {} => \A d \in Devices : ~Open(d) => acked[d] \subseteq Stored(timeline[d])

(* Importing the same file again changes nothing, whatever was delivered or *)
(* imported meanwhile.                                                      *)
ReimportIsNoop ==
  Importing("commit") /\ import.file \in imported => Store("target") = saved["target"]

(* A delivery is refused by the table only where an export was overtaken by *)
(* a delivery: otherwise nothing is stored above the cursor.                *)
Whole(f) == \A i \in files[f].ids : i <= files[f].cursor
NothingAhead ==
  clash = {} /\ (\A f \in DOMAIN files : Whole(f)) => \A e \in Engines : task[e] # "rollback"

-----------------------------------------------------------------------------
(* Why: the inductive invariant                                            *)

Stores == [cursor : Nat, timeline : Seq(Entries)]
Files  == [cursor : Nat, ids : SUBSET Ids]

\* The store that a reload would find, what is in it, and what is still to come to it.
Durable(d) == IF Open(d) THEN saved[d] ELSE Store(d)
Has(d) == Stored(Durable(d).timeline)
Due(d) == pending[d] \ Has(d)

\* The shapes of what TypeOK leaves open, and no number above what was sent.
Shapes ==
  /\ pending \in [Devices -> SUBSET Ids] /\ acked \in [Devices -> SUBSET Ids]
  /\ queue \in [Engines -> Seq(Ids)]
  /\ timeline \in [Devices -> Seq(Entries)] /\ saved \in [Devices -> Stores]
  /\ reading \in Stores /\ (reading # None => reading.cursor # 0 /\ Len(files) < MaxFiles)
  /\ files \in Seq(Files) /\ Len(files) <= MaxFiles
  /\ \A e \in Engines : \A k \in DOMAIN queue[e] : queue[e][k] <= sent
  /\ \A d \in Devices : saved[d].cursor <= sent /\ Unique(saved[d].timeline)
  /\ \A f \in DOMAIN files : files[f].cursor \in 1 .. sent

\* A transaction belongs to one engine or to the import.
Owned ==
  /\ \A e \in Engines : task[e] # "idle" =>
       /\ Open(Device(e)) /\ queue[e] # <<>>
       /\ \A g \in Engines \ {e} : Device(g) = Device(e) => task[g] = "idle"
       /\ Device(e) = "target" => Importing("no")
  /\ ~Importing("no") => Open("target") /\ import.file \in DOMAIN files

\* What a delivery has done since its BEGIN.
Did(e) ==
  LET d == Device(e)  i == Head(queue[e])  had == Stored(saved[d].timeline) IN
  /\ task[e] = "classify" => Store(d) = saved[d]
  /\ task[e] \in {"insert", "rollback"} =>
       cursor[d] = i /\ saved[d].cursor < i /\ Stored(timeline[d]) = had
  /\ task[e] = "rollback" => i \in had
  /\ task[e] = "commit" =>
       \/ Store(d) = saved[d] /\ i <= cursor[d]
       \/ cursor[d] = i /\ saved[d].cursor < i /\ Stored(timeline[d]) = had \cup {i}
DeliveryDid == \A e \in Engines : Did(e)

\* What an import has done since its BEGIN: nothing, if it brings nothing new.
ImportDid ==
  LET d == "target"  f == files[import.file]  had == Stored(saved[d].timeline) IN
  /\ Importing("entries") => Store(d) = saved[d]
  /\ import.pc \in {"cursor", "commit"} =>
       /\ Stored(timeline[d]) = had \cup f.ids
       /\ f.ids \subseteq had => timeline[d] = saved[d].timeline
       /\ cursor[d] = IF Importing("cursor") THEN saved[d].cursor
                      ELSE Advanced(saved[d].cursor, f.cursor)

\* A store without a cursor is empty, but for an import under way.
EmptyAtFirst == \A d \in Devices : Durable(d).cursor = 0 => Durable(d).timeline = <<>>

\* What was imported stays.
ImportedStays == \A f \in imported :
  files[f].ids \subseteq Has("target") /\ files[f].cursor <= Durable("target").cursor

\* Nothing is stored above the cursor unless a file brings it.
NothingAbove == (\A f \in DOMAIN files : Whole(f)) =>
  \A d \in Devices : \A i \in Has(d) : i <= Durable(d).cursor

\* What is pending for the target the source has, or is still to get.
PendingAtSource == pending["target"] \subseteq pending["source"] \cup acked["source"]

\* What is due comes in its order: the smaller one is ahead in every queue.
InOrder(q, S) == \A k \in DOMAIN q : \A j \in S : j < q[k] => \E m \in 1 .. k - 1 : q[m] = j

\* Nothing due is at or below the cursor, and what is due comes to a connected engine, as
\* long as no BEGIN was refused and no export read inside a transaction; then a file has
\* whatever of the numbers up to its cursor the target is still to get.
Settled == clash = {} =>
  /\ \A d \in Devices : acked[d] \subseteq Has(d) /\ \A i \in Due(d) : i > Durable(d).cursor
  /\ \A e \in Engines : /\ Connected(e) => Due(Device(e)) \subseteq Range(queue[e])
                        /\ InOrder(queue[e], Due(Device(e)))
  /\ \A f \in DOMAIN files : \A i \in pending["target"] : i <= files[f].cursor => i \in files[f].ids
  /\ reading # None =>
       /\ Stored(reading.timeline) \subseteq Has("source")
       /\ \A i \in pending["target"] : i <= reading.cursor => i \in Stored(reading.timeline)

IInv == Owned /\ DeliveryDid /\ ImportDid /\ EmptyAtFirst /\ ImportedStays /\ NothingAbove
        /\ PendingAtSource /\ Settled
=============================================================================
