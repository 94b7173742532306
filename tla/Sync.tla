-------------------------------- MODULE Sync --------------------------------
(***************************************************************************)
(* One device and the relay: the socket handlers of apps/server, the wires *)
(* between them, and the sync engine that feeds the local store.  Every    *)
(* other device of the conversation is the environment: its messages are   *)
(* fanned out to this one.  The transactions on envelopes and targets are  *)
(* single steps here; Retention is about what happens inside them.         *)
(*                                                                         *)
(* Socket.IO keeps each direction in order while a connection lasts.  What *)
(* the server emitted but the device has not handled yet is one queue,     *)
(* inbox: the wire, then the EventQueue; a disconnection cuts off an       *)
(* arbitrary tail.  socket.io-client keeps what is emitted while it is not *)
(* connected and sends it with the next connection.                        *)
(***************************************************************************)
EXTENDS LocalStore, FiniteSets

CONSTANTS
  Media,        \* the ids whose payload has an attachment to download
  Expiring,     \* bound: the ids that may expire while they are pending
  Sleepy,       \* bound: whether the device may go dormant
  MaxConnects,  \* bound: how often the device connects
  MaxFaults     \* bound: failed downloads, closed tabs, server restarts

ASSUME SyncSubsets == Media \subseteq Ids /\ Expiring \subseteq Ids /\ Sleepy \in BOOLEAN
ASSUME SyncBounds == MaxConnects \in Nat /\ MaxFaults \in Nat

VARIABLES
  \* the tables
  seq,        \* conversation_sequences.seq
  origin,     \* the draft an envelope was sent from, 0 for another device's
  target,     \* this device's row in envelope_targets
  dormant,    \* devices.dormant_at is set
  \* the server process
  conn,       \* the phase of handleConnection
  wasDormant, \* what its SELECT read
  drain,      \* what drainPendingTargets returned and is still to be emitted
  emitting,   \* committed sends whose toWireEnvelope has not resolved
  handling,   \* handlers running for the current socket
  orphans,    \* handlers whose socket has closed
  replies,    \* ack callbacks on their way to the device
  \* the wires
  inbox, up,
  \* the device
  attached,   \* the engine's listeners are registered
  at, cur,    \* where the engine's current task is, and its envelope
  batch,      \* the drafts the current task has still to send
  tries,      \* how often each draft has been emitted
  \* bounds, and what the properties remember
  connects, faults,
  missed,     \* what this connection failed to settle
  failed      \* the ids whose download has ever failed

tables == <<seq, origin, target, dormant>>
server == <<conn, wasDormant, drain, emitting, handling, orphans, replies>>
wires  == <<inbox, up>>
engine == <<attached, at, cur, batch, tries>>
ghosts == <<connects, faults, missed, failed>>
vars   == <<store, tables, server, wires, engine, ghosts>>

Connect(kind) == [kind |-> kind, id |-> 0]
Deliver(i) == [kind |-> "deliver", id |-> i]
SendRequest(c, n) == [kind |-> "send", id |-> c, try |-> n]
AckRequest(i) == [kind |-> "ack", id |-> i, try |-> 0]

Init ==
  /\ StoreInit
  /\ seq = 0 /\ dormant = FALSE
  /\ origin = [i \in Ids |-> 0]
  /\ target = [i \in Ids |-> "none"]
  /\ conn = "offline" /\ wasDormant = FALSE /\ drain = {}
  /\ emitting = {} /\ handling = {} /\ orphans = {} /\ replies = {}
  /\ inbox = <<>> /\ up = {}
  /\ attached = FALSE /\ at = "idle" /\ cur = 0 /\ batch = {}
  /\ tries = [c \in Drafts |-> 0]
  /\ connects = 0 /\ faults = 0 /\ missed = {} /\ failed = {}

-----------------------------------------------------------------------------
(* The tables                                                               *)

\* Another device sends: sendEnvelope fans out to this one unless it is dormant.
PeerSend ==
  /\ seq < MaxSeq
  /\ seq' = seq + 1
  /\ target' = [target EXCEPT ![seq + 1] = IF dormant THEN "none" ELSE "pending"]
  /\ emitting' = IF dormant THEN emitting ELSE emitting \cup {seq + 1}
  /\ UNCHANGED <<store, origin, dormant, conn, wasDormant, drain, handling, orphans,
                 replies, wires, engine, ghosts>>

\* The sweep deletes an expired envelope; what is in memory is still emitted.
Expire(i) ==
  /\ i \in Expiring /\ target[i] = "pending"
  /\ target' = [target EXCEPT ![i] = "expired"]
  /\ UNCHANGED <<store, seq, origin, dormant, server, wires, engine, ghosts>>

\* last_seen_at is refreshed by the connection's UPDATE.
MarkDormant ==
  /\ Sleepy /\ ~ dormant /\ conn \in {"offline", "joined", "read"}
  /\ dormant' = TRUE
  /\ UNCHANGED <<store, seq, origin, target, server, wires, engine, ghosts>>

-----------------------------------------------------------------------------
(* handleConnection: between its awaits anything else may run.              *)

\* Fault: the socket joins its room when everything else is done.
InRoomOnceReady == conn = "ready"
InRoom == conn # "offline"

\* The handshake, the connect packet, and socket.join.
Open ==
  /\ conn = "offline" /\ connects < MaxConnects
  /\ connects' = connects + 1
  /\ conn' = "joined"
  /\ inbox' = Append(inbox, Connect("connect"))
  /\ missed' = {}
  /\ UNCHANGED <<store, tables, wasDormant, drain, emitting, handling, orphans, replies,
                 up, engine, faults, failed>>

Select ==
  /\ conn = "joined"
  /\ wasDormant' = dormant
  /\ conn' = "read"
  /\ UNCHANGED <<store, tables, drain, emitting, handling, orphans, replies, wires,
                 engine, ghosts>>

Update ==
  /\ conn = "read"
  /\ dormant' = FALSE
  /\ conn' = "updated"
  /\ UNCHANGED <<store, seq, origin, target, wasDormant, drain, emitting, handling,
                 orphans, replies, wires, engine, ghosts>>

Announce ==
  /\ conn = "updated"
  /\ inbox' = IF wasDormant THEN Append(inbox, Connect("dormancy")) ELSE inbox
  /\ conn' = "announced"
  /\ UNCHANGED <<store, tables, wasDormant, drain, emitting, handling, orphans, replies,
                 up, engine, ghosts>>

Drain ==
  /\ conn = "announced"
  /\ drain' = {i \in Ids : target[i] = "pending"}
  /\ conn' = "draining"
  /\ UNCHANGED <<store, tables, wasDormant, emitting, handling, orphans, replies, wires,
                 engine, ghosts>>

\* In the order of the numbers.
DrainEmit ==
  /\ conn = "draining"
  /\ \E i \in drain :
       /\ \A j \in drain : i <= j
       /\ inbox' = Append(inbox, Deliver(i))
       /\ drain' = drain \ {i}
  /\ UNCHANGED <<store, tables, conn, wasDormant, emitting, handling, orphans, replies,
                 up, engine, ghosts>>

Register ==
  /\ conn = "draining" /\ drain = {}
  /\ conn' = "ready"
  /\ UNCHANGED <<store, tables, wasDormant, drain, emitting, handling, orphans, replies,
                 wires, engine, ghosts>>

\* The socket is gone: what is on the wires is lost, what was handed to a handler
\* runs on, what the device has received stays queued.
Cut ==
  /\ conn' = "offline" /\ wasDormant' = FALSE /\ drain' = {}
  /\ replies' = {} /\ up' = {}

Disconnect ==
  /\ conn # "offline"
  /\ Cut
  /\ \E k \in 0 .. Len(inbox) : inbox' = SubSeq(inbox, 1, k)
  /\ orphans' = orphans \cup handling /\ handling' = {}
  /\ UNCHANGED <<store, tables, emitting, engine, ghosts>>

\* The process exits or is deployed anew: its handlers are gone as well.
Restart ==
  /\ faults < MaxFaults /\ faults' = faults + 1
  /\ conn # "offline" \/ emitting # {} \/ orphans # {}
  /\ Cut
  /\ \E k \in 0 .. Len(inbox) : inbox' = SubSeq(inbox, 1, k)
  /\ emitting' = {} /\ orphans' = {} /\ handling' = {}
  /\ UNCHANGED <<store, tables, engine, connects, missed, failed>>

-----------------------------------------------------------------------------
(* The other socket handlers                                                *)

\* The end of handleMessageSend: an emit to a room nobody is in does nothing.
Emit(i) ==
  /\ i \in emitting
  /\ emitting' = emitting \ {i}
  /\ inbox' = IF InRoom THEN Append(inbox, Deliver(i)) ELSE inbox
  /\ UNCHANGED <<store, tables, conn, wasDormant, drain, handling, orphans, replies, up,
                 engine, ghosts>>

\* An event that arrives before its listener is registered is dropped.
Receive(r) ==
  /\ r \in up /\ conn # "offline"
  /\ up' = up \ {r}
  /\ IF conn = "ready"
       THEN handling' = handling \cup {r} /\ UNCHANGED missed
       ELSE /\ missed' = IF r.kind = "ack" THEN missed \cup {r.id} ELSE missed
            /\ UNCHANGED handling
  /\ UNCHANGED <<store, tables, conn, wasDormant, drain, emitting, orphans, replies,
                 inbox, engine, connects, faults, failed>>

\* handleMessageSend: the commit, and the ack callback if its socket is still there.
HandleSend(r) ==
  /\ r \in handling \cup orphans /\ r.kind = "send"
  /\ seq < MaxSeq
  /\ seq' = seq + 1
  /\ origin' = [origin EXCEPT ![seq + 1] = r.id]
  /\ replies' = IF r \in handling
                  THEN replies \cup {[draft |-> r.id, try |-> r.try, id |-> seq + 1]}
                  ELSE replies
  /\ handling' = handling \ {r} /\ orphans' = orphans \ {r}
  /\ UNCHANGED <<store, target, dormant, conn, wasDormant, drain, emitting, wires,
                 engine, ghosts>>

\* Not a valid payload, not a member, or a failed transaction: no envelope, and at
\* best an error in reply, which ends the attempt as its timeout does.
RefuseSend(r) ==
  /\ r \in handling \cup orphans /\ r.kind = "send"
  /\ handling' = handling \ {r} /\ orphans' = orphans \ {r}
  /\ UNCHANGED <<store, tables, conn, wasDormant, drain, emitting, replies, wires, engine,
                 ghosts>>

\* handleEnvelopeAck: a repeated or late ack changes nothing.
HandleAck(r) ==
  /\ r \in handling \cup orphans /\ r.kind = "ack"
  /\ target' = IF target[r.id] = "pending" THEN [target EXCEPT ![r.id] = "delivered"] ELSE target
  /\ handling' = handling \ {r} /\ orphans' = orphans \ {r}
  /\ UNCHANGED <<store, seq, origin, dormant, conn, wasDormant, drain, emitting, replies,
                 wires, engine, ghosts>>

-----------------------------------------------------------------------------
(* The device                                                               *)

\* The engine is created once its module has been imported, the socket before.
Attach ==
  /\ ~ attached
  /\ attached' = TRUE
  /\ UNCHANGED <<store, tables, server, wires, at, cur, batch, tries, ghosts>>

Unheard ==
  /\ ~ attached /\ inbox # <<>>
  /\ inbox' = Tail(inbox)
  /\ missed' = missed \cup ({Head(inbox).id} \cap Ids)
  /\ UNCHANGED <<store, tables, server, up, engine, connects, faults, failed>>

CloseTab ==
  /\ attached
  /\ faults < MaxFaults /\ faults' = faults + 1
  /\ Cut
  /\ inbox' = <<>>
  /\ orphans' = orphans \cup handling /\ handling' = {}
  /\ attached' = FALSE /\ at' = "idle" /\ cur' = 0 /\ batch' = {}
  /\ UNCHANGED <<store, tables, emitting, tries, connects, missed, failed>>

\* The EventQueue starts a task when the one before it has ended.
StartTask(kind) ==
  /\ attached /\ at = "idle"
  /\ inbox # <<>> /\ Head(inbox).kind = kind
  /\ inbox' = Tail(inbox)

\* handleConnect: flushOutbox.
StartFlush ==
  /\ StartTask("connect")
  /\ batch' = Queued
  /\ at' = IF Queued = {} THEN "idle" ELSE "send"
  /\ UNCHANGED <<store, tables, server, up, attached, cur, tries, ghosts>>

HandleDormancyReturn ==
  /\ StartTask("dormancy")
  /\ InsertDormancyReturn
  /\ UNCHANGED <<tables, server, up, engine, ghosts>>

\* Fault: the ack leaves as soon as the envelope is there.
StartDeliverAcking ==
  /\ StartTask("deliver")
  /\ cur' = Head(inbox).id
  /\ at' = IF Head(inbox).id \in Media THEN "fetch" ELSE "store"
  /\ up' = up \cup {AckRequest(Head(inbox).id)}
  /\ UNCHANGED <<store, tables, server, attached, batch, tries, ghosts>>

StartDeliver ==
  /\ StartTask("deliver")
  /\ cur' = Head(inbox).id
  /\ at' = IF Head(inbox).id \in Media THEN "fetch" ELSE "store"
  /\ UNCHANGED <<store, tables, server, up, attached, batch, tries, ghosts>>

Fetched ==
  /\ at = "fetch"
  /\ at' = "store"
  /\ UNCHANGED <<store, tables, server, wires, attached, cur, batch, tries, ghosts>>

\* Every retry failed: neither insert nor ack.
FetchFailed ==
  /\ at = "fetch"
  /\ faults < MaxFaults /\ faults' = faults + 1
  /\ at' = "idle" /\ cur' = 0
  /\ missed' = missed \cup {cur} /\ failed' = failed \cup {cur}
  /\ UNCHANGED <<store, tables, server, wires, attached, batch, tries, connects>>

Store ==
  /\ at = "store"
  /\ InsertIncoming(cur)
  /\ at' = "ack"
  /\ UNCHANGED <<tables, server, wires, attached, cur, batch, tries, ghosts>>

EmitAck ==
  /\ at = "ack"
  /\ up' = up \cup {AckRequest(cur)}
  /\ at' = "idle" /\ cur' = 0
  /\ UNCHANGED <<store, tables, server, inbox, attached, batch, tries, ghosts>>

\* sendMessage, as a task of the queue: the row lands, and is sent if connected.
Compose(c) ==
  /\ attached /\ at = "idle"
  /\ outbox[c] = "none" /\ \A b \in Drafts : b < c => outbox[b] # "none"
  /\ SetStatus(c, "pending")
  /\ \/ conn # "offline" /\ at' = "send" /\ batch' = {c}
     \/ /\ conn = "offline" \/ Connect("connect") \in Range(inbox)
        /\ UNCHANGED <<at, batch>>
  /\ UNCHANGED <<tables, server, wires, attached, cur, tries, ghosts>>

\* The entries are sent one by one, oldest first.
Turn(c) == c \in batch /\ \A b \in batch : c <= b

\* sendOutboxEntry up to the emit.
Send ==
  /\ at = "send"
  /\ \E c \in Drafts :
       /\ Turn(c)
       /\ SetStatus(c, "sending")
       /\ tries' = [tries EXCEPT ![c] = @ + 1]
       /\ up' = up \cup {SendRequest(c, tries[c] + 1)}
  /\ at' = "await"
  /\ UNCHANGED <<tables, server, inbox, attached, cur, batch, ghosts>>

NextInBatch(c) ==
  /\ batch' = batch \ {c}
  /\ at' = IF batch = {c} THEN "idle" ELSE "send"

\* The ack callback fires in time.
Confirm ==
  /\ at = "await"
  /\ \E r \in replies :
       /\ Turn(r.draft) /\ r.try = tries[r.draft]
       /\ Reconcile(r.draft, r.id)
       /\ replies' = replies \ {r}
       /\ NextInBatch(r.draft)
  /\ UNCHANGED <<tables, conn, wasDormant, drain, emitting, handling, orphans, wires,
                 attached, cur, tries, ghosts>>

\* Faults: no timer, the promise stays unsettled; or the entry is sent again at once.
TimeoutNever == FALSE
TimeoutRetries ==
  /\ at = "await"
  /\ \E c \in Drafts : Turn(c) /\ SetStatus(c, "failed")
  /\ at' = "send"
  /\ UNCHANGED <<tables, server, wires, attached, cur, batch, tries, ghosts>>

\* An error, or ten seconds without a reply: one that comes later is dropped.
Timeout ==
  /\ at = "await"
  /\ \E c \in Drafts : Turn(c) /\ SetStatus(c, "failed") /\ NextInBatch(c)
  /\ UNCHANGED <<tables, server, wires, attached, cur, tries, ghosts>>

-----------------------------------------------------------------------------
Engine ==
  \/ StartFlush \/ HandleDormancyReturn \/ StartDeliver
  \/ Fetched \/ Store \/ EmitAck \/ Send \/ Confirm \/ Timeout

Next ==
  \/ PeerSend \/ MarkDormant \/ \E i \in Ids : Expire(i) \/ Emit(i)
  \/ Open \/ Select \/ Update \/ Announce \/ Drain \/ DrainEmit \/ Register
  \/ Disconnect \/ Restart
  \/ \E r \in up : Receive(r)
  \/ \E r \in handling \cup orphans : HandleSend(r) \/ RefuseSend(r) \/ HandleAck(r)
  \/ Attach \/ Unheard \/ CloseTab
  \/ Engine \/ FetchFailed \/ \E c \in Drafts : Compose(c)

Spec == Init /\ [][Next]_vars

\* The device runs its tasks: local writes, downloads and the timer all end.
FairSpec == Spec /\ WF_vars(Engine)

-----------------------------------------------------------------------------
Events == [kind : {"connect", "dormancy"}, id : {0}] \cup [kind : {"deliver"}, id : Ids]
Requests == [kind : {"send"}, id : Drafts, try : Nat] \cup [kind : {"ack"}, id : Ids, try : {0}]

Types ==
  /\ cursor \in 0 .. seq
  /\ timeline \in Seq(Entries)
  /\ outbox \in [Drafts -> {"none", "pending", "sending", "failed", "sent"}]
  /\ seq \in 0 .. MaxSeq /\ dormant \in BOOLEAN
  /\ origin \in [Ids -> {0} \cup Drafts]
  /\ target \in [Ids -> {"none", "pending", "delivered", "expired"}]
  /\ conn \in {"offline", "joined", "read", "updated", "announced", "draining", "ready"}
  /\ wasDormant \in BOOLEAN /\ drain \subseteq Ids
  /\ emitting \subseteq Ids
  /\ handling \subseteq Requests /\ orphans \subseteq Requests /\ up \subseteq Requests
  /\ replies \subseteq [draft : Drafts, try : Nat, id : Ids]
  /\ inbox \in Seq(Events)
  /\ attached \in BOOLEAN
  /\ at \in {"idle", "fetch", "store", "ack", "send", "await"}
  /\ cur \in {0} \cup Ids
  /\ batch \subseteq Drafts
  /\ tries \in [Drafts -> Nat]
  /\ connects \in 0 .. MaxConnects /\ faults \in 0 .. MaxFaults
  /\ missed \subseteq Ids /\ failed \subseteq Ids

\* A draft is sent when it is composed and with every connection, and no more often.
TypeOK == Types /\ \A c \in Drafts : tries[c] <= MaxConnects + 1

-----------------------------------------------------------------------------
(* Safety                                                                   *)

\* What a device does not have it shows as missing: from the first message of the
\* timeline to the cursor, every number is a message or lies in a gap marker,
\* however the envelopes were reordered, dropped, expired or never fanned out.
NoSilentHole == cursor # 0 => \A i \in timeline[2].from .. cursor : Known(i)

\* Drain, live emit and redelivery may each bring an envelope, and the device stores its
\* own as well: each number is told once, as a message or in a gap, but that an own
\* message which the relay numbered before one that came first follows the gap.
Covers(entry) == entry.from .. entry.to
OwnLate(j, k) ==
  timeline[j].kind = "gap" /\ timeline[k].kind = "message" /\ origin[timeline[k].from] # 0
ToldOnce == \A j, k \in DOMAIN timeline :
  j < k /\ Covers(timeline[j]) \cap Covers(timeline[k]) # {} => OwnLate(j, k)

\* The relay forgets an envelope for this device only after the transaction that
\* took it in, or found it passed, also when the tab closes in between.
AckFollowsWrite == \A i \in Ids : target[i] = "delivered" => i <= cursor

\* Joining the room before draining closes the window: once a connection has
\* drained, a pending envelope is on its way, or this connection has failed on it.
OnItsWay(i) ==
  \/ i \in emitting \cup missed \cup drain
  \/ Deliver(i) \in Range(inbox)
  \/ cur = i
  \/ AckRequest(i) \in up \cup handling \cup orphans

NothingMissed == \A i \in Ids :
  conn \in {"draining", "ready"} /\ target[i] = "pending" => OnItsWay(i)

-----------------------------------------------------------------------------
(* Why the timeline is right: the inductive invariant                       *)

\* What comes to the device has been sent, and by another one.
InFlight(i) ==
  \/ i \in emitting \cup drain
  \/ Deliver(i) \in Range(inbox)
  \/ cur = i
  \/ target[i] # "none"
OthersCome == \A i \in Ids :
  /\ InFlight(i) => origin[i] = 0 /\ i <= seq
  /\ origin[i] # 0 => i <= seq

\* A reply is the only one for its envelope, which is not in the timeline yet.
RepliesAreNew == \A r \in replies :
  /\ origin[r.id] = r.draft
  /\ Message(r.id) \notin Range(timeline)
  /\ \A s \in replies : s.id = r.id => s = r

\* Acks are of numbers the cursor has reached.
AcksPassed ==
  /\ at \in {"fetch", "store", "ack"} => cur \in Ids
  /\ at = "ack" => cur <= cursor
  /\ \A r \in up \cup handling \cup orphans : r.kind = "ack" => r.id <= cursor

\* The timeline begins with two entries, and ends below the cursor.
TimelineBelow ==
  /\ IF cursor = 0 THEN timeline = <<>> ELSE Len(timeline) >= 2
  /\ \A k \in DOMAIN timeline : timeline[k].to <= cursor

\* Only a delivery has a current envelope, and only a flush or a send has a batch.
TaskKeeps ==
  /\ at \notin {"fetch", "store", "ack"} => cur = 0
  /\ at \notin {"send", "await"} => batch = {}

\* A draft is emitted once for its composition and once for each connection: what it has
\* been, will be by the current batch, and may be by the connect events still queued.
ConnectsIn(q) == {k \in DOMAIN q : q[k] = Connect("connect")}
Flushes == Cardinality(ConnectsIn(inbox))
Owed(c) == IF c \in batch /\ ~ (at = "await" /\ Turn(c)) THEN 1 ELSE 0
SendsCounted ==
  /\ Flushes <= connects
  /\ \A c \in Drafts :
       /\ tries[c] + Owed(c) + Flushes <= connects + 1
       /\ outbox[c] = "none" => c \notin batch /\ tries[c] = 0

IInv == OthersCome /\ RepliesAreNew /\ AcksPassed /\ TimelineBelow
        /\ NoSilentHole /\ ToldOnce /\ AckFollowsWrite
        /\ TaskKeeps /\ NothingMissed /\ SendsCounted

-----------------------------------------------------------------------------
(* Liveness                                                                 *)

\* The queue is never wedged: every task ends, also when no reply ever comes.
TasksEnd == at # "idle" ~> at = "idle"

-----------------------------------------------------------------------------
(* Claims of comments and documents that the code does not keep             *)

\* repository.ts: a number at or below the cursor was already fully processed, so
\* an acked envelope is in the timeline.
AckedIsStored == \A i \in Ids : target[i] = "delivered" => i \in Stored

\* create-sync-engine.ts: an envelope whose download failed is redelivered, so it
\* is not acked until it is stored.
FailedDownloadIsKept == \A i \in failed : target[i] = "delivered" => i \in Stored

\* create-sync-engine.ts: an entry is sent right away if connected, or on the next
\* reconnect, so what reaches the connected relay is handled.
SendsAreHandled ==
  [][\A r \in up : r.kind = "send" /\ r \notin up' /\ conn' # "offline" => r \in handling']_vars
=============================================================================
