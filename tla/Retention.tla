------------------------------ MODULE Retention ------------------------------
(***************************************************************************)
(* The relay's retention core: what the request handlers and the sweeps of *)
(* apps/server do to the envelopes of one conversation in Postgres, to     *)
(* their attachments in R2, and to the delivery ticks they announce.       *)
(*                                                                         *)
(* A handler runs one transaction, one SQL statement per step, under READ  *)
(* COMMITTED: a statement sees what is committed plus the transaction's    *)
(* own writes, and waits for a row another transaction has written or      *)
(* locked.  What a transaction has written but not committed is kept with  *)
(* the handler (mine, held, doomed) and reaches the tables at its commit.  *)
(*                                                                         *)
(* An envelope's id is its sequence number: the row of                     *)
(* conversation_sequences is locked from the increment to the commit.      *)
(***************************************************************************)
EXTENDS Naturals, FiniteSets

CONSTANTS
  Handlers,     \* the requests, socket events and sweeps the process runs at once
  Devices,      \* every device of every member of the conversation
  NoDevice,     \* what an idle handler acts for
  Owner,        \* Owner[d] is the user a device belongs to
  Sleepers,     \* bound: the devices that may go dormant
  Revocable,    \* bound: the devices their owner may revoke
  MaxSeq,       \* bound: how many messages are sent
  Media,        \* the ids whose payload is a media descriptor
  BatchSize,    \* rows per sweep batch (500 in the code)
  MaxFailures   \* bound: how many statements, deletions or processes fail

ASSUME DevicesAssumption == NoDevice \notin Devices
ASSUME SubsetsAssumption == Sleepers \subseteq Devices /\ Revocable \subseteq Devices
ASSUME OwnerAssumption == Owner \in [Devices -> STRING]
ASSUME BoundsAssumption == MaxSeq \in Nat /\ BatchSize \in Nat \ {0} /\ MaxFailures \in Nat

Ids == 1 .. MaxSeq
Users == {Owner[d] : d \in Devices}

ASSUME MediaAssumption == Media \subseteq Ids

VARIABLES
  seq,        \* conversation_sequences.seq
  envelope,   \* "unsent", "held" while the row of envelopes exists, then "purged"
  author,     \* envelopes.sender_id, "nobody" before the send
  target,     \* envelope_targets.status; "removed" once a revocation deleted the row
  revoked,    \* the devices whose revoked_at is set
  dormant,    \* the devices whose dormant_at is set
  horizon,    \* the clock: ids up to here are past their expires_at
  objects,    \* the ids whose attachment is in R2
  ticks,      \* the ids announced by envelope:delivered
  pc, op,     \* where each handler is, and what it is running
  who,        \* the device a handler acts for
  fan,        \* a send's SELECT of active devices
  todo,       \* the rows a handler's current statement or loop has still to visit
  mine,       \* the ids whose target row for who[h] the transaction has written
  held,       \* the envelope rows the transaction has locked
  doomed,     \* the envelope rows it has deleted, with their target rows
  tick,       \* the ids an ack will announce once committed
  sweepSeen,  \* the clock at the sweep's latest SELECT
  sweepFull,  \* whether that SELECT filled a batch
  overdue,    \* what the compliance check after that sweep found past the window
  exiting,    \* an unhandled rejection has started process.exit
  failures

db       == <<seq, envelope, author, target, revoked, dormant>>
world    == <<horizon, objects, ticks>>
locals   == <<pc, op, who, fan, todo, mine, held, doomed, tick>>
monitor  == <<sweepSeen, sweepFull, overdue>>
faults   == <<exiting, failures>>
vars     == <<db, world, locals, monitor, faults>>

-----------------------------------------------------------------------------
(* Rows as a committed reader sees them, and the locks on them.             *)

Pending(i) == {d \in Devices : envelope[i] = "held" /\ target[i][d] = "pending"}
Recipient(i, d) == Owner[d] # author[i]

\* What transaction h counts as pending: the committed rows minus those it
\* has itself turned to delivered or deleted.
PendingSeenBy(h, i) == Pending(i) \ (IF i \in mine[h] THEN {who[h]} ELSE {})

TargetLockedBy(g, i, d) == (i \in mine[g] /\ who[g] = d) \/ i \in doomed[g]
TargetFree(h, i, d) == \A g \in Handlers \ {h} : ~ TargetLockedBy(g, i, d)
\* Fault: the purge's SELECT without FOR UPDATE.
EnvelopeNotLocked(h, i) == TRUE
EnvelopeFree(h, i) == \A g \in Handlers \ {h} : i \notin held[g]
\* Fault: the sequence is read and written without its row lock.
SequenceNotLocked == TRUE
SequenceFree == \A g \in Handlers : op[g] # "send"
DeviceFree(d) == \A g \in Handlers : ~ (op[g] = "revoke" /\ who[g] = d /\ pc[g] # "cleanup")

Init ==
  /\ seq = 0
  /\ envelope = [i \in Ids |-> "unsent"]
  /\ author = [i \in Ids |-> "nobody"]
  /\ target = [i \in Ids |-> [d \in Devices |-> "none"]]
  /\ revoked = {} /\ dormant = {}
  /\ horizon = 0 /\ objects = {} /\ ticks = {}
  /\ pc = [h \in Handlers |-> "idle"]
  /\ op = [h \in Handlers |-> "none"]
  /\ who = [h \in Handlers |-> NoDevice]
  /\ fan = [h \in Handlers |-> {}]
  /\ todo = [h \in Handlers |-> {}]
  /\ mine = [h \in Handlers |-> {}]
  /\ held = [h \in Handlers |-> {}]
  /\ doomed = [h \in Handlers |-> {}]
  /\ tick = [h \in Handlers |-> {}]
  /\ sweepSeen = 0 /\ sweepFull = FALSE /\ overdue = {}
  /\ exiting = FALSE /\ failures = 0

-----------------------------------------------------------------------------
(* sendEnvelope: bump the sequence, insert, fan out on write.               *)

SendBegin(h, d) ==
  /\ pc[h] = "idle"
  /\ seq < MaxSeq
  /\ SequenceFree
  /\ pc' = [pc EXCEPT ![h] = "select"]
  /\ op' = [op EXCEPT ![h] = "send"]
  /\ who' = [who EXCEPT ![h] = d]
  /\ UNCHANGED <<db, world, fan, todo, mine, held, doomed, tick, monitor, faults>>

SendSelect(h) ==
  /\ pc[h] = "select"
  /\ fan' = [fan EXCEPT ![h] = Devices \ (revoked \cup dormant \cup {who[h]})]
  /\ pc' = [pc EXCEPT ![h] = "insert"]
  /\ UNCHANGED <<db, world, op, who, todo, mine, held, doomed, tick, monitor, faults>>

SendCommit(h) ==
  /\ pc[h] = "insert"
  /\ seq' = seq + 1
  /\ envelope' = [envelope EXCEPT ![seq + 1] = "held"]
  /\ author' = [author EXCEPT ![seq + 1] = Owner[who[h]]]
  /\ target' = [target EXCEPT ![seq + 1] =
                  [d \in Devices |-> IF d \in fan[h] THEN "pending" ELSE "none"]]
  /\ objects' = objects \cup ({seq + 1} \cap Media)   \* uploaded before message:send
  /\ pc' = [pc EXCEPT ![h] = "idle"]
  /\ op' = [op EXCEPT ![h] = "none"]
  /\ who' = [who EXCEPT ![h] = NoDevice]
  /\ fan' = [fan EXCEPT ![h] = {}]
  /\ UNCHANGED <<revoked, dormant, horizon, ticks, todo, mine, held, doomed,
                 tick, monitor, faults>>

-----------------------------------------------------------------------------
(* ackEnvelope: SELECT the envelope, UPDATE the target, decide the purge.   *)

\* No row of envelopes: the ack is over before it changed anything.
AckBegin(h, d, i) ==
  /\ pc[h] = "idle"
  /\ envelope[i] = "held"
  /\ pc' = [pc EXCEPT ![h] = "update"]
  /\ op' = [op EXCEPT ![h] = "ack"]
  /\ who' = [who EXCEPT ![h] = d]
  /\ todo' = [todo EXCEPT ![h] = {i}]
  /\ UNCHANGED <<db, world, fan, mine, held, doomed, tick, monitor, faults>>

AckUpdate(h) == \E i \in todo[h] :
  /\ pc[h] = "update"
  /\ TargetFree(h, i, who[h])
  /\ who[h] \in Pending(i)
  /\ mine' = [mine EXCEPT ![h] = {i}]
  /\ pc' = [pc EXCEPT ![h] = "purge"]
  /\ UNCHANGED <<db, world, op, who, fan, todo, held, doomed, tick, monitor, faults>>

\* Already acked, purged meanwhile, or never a target: the idempotent no-op.
AckNoop(h) == \E i \in todo[h] :
  /\ pc[h] = "update"
  /\ TargetFree(h, i, who[h])
  /\ who[h] \notin Pending(i)
  /\ pc' = [pc EXCEPT ![h] = "idle"]
  /\ op' = [op EXCEPT ![h] = "none"]
  /\ who' = [who EXCEPT ![h] = NoDevice]
  /\ todo' = [todo EXCEPT ![h] = {}]
  /\ UNCHANGED <<db, world, fan, mine, held, doomed, tick, monitor, faults>>

-----------------------------------------------------------------------------
(* purgeEnvelopeIfComplete, run by acks and revocations for each id of todo *)

\* SELECT ... FOR UPDATE.
PurgeLock(h, i) ==
  /\ pc[h] = "purge"
  /\ i \in todo[h] /\ todo[h] \cap held[h] = {}
  /\ EnvelopeFree(h, i)
  /\ IF envelope[i] = "held"
       THEN held' = [held EXCEPT ![h] = @ \cup {i}] /\ UNCHANGED todo
       ELSE todo' = [todo EXCEPT ![h] = @ \ {i}] /\ UNCHANGED held
  /\ UNCHANGED <<db, world, pc, op, who, fan, mine, doomed, tick, monitor, faults>>

\* Fault: the purge asks the delivery tick's question, recipients only.
CompleteForRecipients(h, i) == \A d \in PendingSeenBy(h, i) : ~ Recipient(i, d)
Complete(h, i) == PendingSeenBy(h, i) = {}

\* Fault: R2 is cleaned inside the transaction.
PurgeCountEager(h, i) ==
  /\ pc[h] = "purge" /\ i \in todo[h] \cap held[h]
  /\ IF Complete(h, i)
       THEN doomed' = [doomed EXCEPT ![h] = @ \cup {i}] /\ objects' = objects \ {i}
       ELSE UNCHANGED <<doomed, objects>>
  /\ todo' = [todo EXCEPT ![h] = @ \ {i}]
  /\ UNCHANGED <<db, horizon, ticks, pc, op, who, fan, mine, held, tick, monitor, faults>>

\* SELECT count(*), and the DELETE that cascades to the target rows.
PurgeCount(h, i) ==
  /\ pc[h] = "purge"
  /\ i \in todo[h] \cap held[h]
  /\ doomed' = IF Complete(h, i)
                 THEN [doomed EXCEPT ![h] = @ \cup {i}] ELSE doomed
  /\ todo' = [todo EXCEPT ![h] = @ \ {i}]
  /\ UNCHANGED <<db, world, pc, op, who, fan, mine, held, tick, monitor, faults>>

\* Fault: only the ack that purges ticks.
DeliveredByPurge(h, i) == i \in doomed[h]

\* isDeliveredToAllRecipients, skipped when the envelope was just purged.
Delivered(h, i) == i \in doomed[h] \/ \A d \in PendingSeenBy(h, i) : ~ Recipient(i, d)

AckCheck(h) ==
  /\ pc[h] = "purge" /\ op[h] = "ack" /\ todo[h] = {}
  /\ tick' = [tick EXCEPT ![h] = {i \in mine[h] : Delivered(h, i)}]
  /\ pc' = [pc EXCEPT ![h] = "commit"]
  /\ UNCHANGED <<db, world, op, who, fan, todo, mine, held, doomed, monitor, faults>>

-----------------------------------------------------------------------------
(* revokeDevice: UPDATE the device, DELETE its pending targets, then purge. *)

RevokeBegin(h, d) ==
  /\ pc[h] = "idle"
  /\ d \in Revocable
  /\ DeviceFree(d)
  /\ pc' = [pc EXCEPT ![h] = "scan"]
  /\ op' = [op EXCEPT ![h] = "revoke"]
  /\ who' = [who EXCEPT ![h] = d]
  /\ UNCHANGED <<db, world, fan, todo, mine, held, doomed, tick, monitor, faults>>

\* The DELETE takes its snapshot ...
RevokeScan(h) ==
  /\ pc[h] = "scan"
  /\ todo' = [todo EXCEPT ![h] = {i \in Ids : who[h] \in Pending(i)}]
  /\ pc' = [pc EXCEPT ![h] = "delete"]
  /\ UNCHANGED <<db, world, op, who, fan, mine, held, doomed, tick, monitor, faults>>

\* ... and visits the rows, re-checking each one it had to wait for.
RevokeRow(h, i) ==
  /\ pc[h] = "delete"
  /\ i \in todo[h]
  /\ TargetFree(h, i, who[h])
  /\ mine' = IF who[h] \in Pending(i) THEN [mine EXCEPT ![h] = @ \cup {i}] ELSE mine
  /\ todo' = [todo EXCEPT ![h] = @ \ {i}]
  /\ UNCHANGED <<db, world, pc, op, who, fan, held, doomed, tick, monitor, faults>>

\* Fault: a revocation removes targets and purges nothing.
RevokeDeletedOnly(h) ==
  /\ pc[h] = "delete" /\ todo[h] = {}
  /\ pc' = [pc EXCEPT ![h] = "purge"]
  /\ UNCHANGED <<db, world, op, who, fan, todo, mine, held, doomed, tick, monitor, faults>>

RevokeDeleted(h) ==
  /\ pc[h] = "delete" /\ todo[h] = {}
  /\ todo' = [todo EXCEPT ![h] = mine[h]]
  /\ pc' = [pc EXCEPT ![h] = "purge"]
  /\ UNCHANGED <<db, world, op, who, fan, mine, held, doomed, tick, monitor, faults>>

RevokePurged(h) ==
  /\ pc[h] = "purge" /\ op[h] = "revoke" /\ todo[h] = {}
  /\ pc' = [pc EXCEPT ![h] = "commit"]
  /\ UNCHANGED <<db, world, op, who, fan, todo, mine, held, doomed, tick, monitor, faults>>

-----------------------------------------------------------------------------
(* sweepExpiredEnvelopes and the compliance check that follows it.          *)

\* Fault: the hard cutoff spares what is still pending.
ExpiredSettled == {i \in Ids : envelope[i] = "held" /\ i <= horizon /\ Pending(i) = {}}
Expired == {i \in Ids : envelope[i] = "held" /\ i <= horizon}

\* The interval callback; sweepRunning keeps a second sweep from starting.
SweepBegin(h) ==
  /\ pc[h] = "idle"
  /\ \A g \in Handlers : op[g] # "sweep"
  /\ pc' = [pc EXCEPT ![h] = "expired"]
  /\ op' = [op EXCEPT ![h] = "sweep"]
  /\ UNCHANGED <<db, world, who, fan, todo, mine, held, doomed, tick, monitor, faults>>

SweepSelect(h) ==
  /\ pc[h] = "expired"
  /\ \E batch \in SUBSET Expired :
       /\ Cardinality(batch) <= BatchSize
       /\ batch # Expired => Cardinality(batch) = BatchSize
       /\ todo' = [todo EXCEPT ![h] = batch]
       /\ sweepFull' = (Cardinality(batch) = BatchSize)
       /\ pc' = [pc EXCEPT ![h] = IF batch = {} THEN "monitor" ELSE "sweep"]
  /\ sweepSeen' = horizon
  /\ UNCHANGED <<db, world, op, who, fan, mine, held, doomed, tick, overdue, faults>>

SweepRow(h, i) ==
  /\ pc[h] = "sweep"
  /\ i \in todo[h]
  /\ EnvelopeFree(h, i)
  /\ held' = IF envelope[i] = "held" THEN [held EXCEPT ![h] = @ \cup {i}] ELSE held
  /\ todo' = [todo EXCEPT ![h] = @ \ {i}]
  /\ UNCHANGED <<db, world, pc, op, who, fan, mine, doomed, tick, monitor, faults>>

\* The foreign-key triggers run after the statement's last row.
SweepDeleted(h) ==
  /\ pc[h] = "sweep" /\ todo[h] = {}
  /\ todo' = [todo EXCEPT ![h] = held[h]]
  /\ pc' = [pc EXCEPT ![h] = "cascade"]
  /\ UNCHANGED <<db, world, op, who, fan, mine, held, doomed, tick, monitor, faults>>

\* Fault: the batch is visited and not deleted, so the loop finds it again.
SweepCascadeKeeps(h, i) ==
  /\ pc[h] = "cascade" /\ i \in todo[h]
  /\ \A d \in Devices : TargetFree(h, i, d)
  /\ todo' = [todo EXCEPT ![h] = @ \ {i}]
  /\ UNCHANGED <<db, world, pc, op, who, fan, mine, held, doomed, tick, monitor, faults>>

SweepCascade(h, i) ==
  /\ pc[h] = "cascade"
  /\ i \in todo[h]
  /\ \A d \in Devices : TargetFree(h, i, d)
  /\ doomed' = [doomed EXCEPT ![h] = @ \cup {i}]
  /\ todo' = [todo EXCEPT ![h] = @ \ {i}]
  /\ UNCHANGED <<db, world, pc, op, who, fan, mine, held, tick, monitor, faults>>

SweepCascaded(h) ==
  /\ pc[h] = "cascade" /\ todo[h] = {}
  /\ pc' = [pc EXCEPT ![h] = "commit"]
  /\ UNCHANGED <<db, world, op, who, fan, todo, mine, held, doomed, tick, monitor, faults>>

CheckCompliance(h) ==
  /\ pc[h] = "monitor"
  /\ overdue' = Expired
  /\ pc' = [pc EXCEPT ![h] = "report"]
  /\ UNCHANGED <<db, world, op, who, fan, todo, mine, held, doomed, tick,
                 sweepSeen, sweepFull, faults>>

\* The alert is raised, and sweepRunning is cleared.
SweepEnd(h) ==
  /\ pc[h] = "report"
  /\ pc' = [pc EXCEPT ![h] = "idle"]
  /\ op' = [op EXCEPT ![h] = "none"]
  /\ sweepSeen' = 0 /\ sweepFull' = FALSE /\ overdue' = {}
  /\ UNCHANGED <<db, world, who, fan, todo, mine, held, doomed, tick, faults>>

-----------------------------------------------------------------------------
(* COMMIT of an ack, a revocation or a sweep batch, and what follows it.    *)

\* Fault: only an ack cleans up the attachments it purged.
MediaPurgedByAck(h) == IF op[h] = "ack" THEN doomed[h] \cap Media ELSE {}
MediaPurged(h) == doomed[h] \cap Media

Commit(h) ==
  /\ pc[h] = "commit"
  /\ envelope' = [i \in Ids |-> IF i \in doomed[h] THEN "purged" ELSE envelope[i]]
  /\ target' = [i \in Ids |-> [d \in Devices |->
                  IF i \in mine[h] /\ d = who[h]
                    THEN IF op[h] = "ack" THEN "delivered" ELSE "removed"
                    ELSE target[i][d]]]
  /\ revoked' = IF op[h] = "revoke" THEN revoked \cup {who[h]} ELSE revoked
  /\ todo' = [todo EXCEPT ![h] = MediaPurged(h)]
  /\ mine' = [mine EXCEPT ![h] = {}]
  /\ held' = [held EXCEPT ![h] = {}]
  /\ doomed' = [doomed EXCEPT ![h] = {}]
  /\ pc' = [pc EXCEPT ![h] = "cleanup"]
  /\ UNCHANGED <<seq, author, dormant, world, op, who, fan, tick, monitor, faults>>

\* cleanupPurgedMedia, one object at a time; a failed deletion is only logged.
CleanupMedia(h, i) ==
  /\ pc[h] = "cleanup"
  /\ i \in todo[h]
  /\ \/ objects' = objects \ {i} /\ UNCHANGED failures
     \/ failures < MaxFailures /\ failures' = failures + 1 /\ UNCHANGED objects
  /\ todo' = [todo EXCEPT ![h] = @ \ {i}]
  /\ UNCHANGED <<db, horizon, ticks, pc, op, who, fan, mine, held, doomed, tick,
                 monitor, exiting>>

\* Fault: one batch per sweep.
OneBatch == "monitor"
AfterBatch == IF sweepFull THEN "expired" ELSE "monitor"

\* An ack announces its tick; a sweep looks for the next batch or ends.
Finish(h) ==
  /\ pc[h] = "cleanup" /\ todo[h] = {}
  /\ ticks' = ticks \cup tick[h]
  /\ tick' = [tick EXCEPT ![h] = {}]
  /\ IF op[h] = "sweep"
       THEN /\ pc' = [pc EXCEPT ![h] = AfterBatch]
            /\ UNCHANGED <<op, who>>
       ELSE /\ pc' = [pc EXCEPT ![h] = "idle"]
            /\ op' = [op EXCEPT ![h] = "none"]
            /\ who' = [who EXCEPT ![h] = NoDevice]
  /\ UNCHANGED <<db, horizon, objects, fan, todo, mine, held, doomed,
                 monitor, faults>>

-----------------------------------------------------------------------------
(* Single-statement updates, the clock, and failures.                       *)

\* sweepDormantDevices; it waits for a revocation's row and then skips it.
MarkDormant(d) ==
  /\ d \in Sleepers \ (revoked \cup dormant)
  /\ DeviceFree(d)
  /\ dormant' = dormant \cup {d}
  /\ UNCHANGED <<seq, envelope, author, target, revoked, world, locals, monitor, faults>>

\* handleConnection clears dormant_at.
Reactivate(d) ==
  /\ d \in dormant
  /\ DeviceFree(d)
  /\ dormant' = dormant \ {d}
  /\ UNCHANGED <<seq, envelope, author, target, revoked, world, locals, monitor, faults>>

\* expires_at grows with the sequence number: same window, same clock.
Tick ==
  /\ horizon < seq
  /\ horizon' = horizon + 1
  /\ UNCHANGED <<db, objects, ticks, locals, monitor, faults>>

\* h's attempt to write row i waits for transaction g.
WaitsFor(h, i, g) ==
  \/ pc[h] \in {"update", "delete"} /\ TargetLockedBy(g, i, who[h])
  \/ pc[h] \in {"purge", "sweep"} /\ i \in held[g]
  \/ pc[h] = "cascade" /\ \E d \in Devices : TargetLockedBy(g, i, d)

Deadlocked(h) == \E S \in SUBSET Handlers :
  /\ h \in S
  /\ \A s \in S :
       /\ todo[s] # {}
       /\ \A i \in todo[s] : \E g \in S \ {s} : WaitsFor(s, i, g)
       /\ \E g \in S \ {s} : \E i \in todo[g] : WaitsFor(g, i, s)

InTransaction(h) == pc[h] \notin {"idle", "cleanup", "monitor", "report"}

Rollback(H) ==
  /\ pc' = [h \in Handlers |-> IF h \in H THEN "idle" ELSE pc[h]]
  /\ op' = [h \in Handlers |-> IF h \in H THEN "none" ELSE op[h]]
  /\ who' = [h \in Handlers |-> IF h \in H THEN NoDevice ELSE who[h]]
  /\ fan' = [h \in Handlers |-> IF h \in H THEN {} ELSE fan[h]]
  /\ todo' = [h \in Handlers |-> IF h \in H THEN {} ELSE todo[h]]
  /\ mine' = [h \in Handlers |-> IF h \in H THEN {} ELSE mine[h]]
  /\ held' = [h \in Handlers |-> IF h \in H THEN {} ELSE held[h]]
  /\ doomed' = [h \in Handlers |-> IF h \in H THEN {} ELSE doomed[h]]
  /\ tick' = [h \in Handlers |-> IF h \in H THEN {} ELSE tick[h]]
  /\ IF \E h \in H : op[h] = "sweep"
       THEN sweepSeen' = 0 /\ sweepFull' = FALSE /\ overdue' = {}
       ELSE UNCHANGED monitor
  /\ UNCHANGED <<db, world>>

\* A failed statement rolls its transaction back.  A route answers 500 and the
\* sweep's promise is caught, but a socket event's rejection is unhandled and
\* takes the process down.
Fatal(h) == op[h] \in {"send", "ack"}

Fail(h) ==
  /\ InTransaction(h)
  /\ failures < MaxFailures
  /\ failures' = failures + 1
  /\ exiting' = (exiting \/ Fatal(h))
  /\ Rollback({h})

\* Postgres aborts one transaction of a cycle of waits.
DeadlockAbort(h) ==
  /\ Deadlocked(h)
  /\ IF Fatal(h)
       THEN failures < MaxFailures /\ failures' = failures + 1 /\ exiting' = TRUE
       ELSE UNCHANGED faults
  /\ Rollback({h})

\* process.exit or a deploy: every transaction rolls back, what was to follow a
\* commit is forgotten, and the process starts again.
Exit ==
  /\ exiting \/ failures < MaxFailures
  /\ failures' = IF exiting THEN failures ELSE failures + 1
  /\ exiting' = FALSE
  /\ Rollback(Handlers)

-----------------------------------------------------------------------------
Begin(h) ==
  \/ \E d \in Devices : SendBegin(h, d) \/ RevokeBegin(h, d)
  \/ \E d \in Devices, i \in Ids : AckBegin(h, d, i)

Continue(h) ==
  \/ SendSelect(h) \/ SendCommit(h)
  \/ AckUpdate(h) \/ AckNoop(h) \/ AckCheck(h)
  \/ RevokeScan(h) \/ RevokeDeleted(h) \/ RevokePurged(h)
  \/ SweepSelect(h) \/ SweepDeleted(h) \/ SweepCascaded(h) \/ CheckCompliance(h) \/ SweepEnd(h)
  \/ Commit(h) \/ Finish(h)
  \/ \E i \in Ids : \/ PurgeLock(h, i) \/ PurgeCount(h, i) \/ RevokeRow(h, i)
                    \/ SweepRow(h, i) \/ SweepCascade(h, i) \/ CleanupMedia(h, i)

Next ==
  \/ \E h \in Handlers : Begin(h) \/ Continue(h) \/ SweepBegin(h) \/ Fail(h) \/ DeadlockAbort(h)
  \/ \E d \in Devices : MarkDormant(d) \/ Reactivate(d)
  \/ Tick
  \/ Exit

Spec == Init /\ [][Next]_vars

\* The process runs every handler to its end; Postgres hands a row lock to whoever
\* queued for it, and breaks a cycle of waits after its timeout; the interval
\* timer keeps starting sweeps.
FairSpec ==
  /\ Spec
  /\ \A h \in Handlers :
       /\ WF_vars(Continue(h)) /\ WF_vars(DeadlockAbort(h))
       /\ SF_vars(AckUpdate(h) \/ AckNoop(h))
       /\ \A i \in Ids : /\ SF_vars(PurgeLock(h, i)) /\ SF_vars(RevokeRow(h, i))
                        /\ SF_vars(SweepRow(h, i)) /\ SF_vars(SweepCascade(h, i))
  /\ SF_vars(\E h \in Handlers : SweepBegin(h))

-----------------------------------------------------------------------------
(* Type correctness                                                         *)

PCs == {"idle", "select", "insert", "update", "purge", "scan", "delete",
        "expired", "sweep", "cascade", "monitor", "report", "commit", "cleanup"}

TypeOK ==
  /\ seq \in 0 .. MaxSeq
  /\ envelope \in [Ids -> {"unsent", "held", "purged"}]
  /\ author \in [Ids -> Users \cup {"nobody"}]
  /\ target \in [Ids -> [Devices -> {"none", "pending", "delivered", "removed"}]]
  /\ revoked \subseteq Devices /\ dormant \subseteq Devices
  /\ horizon \in 0 .. seq
  /\ objects \subseteq Ids /\ ticks \subseteq Ids
  /\ pc \in [Handlers -> PCs]
  /\ op \in [Handlers -> {"none", "send", "ack", "revoke", "sweep"}]
  /\ who \in [Handlers -> Devices \cup {NoDevice}]
  /\ fan \in [Handlers -> SUBSET Devices]
  /\ todo \in [Handlers -> SUBSET Ids]
  /\ mine \in [Handlers -> SUBSET Ids]
  /\ held \in [Handlers -> SUBSET Ids]
  /\ doomed \in [Handlers -> SUBSET Ids]
  /\ tick \in [Handlers -> SUBSET Ids]
  /\ sweepSeen \in 0 .. horizon /\ sweepFull \in BOOLEAN /\ overdue \subseteq Ids
  /\ exiting \in BOOLEAN
  /\ failures \in 0 .. MaxFailures

-----------------------------------------------------------------------------
(* Safety                                                                   *)

\* Content does not outlive its last delivery: once an envelope has been fanned
\* out to somebody, its row is there only while some target is still pending.
\* Two acks that both counted before the other committed would break it, and
\* so would a revocation that removed the last target and did not purge.
NoSettledEnvelope == \A i \in Ids :
  envelope[i] = "held" /\ (\E d \in Devices : target[i][d] # "none") => Pending(i) # {}

\* Content is not dropped before its delivery: an envelope that disappeared
\* before its expiry leaves no target that was still waiting for it.
PurgeOnlyWhenSettled == \A i \in Ids :
  envelope[i] = "purged" /\ i > horizon => \A d \in Devices : target[i][d] # "pending"

\* While an envelope can still be drained, its attachment can still be fetched:
\* R2 is cleaned only after the transaction that deleted the row has committed.
MediaOutlivesEnvelope == \A i \in Media : envelope[i] = "held" => i \in objects

\* In a run without failures an attachment is gone with its envelope, or the
\* handler whose commit deleted the row is still about to delete the object.
NoOrphanedMedia == \A i \in Media :
  envelope[i] = "purged" /\ failures = 0 =>
    i \notin objects \/ \E h \in Handlers : pc[h] = "cleanup" /\ i \in todo[h]

\* A delivery tick is never announced while a recipient's device still waits, not even for
\* an envelope the sweep has deleted meanwhile; and in a run without failures, once every
\* recipient device has acked, it has been announced or the handler of the last ack is
\* about to.
TickIsExact == \A i \in Ids :
  LET recipients == {d \in Devices : Recipient(i, d) /\ target[i][d] # "none"} IN
  /\ i \in ticks => \A d \in recipients : target[i][d] # "pending"
  /\ envelope[i] # "unsent" /\ failures = 0
       /\ recipients # {} /\ (\A d \in recipients : target[i][d] = "delivered")
     => i \in ticks \/ \E h \in Handlers : pc[h] = "cleanup" /\ i \in tick[h]

\* A compliance check never reports an envelope that had already expired when
\* the sweep before it looked: the batches leave nothing behind.
SweepLeavesNothing == \A i \in overdue : i > sweepSeen

-----------------------------------------------------------------------------
(* Why it holds: the inductive invariant                                    *)

\* Which operation is at which step, and what it may hold there.
Phases == \A h \in Handlers :
  /\ op[h] = "none" <=> pc[h] = "idle"
  /\ op[h] = "send" <=> pc[h] \in {"select", "insert"}
  /\ op[h] = "ack" => pc[h] \in {"update", "purge", "commit", "cleanup"}
  /\ op[h] = "revoke" => pc[h] \in {"scan", "delete", "purge", "commit", "cleanup"}
  /\ op[h] = "sweep" => pc[h] \notin {"update", "purge", "scan", "delete"}
  /\ op[h] \in {"send", "ack", "revoke"} => who[h] \in Devices
  /\ pc[h] \notin {"delete", "purge", "commit"} \/ op[h] = "sweep" => mine[h] = {}
  /\ pc[h] \notin {"purge", "sweep", "cascade", "commit"} => held[h] = {}
  /\ pc[h] = "update" => \E i \in Ids : todo[h] = {i}
  /\ pc[h] = "purge" => todo[h] \subseteq mine[h] /\ doomed[h] \cap todo[h] = {}
  /\ pc[h] = "cascade" => todo[h] \subseteq held[h]
  /\ pc[h] = "commit" => todo[h] = {}
  /\ doomed[h] \subseteq held[h]
  /\ op[h] # "sweep" => held[h] \subseteq mine[h]

\* One send at a time holds the row of conversation_sequences.
SendsSerialize == \A h \in Handlers : op[h] = "send" =>
  seq < MaxSeq /\ \A g \in Handlers : op[g] = "send" => g = h

\* Row locks exclude each other.
LocksExclude == \A g, h \in Handlers : g # h =>
  /\ held[g] \cap held[h] = {}
  /\ \A i \in mine[g] : ~ TargetLockedBy(h, i, who[g])

\* The sequence counts the sends; a locked row is one the tables still hold.
RowsExist ==
  /\ \A i \in Ids : envelope[i] = "unsent" <=> i > seq
  /\ \A h \in Handlers :
       /\ \A i \in held[h] : envelope[i] = "held" /\ (op[h] = "sweep" => i <= horizon)
       /\ \A i \in mine[h] : who[h] \in Pending(i)
       /\ pc[h] = "sweep" => \A i \in todo[h] : i <= horizon

\* The point of FOR UPDATE: from the count to the commit, the decision to purge
\* agrees with what is committed.
Decision(h) ==
  pc[h] \in {"purge", "commit"} /\ op[h] # "sweep" => \A i \in mine[h] \ todo[h] :
    i \in held[h] /\ (i \in doomed[h] <=> Pending(i) = {who[h]})
DecisionsStand == \A h \in Handlers : Decision(h)

IInv == Phases /\ SendsSerialize /\ LocksExclude /\ RowsExist /\ DecisionsStand
        /\ NoSettledEnvelope /\ PurgeOnlyWhenSettled

-----------------------------------------------------------------------------
(* Why what follows a commit is right: the invariant beside IInv             *)

\* Only a commit that deleted the rows is followed by the deletion of their objects,
\* and a process exits only after a failure.
CleanupFollows ==
  /\ \A h \in Handlers : pc[h] = "cleanup" => \A i \in todo[h] : envelope[i] = "purged"
  /\ exiting => failures # 0

\* What an ack has checked stays true until it commits, as it holds the envelope's row:
\* it will tick exactly what nobody but itself keeps a recipient from having.
AwaitedBy(i) == {d \in Devices : Recipient(i, d) /\ target[i][d] = "pending"}
Checked(h) ==
  /\ tick[h] # {} => op[h] = "ack" /\ pc[h] \in {"commit", "cleanup"}
  /\ \A i \in tick[h] : envelope[i] # "unsent"
  /\ pc[h] = "commit" /\ op[h] = "ack" =>
       /\ tick[h] \subseteq mine[h]
       /\ \A i \in mine[h] : i \in tick[h] <=> AwaitedBy(i) \subseteq {who[h]}
  /\ pc[h] = "cleanup" => \A i \in tick[h] : AwaitedBy(i) = {}
TicksChecked ==
  /\ \A h \in Handlers : Checked(h)
  /\ \A i \in ticks : envelope[i] # "unsent"

\* One sweep at a time, and what it has still to delete is in its batch, unless the
\* batch was full.
InBatch(h, i) ==
  \/ pc[h] = "sweep" /\ i \in todo[h] \cup held[h]
  \/ pc[h] = "cascade" /\ i \in todo[h] \cup doomed[h]
  \/ pc[h] = "commit" /\ i \in doomed[h]
Swept(h) == op[h] = "sweep" =>
  /\ \A g \in Handlers : op[g] = "sweep" => g = h
  /\ pc[h] \in {"monitor", "report"} => ~ sweepFull
  /\ pc[h] # "report" => overdue = {}
  /\ pc[h] # "expired" /\ ~ sweepFull =>
       \A i \in Ids : envelope[i] = "held" /\ i <= sweepSeen => InBatch(h, i)
BatchesCover ==
  /\ \A h \in Handlers : Swept(h)
  /\ (\A h \in Handlers : op[h] # "sweep") => overdue = {}

Effects == CleanupFollows /\ TicksChecked
           /\ MediaOutlivesEnvelope /\ NoOrphanedMedia /\ TickIsExact
Sweeps == BatchesCover /\ SweepLeavesNothing

-----------------------------------------------------------------------------
(* Refinement: with the locks, statements and handlers hidden, every step is *)
(* a step of the contract.                                                   *)

Contract == INSTANCE RetentionContract WITH waiting <- [i \in Ids |-> Pending(i)]

\* The tables change only as the contract says: in particular the commit that
\* settles the last target is the one that deletes the row.
ContractKept == Contract!Spec

-----------------------------------------------------------------------------
(* Liveness                                                                 *)

\* The hard cutoff: an envelope past its expiry is deleted, pending or not.
ExpiredIsPurged == \A i \in Ids :
  (envelope[i] = "held" /\ i <= horizon) ~> envelope[i] = "purged"

\* No request waits for ever on row locks.
EveryRequestEnds == \A h \in Handlers : (pc[h] # "idle") ~> (pc[h] = "idle")

-----------------------------------------------------------------------------
(* A claim of the documentation that the code does not keep                  *)

\* docs/RETENTION.md: revoking a device deletes its pending targets outright.
RevokedHasNoPending == \A i \in Ids : Pending(i) \cap revoked = {}
=============================================================================
