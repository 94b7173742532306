--------------------------- MODULE RetentionProofs ---------------------------
(* Proofs about Retention, for any handlers, devices, messages and failures.  *)
EXTENDS Retention, FiniteSetTheorems, TLAPS

\* The initial state has the right types.
THEOREM InitTypeOK == Init => TypeOK
<1> SUFFICES ASSUME Init PROVE TypeOK OBVIOUS
<1>1. envelope \in [Ids -> {"unsent", "held", "purged"}] BY DEF Init
<1>2. author \in [Ids -> Users \cup {"nobody"}] BY DEF Init
<1>3. target \in [Ids -> [Devices -> {"none", "pending", "delivered", "removed"}]]
  BY DEF Init
<1>4. pc \in [Handlers -> PCs] BY DEF Init, PCs
<1>5. /\ op \in [Handlers -> {"none", "send", "ack", "revoke", "sweep"}]
      /\ who \in [Handlers -> Devices \cup {NoDevice}]
  BY DEF Init
<1>6. /\ fan \in [Handlers -> SUBSET Devices]
      /\ todo \in [Handlers -> SUBSET Ids] /\ mine \in [Handlers -> SUBSET Ids]
      /\ held \in [Handlers -> SUBSET Ids] /\ doomed \in [Handlers -> SUBSET Ids]
      /\ tick \in [Handlers -> SUBSET Ids]
  BY DEF Init
<1>7. seq = 0 /\ horizon = 0 /\ sweepSeen = 0 /\ failures = 0 BY DEF Init
<1>8. seq \in 0 .. MaxSeq /\ horizon \in 0 .. seq /\ sweepSeen \in 0 .. horizon
      /\ failures \in 0 .. MaxFailures
  BY <1>7, BoundsAssumption
<1> QED BY <1>1, <1>2, <1>3, <1>4, <1>5, <1>6, <1>8 DEF Init, TypeOK

\* Types, phases and the one send at a time survive the steps of sendEnvelope.
LEMMA TypeSend ==
  ASSUME TypeOK, Phases, SendsSerialize,
         NEW h \in Handlers,
         (\E d \in Devices : SendBegin(h, d))
           \/ SendSelect(h)
           \/ SendCommit(h)
  PROVE  TypeOK' /\ Phases' /\ SendsSerialize'
<1> USE BoundsAssumption DEF TypeOK, PCs, Phases, SendsSerialize, db, world, locals, monitor, faults
<1>1. CASE \E d \in Devices : SendBegin(h, d)
  <2> PICK d \in Devices : SendBegin(h, d) BY <1>1
  <2>1. TypeOK' BY DEF SendBegin
  <2>2. Phases' BY DEF SendBegin
  <2>3. SendsSerialize' BY DEF SendBegin, SequenceFree
  <2> QED BY <2>1, <2>2, <2>3
<1>2. CASE SendSelect(h)
  <2>1. TypeOK' BY <1>2 DEF SendSelect
  <2>2. Phases' BY <1>2 DEF SendSelect
  <2>3. SendsSerialize' BY <1>2 DEF SendSelect
  <2> QED BY <2>1, <2>2, <2>3
<1>3. CASE SendCommit(h)
  <2>1. seq + 1 \in Ids /\ seq' \in 0 .. MaxSeq /\ horizon \in 0 .. seq'
    BY <1>3 DEF SendCommit, Ids
  <2>2. author' \in [Ids -> Users \cup {"nobody"}]
    BY <1>3 DEF SendCommit, Users
  <2>3. target' \in [Ids -> [Devices -> {"none", "pending", "delivered", "removed"}]]
    <3> DEFINE row == [e \in Devices |-> IF e \in fan[h] THEN "pending" ELSE "none"]
    <3>1. row \in [Devices -> {"none", "pending", "delivered", "removed"}]
      OBVIOUS
    <3>2. target' = [target EXCEPT ![seq + 1] = row]
      BY <1>3 DEF SendCommit
    <3> QED BY <3>1, <3>2
  <2>4. TypeOK' BY <1>3, <2>1, <2>2, <2>3 DEF SendCommit
  <2>5. Phases' BY <1>3 DEF SendCommit
  <2>6. SendsSerialize' BY <1>3 DEF SendCommit
  <2> QED BY <2>4, <2>5, <2>6
<1> QED BY <1>1, <1>2, <1>3

\* They survive the steps of ackEnvelope outside the purge.
LEMMA TypeAck ==
  ASSUME TypeOK, Phases, SendsSerialize,
         NEW h \in Handlers,
         (\E d \in Devices, i \in Ids : AckBegin(h, d, i))
           \/ AckUpdate(h)
           \/ AckNoop(h)
           \/ AckCheck(h)
  PROVE  TypeOK' /\ Phases' /\ SendsSerialize'
<1> USE BoundsAssumption DEF TypeOK, PCs, Phases, SendsSerialize, db, world, locals, monitor, faults
<1>1. CASE \E d \in Devices, i \in Ids : AckBegin(h, d, i)
  <2> PICK d \in Devices, i \in Ids : AckBegin(h, d, i) BY <1>1
  <2>1. TypeOK' BY DEF AckBegin
  <2>2. Phases' BY DEF AckBegin
  <2>3. SendsSerialize' BY DEF AckBegin
  <2> QED BY <2>1, <2>2, <2>3
<1>2. CASE AckUpdate(h)
  <2>1. TypeOK' BY <1>2 DEF AckUpdate
  <2>2. Phases' BY <1>2 DEF AckUpdate
  <2>3. SendsSerialize' BY <1>2 DEF AckUpdate
  <2> QED BY <2>1, <2>2, <2>3
<1>3. CASE AckNoop(h)
  <2>1. TypeOK' BY <1>3 DEF AckNoop
  <2>2. Phases' BY <1>3 DEF AckNoop
  <2>3. SendsSerialize' BY <1>3 DEF AckNoop
  <2> QED BY <2>1, <2>2, <2>3
<1>4. CASE AckCheck(h)
  <2>1. TypeOK' BY <1>4 DEF AckCheck
  <2>2. Phases' BY <1>4 DEF AckCheck
  <2>3. SendsSerialize' BY <1>4 DEF AckCheck
  <2> QED BY <2>1, <2>2, <2>3
<1> QED BY <1>1, <1>2, <1>3, <1>4

\* They survive purgeEnvelopeIfComplete, for an ack and for a revocation.
LEMMA TypePurge ==
  ASSUME TypeOK, Phases, SendsSerialize,
         NEW h \in Handlers,
         (\E i \in Ids : PurgeLock(h, i))
           \/ (\E i \in Ids : PurgeCount(h, i))
  PROVE  TypeOK' /\ Phases' /\ SendsSerialize'
<1> USE BoundsAssumption DEF TypeOK, PCs, Phases, SendsSerialize, db, world, locals, monitor, faults
<1>1. CASE \E i \in Ids : PurgeLock(h, i)
  <2> PICK i \in Ids : PurgeLock(h, i) BY <1>1
  <2>1. CASE envelope[i] = "held"
    <3>1. held' = [held EXCEPT ![h] = @ \cup {i}] /\ UNCHANGED todo BY <2>1 DEF PurgeLock
    <3>2. TypeOK' BY <3>1 DEF PurgeLock
    <3>3. Phases' BY <3>1 DEF PurgeLock
    <3>4. SendsSerialize' BY DEF PurgeLock
    <3> QED BY <3>2, <3>3, <3>4
  <2>2. CASE envelope[i] # "held"
    <3>1. todo' = [todo EXCEPT ![h] = @ \ {i}] /\ UNCHANGED held BY <2>2 DEF PurgeLock
    <3>2. TypeOK' BY <3>1 DEF PurgeLock
    <3>3. Phases' BY <3>1 DEF PurgeLock
    <3>4. SendsSerialize' BY DEF PurgeLock
    <3> QED BY <3>2, <3>3, <3>4
  <2> QED BY <2>1, <2>2
<1>2. CASE \E i \in Ids : PurgeCount(h, i)
  <2> PICK i \in Ids : PurgeCount(h, i) BY <1>2
  <2>1. TypeOK' BY DEF PurgeCount
  <2>2. Phases'
    <3>1. doomed' = doomed \/ doomed' = [doomed EXCEPT ![h] = @ \cup {i}] BY DEF PurgeCount
    <3>4. /\ pc[h] = "purge" /\ i \in todo[h] /\ i \in held[h]
          /\ todo' = [todo EXCEPT ![h] = @ \ {i}]
          /\ pc' = pc /\ op' = op /\ who' = who /\ mine' = mine /\ held' = held
      BY DEF PurgeCount
    <3>2. CASE doomed' = doomed BY <3>2, <3>4
    <3>3. CASE doomed' = [doomed EXCEPT ![h] = @ \cup {i}] BY <3>3, <3>4
    <3> QED BY <3>1, <3>2, <3>3
  <2>3. SendsSerialize' BY DEF PurgeCount
  <2> QED BY <2>1, <2>2, <2>3
<1> QED BY <1>1, <1>2

\* They survive the steps of revokeDevice outside the purge.
LEMMA TypeRevoke ==
  ASSUME TypeOK, Phases, SendsSerialize,
         NEW h \in Handlers,
         (\E d \in Devices : RevokeBegin(h, d))
           \/ RevokeScan(h)
           \/ (\E i \in Ids : RevokeRow(h, i))
           \/ RevokeDeleted(h)
           \/ RevokePurged(h)
  PROVE  TypeOK' /\ Phases' /\ SendsSerialize'
<1> USE BoundsAssumption DEF TypeOK, PCs, Phases, SendsSerialize, db, world, locals, monitor, faults
<1>1. CASE \E d \in Devices : RevokeBegin(h, d)
  <2> PICK d \in Devices : RevokeBegin(h, d) BY <1>1
  <2>1. TypeOK' BY DEF RevokeBegin
  <2>2. Phases' BY DEF RevokeBegin
  <2>3. SendsSerialize' BY DEF RevokeBegin
  <2> QED BY <2>1, <2>2, <2>3
<1>2. CASE RevokeScan(h)
  <2>1. TypeOK' BY <1>2 DEF RevokeScan
  <2>2. Phases' BY <1>2 DEF RevokeScan
  <2>3. SendsSerialize' BY <1>2 DEF RevokeScan
  <2> QED BY <2>1, <2>2, <2>3
<1>3. CASE \E i \in Ids : RevokeRow(h, i)
  <2> PICK i \in Ids : RevokeRow(h, i) BY <1>3
  <2>1. TypeOK' BY DEF RevokeRow
  <2>2. Phases' BY DEF RevokeRow
  <2>3. SendsSerialize' BY DEF RevokeRow
  <2> QED BY <2>1, <2>2, <2>3
<1>4. CASE RevokeDeleted(h)
  <2>1. TypeOK' BY <1>4 DEF RevokeDeleted
  <2>2. Phases' BY <1>4 DEF RevokeDeleted
  <2>3. SendsSerialize' BY <1>4 DEF RevokeDeleted
  <2> QED BY <2>1, <2>2, <2>3
<1>5. CASE RevokePurged(h)
  <2>1. TypeOK' BY <1>5 DEF RevokePurged
  <2>2. Phases' BY <1>5 DEF RevokePurged
  <2>3. SendsSerialize' BY <1>5 DEF RevokePurged
  <2> QED BY <2>1, <2>2, <2>3
<1> QED BY <1>1, <1>2, <1>3, <1>4, <1>5

\* They survive the statements of the sweep and the compliance check.
LEMMA TypeSweep ==
  ASSUME TypeOK, Phases, SendsSerialize,
         NEW h \in Handlers,
         SweepBegin(h)
           \/ SweepSelect(h)
           \/ (\E i \in Ids : SweepRow(h, i))
           \/ SweepDeleted(h)
           \/ (\E i \in Ids : SweepCascade(h, i))
           \/ SweepCascaded(h)
           \/ CheckCompliance(h)
           \/ SweepEnd(h)
  PROVE  TypeOK' /\ Phases' /\ SendsSerialize'
<1> USE BoundsAssumption DEF TypeOK, PCs, Phases, SendsSerialize, db, world, locals, monitor, faults
<1>1. CASE SweepBegin(h)
  <2>1. TypeOK' BY <1>1 DEF SweepBegin
  <2>2. Phases' BY <1>1 DEF SweepBegin
  <2>3. SendsSerialize' BY <1>1 DEF SweepBegin
  <2> QED BY <2>1, <2>2, <2>3
<1>2. CASE SweepSelect(h)
  <2>1. TypeOK' BY <1>2 DEF SweepSelect, Expired
  <2>2. Phases' BY <1>2 DEF SweepSelect
  <2>3. SendsSerialize' BY <1>2 DEF SweepSelect
  <2> QED BY <2>1, <2>2, <2>3
<1>3. CASE \E i \in Ids : SweepRow(h, i)
  <2> PICK i \in Ids : SweepRow(h, i) BY <1>3
  <2>1. TypeOK' BY DEF SweepRow
  <2>2. Phases'
    <3>1. /\ pc[h] = "sweep" /\ UNCHANGED <<pc, op, who, mine, doomed>>
          /\ todo' = [todo EXCEPT ![h] = @ \ {i}]
          /\ held' = held \/ held' = [held EXCEPT ![h] = @ \cup {i}]
      BY DEF SweepRow
    <3>2. op[h] = "sweep" BY <3>1
    <3>3. CASE held' = held BY <3>1, <3>2, <3>3
    <3>4. CASE held' = [held EXCEPT ![h] = @ \cup {i}] BY <3>1, <3>2, <3>4
    <3> QED BY <3>1, <3>3, <3>4
  <2>3. SendsSerialize' BY DEF SweepRow
  <2> QED BY <2>1, <2>2, <2>3
<1>4. CASE SweepDeleted(h)
  <2>1. TypeOK' BY <1>4 DEF SweepDeleted
  <2>2. Phases' BY <1>4 DEF SweepDeleted
  <2>3. SendsSerialize' BY <1>4 DEF SweepDeleted
  <2> QED BY <2>1, <2>2, <2>3
<1>5. CASE \E i \in Ids : SweepCascade(h, i)
  <2> PICK i \in Ids : SweepCascade(h, i) BY <1>5
  <2>1. TypeOK' BY DEF SweepCascade
  <2>2. Phases' BY DEF SweepCascade
  <2>3. SendsSerialize' BY DEF SweepCascade
  <2> QED BY <2>1, <2>2, <2>3
<1>6. CASE SweepCascaded(h)
  <2>1. TypeOK' BY <1>6 DEF SweepCascaded
  <2>2. Phases' BY <1>6 DEF SweepCascaded
  <2>3. SendsSerialize' BY <1>6 DEF SweepCascaded
  <2> QED BY <2>1, <2>2, <2>3
<1>7. CASE CheckCompliance(h)
  <2>1. TypeOK' BY <1>7 DEF CheckCompliance, Expired
  <2>2. Phases' BY <1>7 DEF CheckCompliance
  <2>3. SendsSerialize' BY <1>7 DEF CheckCompliance
  <2> QED BY <2>1, <2>2, <2>3
<1>8. CASE SweepEnd(h)
  <2>1. TypeOK'
    <3>1. 0 \in 0 .. horizon BY BoundsAssumption
    <3> QED BY <1>8, <3>1 DEF SweepEnd
  <2>2. Phases' BY <1>8 DEF SweepEnd
  <2>3. SendsSerialize' BY <1>8 DEF SweepEnd
  <2> QED BY <2>1, <2>2, <2>3
<1> QED BY <1>1, <1>2, <1>3, <1>4, <1>5, <1>6, <1>7, <1>8

\* They survive the commit and what a handler does after it.
LEMMA TypeAfter ==
  ASSUME TypeOK, Phases, SendsSerialize,
         NEW h \in Handlers,
         Commit(h)
           \/ (\E i \in Ids : CleanupMedia(h, i))
           \/ Finish(h)
  PROVE  TypeOK' /\ Phases' /\ SendsSerialize'
<1> USE BoundsAssumption DEF TypeOK, PCs, Phases, SendsSerialize, db, world, locals, monitor, faults
<1>1. CASE Commit(h)
  <2>1. TypeOK' BY <1>1 DEF Commit, MediaPurged
  <2>2. Phases' BY <1>1 DEF Commit
  <2>3. SendsSerialize' BY <1>1 DEF Commit
  <2> QED BY <2>1, <2>2, <2>3
<1>2. CASE \E i \in Ids : CleanupMedia(h, i)
  <2> PICK i \in Ids : CleanupMedia(h, i) BY <1>2
  <2>1. TypeOK'
    <3>1. objects' \subseteq Ids /\ failures' \in 0 .. MaxFailures BY DEF CleanupMedia
    <3> QED BY <3>1 DEF CleanupMedia
  <2>2. Phases'
    <3>1. /\ pc[h] = "cleanup" /\ UNCHANGED <<pc, op, who, mine, held, doomed>>
          /\ todo' = [todo EXCEPT ![h] = @ \ {i}]
      BY DEF CleanupMedia
    <3> QED BY <3>1
  <2>3. SendsSerialize' BY DEF CleanupMedia
  <2> QED BY <2>1, <2>2, <2>3
<1>3. CASE Finish(h)
  <2>1. TypeOK'
    <3>1. pc' \in [Handlers -> PCs] BY <1>3 DEF Finish, AfterBatch
    <3>2. op' \in [Handlers -> {"none", "send", "ack", "revoke", "sweep"}] BY <1>3 DEF Finish
    <3>4. who' \in [Handlers -> Devices \cup {NoDevice}] BY <1>3 DEF Finish
    <3>3. ticks' \subseteq Ids /\ tick' \in [Handlers -> SUBSET Ids] BY <1>3 DEF Finish
    <3> QED BY <1>3, <3>1, <3>2, <3>3, <3>4 DEF Finish
  <2>2. Phases' BY <1>3 DEF Finish, AfterBatch
  <2>3. SendsSerialize' BY <1>3 DEF Finish
  <2> QED BY <2>1, <2>2, <2>3
<1> QED BY <1>1, <1>2, <1>3

\* They survive dormancy, reactivation and the clock.
LEMMA TypeEnvironment ==
  ASSUME TypeOK, Phases, SendsSerialize,
         \/ \E d \in Devices : MarkDormant(d) \/ Reactivate(d)
         \/ Tick
  PROVE  TypeOK' /\ Phases' /\ SendsSerialize'
<1> USE BoundsAssumption DEF TypeOK, PCs, Phases, SendsSerialize, db, world, locals, monitor, faults
<1>1. CASE \E d \in Devices : MarkDormant(d) \/ Reactivate(d)
  BY <1>1 DEF MarkDormant, Reactivate
<1>2. CASE Tick
  <2>1. horizon' \in 0 .. seq' /\ sweepSeen' \in 0 .. horizon' BY <1>2 DEF Tick
  <2> QED BY <1>2, <2>1 DEF Tick
<1> QED BY <1>1, <1>2

\* They survive the rollback of any set of handlers.
LEMMA TypeRollback ==
  ASSUME TypeOK, Phases, SendsSerialize, NEW H \in SUBSET Handlers, Rollback(H),
         exiting' \in BOOLEAN, failures' \in 0 .. MaxFailures
  PROVE  TypeOK' /\ Phases' /\ SendsSerialize'
<1> USE BoundsAssumption DEF TypeOK, PCs, Phases, SendsSerialize, db, world, locals, monitor, Rollback
<1>1. TypeOK'
  <2>1. 0 \in 0 .. horizon OBVIOUS
  <2>2. sweepSeen' \in 0 .. horizon /\ sweepFull' \in BOOLEAN /\ overdue' \subseteq Ids
    BY <2>1
  <2> QED BY <2>2
<1>2. Phases' OBVIOUS
<1>3. SendsSerialize' OBVIOUS
<1> QED BY <1>1, <1>2, <1>3

\* They survive a failed statement and the victim of a deadlock.
LEMMA TypeFailure ==
  ASSUME TypeOK, Phases, SendsSerialize, NEW h \in Handlers,
         Fail(h) \/ DeadlockAbort(h)
  PROVE  TypeOK' /\ Phases' /\ SendsSerialize'
<1>1. CASE Fail(h)
  BY <1>1, TypeRollback, BoundsAssumption DEF Fail, Fatal, TypeOK
<1>2. CASE DeadlockAbort(h)
  <2>1. exiting' = TRUE \/ exiting' = exiting BY <1>2 DEF DeadlockAbort, faults
  <2>2. failures' = failures \/ (failures < MaxFailures /\ failures' = failures + 1)
    BY <1>2 DEF DeadlockAbort, faults
  <2>3. exiting' \in BOOLEAN BY <2>1 DEF TypeOK
  <2>4. failures' \in 0 .. MaxFailures BY <2>2, BoundsAssumption DEF TypeOK
  <2> QED BY <1>2, <2>3, <2>4, TypeRollback DEF DeadlockAbort
<1> QED BY <1>1, <1>2

\* They survive process.exit.
LEMMA TypeExit ==
  ASSUME TypeOK, Phases, SendsSerialize, Exit
  PROVE  TypeOK' /\ Phases' /\ SendsSerialize'
<1>1. exiting' \in BOOLEAN BY DEF Exit
<1>2. failures' = failures \/ (failures < MaxFailures /\ failures' = failures + 1)
  <2>1. CASE exiting BY <2>1 DEF Exit
  <2>2. CASE ~ exiting BY <2>2 DEF Exit
  <2> QED BY <2>1, <2>2
<1>3. failures' \in 0 .. MaxFailures BY <1>2, BoundsAssumption DEF TypeOK
<1> QED BY <1>1, <1>3, TypeRollback DEF Exit

\* They survive every step.
LEMMA TypeStep ==
  ASSUME TypeOK, Phases, SendsSerialize, [Next]_vars
  PROVE  TypeOK' /\ Phases' /\ SendsSerialize'
<1>1. CASE \E h \in Handlers : Begin(h)
  BY <1>1, TypeSend, TypeAck, TypeRevoke DEF Begin
<1>2. CASE \E h \in Handlers : Continue(h)
  <2> PICK h \in Handlers : Continue(h) BY <1>2
  <2> QED BY TypePurge, TypeSend, TypeAck, TypeRevoke, TypeSweep, TypeAfter DEF Continue
<1>3. CASE \E h \in Handlers : SweepBegin(h) \/ Fail(h) \/ DeadlockAbort(h)
  BY <1>3, TypeSweep, TypeFailure
<1>4. CASE UNCHANGED vars
  BY <1>4 DEF vars, db, world, locals, monitor, faults, TypeOK, Phases, SendsSerialize
<1> QED BY <1>1, <1>2, <1>3, <1>4, TypeEnvironment, TypeExit DEF Next

\* Every handler starts idle.
LEMMA InitPhases == Init => Phases /\ SendsSerialize
BY DEF Init, Phases, SendsSerialize

\* Type correctness, for every reachable state of every instance: in particular
\* the sequence never passes the number of messages sent, expiry never overtakes
\* the sends, and a send always runs for a device.
THEOREM TypeCorrect == Spec => []TypeOK
<1>1. Init => TypeOK /\ Phases /\ SendsSerialize BY InitTypeOK, InitPhases
<1>2. TypeOK /\ Phases /\ SendsSerialize /\ [Next]_vars
        => (TypeOK /\ Phases /\ SendsSerialize)'
  BY TypeStep
<1> QED BY <1>1, <1>2, PTL DEF Spec

-----------------------------------------------------------------------------
(* The inductive invariant.                                                  *)

\* What the other handlers' decisions depend on.
Frame(h) == \A g \in Handlers \ {h} :
  /\ pc'[g] = pc[g] /\ op'[g] = op[g] /\ who'[g] = who[g] /\ todo'[g] = todo[g]
  /\ mine'[g] = mine[g] /\ held'[g] = held[g] /\ doomed'[g] = doomed[g]

\* The pending set is a function of the tables envelope and target.
LEMMA PendingSame ==
  ASSUME UNCHANGED <<envelope, target>>, NEW i
  PROVE  Pending(i)' = Pending(i)
BY DEF Pending

\* A purge under way keeps its decisions while it only takes locks.
LEMMA StillDecided ==
  ASSUME NEW h, pc[h] = "purge", Decision(h), UNCHANGED <<envelope, target>>,
         UNCHANGED <<op, who, todo, mine, doomed>>, held[h] \subseteq held'[h]
  PROVE  Decision(h)'
<1>1. SUFFICES ASSUME op[h] # "sweep", NEW i \in mine[h] \ todo[h]
               PROVE  i \in held'[h] /\ (i \in doomed[h] <=> Pending(i)' = {who[h]})
  BY DEF Decision
<1>2. i \in held[h] /\ (i \in doomed[h] <=> Pending(i) = {who[h]}) BY <1>1 DEF Decision
<1> QED BY <1>2, PendingSame

\* Frame: a step of one handler leaves the decisions of the others standing, if the
\* pending sets they decided on stay the same.
LEMMA OthersDecide ==
  ASSUME DecisionsStand, NEW h \in Handlers, Frame(h), Decision(h)',
         \A g \in Handlers \ {h} : \A i \in mine[g] \cap held[g] : Pending(i)' = Pending(i)
  PROVE  DecisionsStand'
<1> SUFFICES ASSUME NEW g \in Handlers \ {h} PROVE Decision(g)'
  BY DEF DecisionsStand
<1>1. Decision(g) BY DEF DecisionsStand
<1>2. SUFFICES ASSUME pc[g] \in {"purge", "commit"} /\ op[g] # "sweep",
                      NEW i \in mine[g] \ todo[g]
               PROVE  i \in held[g] /\ (i \in doomed[g] <=> Pending(i)' = {who[g]})
  BY DEF Decision, Frame
<1>3. i \in held[g] /\ (i \in doomed[g] <=> Pending(i) = {who[g]}) BY <1>1, <1>2 DEF Decision
<1>4. Pending(i)' = Pending(i) BY <1>3
<1> QED BY <1>3, <1>4

\* Locks, rows and decisions survive a send: its envelope is one nobody has locked.
LEMMA InvSend ==
  ASSUME TypeOK, Phases, SendsSerialize, TypeOK', Phases', LocksExclude, RowsExist, DecisionsStand,
         NEW h \in Handlers,
         (\E d \in Devices : SendBegin(h, d))
           \/ SendSelect(h)
           \/ SendCommit(h)
  PROVE  LocksExclude' /\ RowsExist' /\ DecisionsStand'
<1> USE DEF TypeOK, Phases, db, world, locals, monitor, faults
<1>1. CASE \E d \in Devices : SendBegin(h, d)
  <2> PICK d \in Devices : SendBegin(h, d) BY <1>1
  <2>1. LocksExclude' BY DEF SendBegin, LocksExclude, TargetLockedBy
  <2>2. RowsExist' BY DEF SendBegin, RowsExist, Pending
  <2>3. DecisionsStand'
    <3>1. Frame(h) BY DEF SendBegin, Frame
    <3>2. UNCHANGED <<envelope, target>> BY DEF SendBegin
    <3>3. Decision(h)' BY DEF SendBegin, DecisionsStand, Decision
    <3> QED BY <3>1, <3>2, <3>3, OthersDecide, PendingSame
  <2> QED BY <2>1, <2>2, <2>3
<1>2. CASE SendSelect(h)
  <2>1. LocksExclude' BY <1>2 DEF SendSelect, LocksExclude, TargetLockedBy
  <2>2. RowsExist' BY <1>2 DEF SendSelect, RowsExist, Pending
  <2>3. DecisionsStand'
    <3>1. Frame(h) BY <1>2 DEF SendSelect, Frame
    <3>2. UNCHANGED <<envelope, target>> BY <1>2 DEF SendSelect
    <3>3. Decision(h)' BY <1>2 DEF SendSelect, DecisionsStand, Decision
    <3> QED BY <3>1, <3>2, <3>3, OthersDecide, PendingSame
  <2> QED BY <2>1, <2>2, <2>3
<1>3. CASE SendCommit(h)
  <2>1. LocksExclude' BY <1>3 DEF SendCommit, LocksExclude, TargetLockedBy
  <2>2. envelope[seq + 1] = "unsent" /\ seq + 1 \in Ids
    BY <1>3 DEF SendCommit, RowsExist, SendsSerialize, Ids
  <2>3. \A g \in Handlers : seq + 1 \notin held[g] /\ seq + 1 \notin mine[g]
    BY <2>2 DEF RowsExist, Pending
  <2>4. \A i \in Ids \ {seq + 1} : Pending(i)' = Pending(i)
    BY <1>3 DEF SendCommit, Pending
  <2>5. RowsExist'
    <3>1. \A i \in Ids : envelope'[i] = "unsent" <=> i > seq'
      BY <1>3, <2>2 DEF SendCommit, RowsExist, Ids
    <3>2. ASSUME NEW g \in Handlers
          PROVE  /\ \A i \in held'[g] : envelope'[i] = "held" /\ (op'[g] = "sweep" => i <= horizon')
                 /\ \A i \in mine'[g] : who'[g] \in Pending(i)'
                 /\ pc'[g] = "sweep" => \A i \in todo'[g] : i <= horizon'
      <4>1. /\ held' = held /\ mine' = mine /\ todo' = todo /\ horizon' = horizon
            /\ \A i \in Ids \ {seq + 1} : envelope'[i] = envelope[i]
        BY <1>3 DEF SendCommit
      <4>2. CASE g = h BY <4>1, <4>2, <1>3 DEF SendCommit
      <4>3. CASE g # h
        <5>1. pc'[g] = pc[g] /\ op'[g] = op[g] /\ who'[g] = who[g]
          BY <4>3, <1>3 DEF SendCommit
        <5>2. ASSUME NEW i \in mine[g] PROVE who[g] \in Pending(i)'
          <6>1. i \in Ids \ {seq + 1} BY <2>3
          <6>2. Pending(i)' = Pending(i) BY <6>1, <2>4
          <6>3. who[g] \in Pending(i) BY DEF RowsExist
          <6> QED BY <6>2, <6>3
        <5> QED BY <4>1, <5>1, <5>2, <2>3 DEF RowsExist
      <4> QED BY <4>2, <4>3
    <3> QED BY <3>1, <3>2 DEF RowsExist
  <2>6. DecisionsStand'
    <3>1. Frame(h) BY <1>3 DEF SendCommit, Frame
    <3>2. Decision(h)' BY <1>3 DEF SendCommit, Decision
    <3> QED BY <3>1, <3>2, <2>3, <2>4, OthersDecide
  <2> QED BY <2>1, <2>5, <2>6
<1> QED BY <1>1, <1>2, <1>3

\* They survive an ack: its target row is one nobody else has written.
LEMMA InvAck ==
  ASSUME TypeOK, Phases, SendsSerialize, TypeOK', Phases', LocksExclude, RowsExist, DecisionsStand,
         NEW h \in Handlers,
         (\E d \in Devices, i \in Ids : AckBegin(h, d, i))
           \/ AckUpdate(h)
           \/ AckNoop(h)
           \/ AckCheck(h)
  PROVE  LocksExclude' /\ RowsExist' /\ DecisionsStand'
<1> USE DEF TypeOK, Phases, db, world, locals, monitor, faults
<1>1. CASE \E d \in Devices, i \in Ids : AckBegin(h, d, i)
  <2> PICK d \in Devices, i \in Ids : AckBegin(h, d, i) BY <1>1
  <2>1. LocksExclude' BY DEF AckBegin, LocksExclude, TargetLockedBy
  <2>2. RowsExist' BY DEF AckBegin, RowsExist, Pending
  <2>3. DecisionsStand'
    <3>1. Frame(h) BY DEF AckBegin, Frame
    <3>2. UNCHANGED <<envelope, target>> BY DEF AckBegin
    <3>3. Decision(h)' BY DEF AckBegin, DecisionsStand, Decision
    <3> QED BY <3>1, <3>2, <3>3, OthersDecide, PendingSame
  <2> QED BY <2>1, <2>2, <2>3
<1>2. CASE AckUpdate(h)
  <2>1. LocksExclude' BY <1>2 DEF AckUpdate, TargetFree, LocksExclude, TargetLockedBy
  <2>2. RowsExist' BY <1>2 DEF AckUpdate, RowsExist, Pending
  <2>3. DecisionsStand'
    <3>1. Frame(h) BY <1>2 DEF AckUpdate, Frame
    <3>2. UNCHANGED <<envelope, target>> BY <1>2 DEF AckUpdate
    <3>3. Decision(h)' BY <1>2 DEF AckUpdate, DecisionsStand, Decision
    <3> QED BY <3>1, <3>2, <3>3, OthersDecide, PendingSame
  <2> QED BY <2>1, <2>2, <2>3
<1>3. CASE AckNoop(h)
  <2>1. LocksExclude' BY <1>3 DEF AckNoop, LocksExclude, TargetLockedBy
  <2>2. RowsExist' BY <1>3 DEF AckNoop, RowsExist, Pending
  <2>3. DecisionsStand'
    <3>1. Frame(h) BY <1>3 DEF AckNoop, Frame
    <3>2. UNCHANGED <<envelope, target>> BY <1>3 DEF AckNoop
    <3>3. Decision(h)' BY <1>3 DEF AckNoop, DecisionsStand, Decision
    <3> QED BY <3>1, <3>2, <3>3, OthersDecide, PendingSame
  <2> QED BY <2>1, <2>2, <2>3
<1>4. CASE AckCheck(h)
  <2>1. LocksExclude' BY <1>4 DEF AckCheck, LocksExclude, TargetLockedBy
  <2>2. RowsExist' BY <1>4 DEF AckCheck, RowsExist, Pending
  <2>3. DecisionsStand'
    <3>1. Frame(h) BY <1>4 DEF AckCheck, Frame
    <3>2. UNCHANGED <<envelope, target>> BY <1>4 DEF AckCheck
    <3>3. pc[h] = "purge" /\ UNCHANGED <<op, who, todo, mine, held, doomed>>
      BY <1>4 DEF AckCheck
    <3>4. Decision(h) BY DEF DecisionsStand
    <3>6. Decision(h)' BY <3>2, <3>3, <3>4, StillDecided
    <3> QED BY <3>1, <3>2, <3>6, OthersDecide, PendingSame
  <2> QED BY <2>1, <2>2, <2>3
<1> QED BY <1>1, <1>2, <1>3, <1>4

\* They survive the lock and the count, which make the decision.
LEMMA InvPurge ==
  ASSUME TypeOK, Phases, SendsSerialize, TypeOK', Phases', LocksExclude, RowsExist, DecisionsStand,
         NEW h \in Handlers,
         (\E i \in Ids : PurgeLock(h, i))
           \/ (\E i \in Ids : PurgeCount(h, i))
  PROVE  LocksExclude' /\ RowsExist' /\ DecisionsStand'
<1> USE DEF TypeOK, Phases, db, world, locals, monitor, faults
<1>1. CASE \E i \in Ids : PurgeLock(h, i)
  <2> PICK i \in Ids : PurgeLock(h, i) BY <1>1
  <2>0. envelope[i] = "held" BY DEF PurgeLock, RowsExist, Pending
  <2>1. held' = [held EXCEPT ![h] = @ \cup {i}] /\ UNCHANGED todo BY <2>0 DEF PurgeLock
  <2>2. LocksExclude' BY <2>1 DEF PurgeLock, EnvelopeFree, LocksExclude, TargetLockedBy
  <2>3. RowsExist' BY <2>0, <2>1 DEF PurgeLock, RowsExist, Pending
  <2>4. DecisionsStand'
    <3>1. Frame(h) BY <2>1 DEF PurgeLock, Frame
    <3>2. UNCHANGED <<envelope, target>> BY DEF PurgeLock
    <3>3. Decision(h)'
      <4>1. /\ pc[h] = "purge" /\ UNCHANGED <<pc, op, who, mine, todo>>
            /\ doomed' = doomed /\ held[h] \subseteq held'[h]
        BY <2>1 DEF PurgeLock
      <4>2. Decision(h) BY DEF DecisionsStand
      <4> QED BY <4>1, <4>2, <3>2, StillDecided
    <3> QED BY <3>1, <3>2, <3>3, OthersDecide, PendingSame
  <2> QED BY <2>2, <2>3, <2>4
<1>2. CASE \E i \in Ids : PurgeCount(h, i)
  <2> PICK i \in Ids : PurgeCount(h, i) BY <1>2
  <2>0. i \in mine[h] /\ i \in held[h] /\ i \notin doomed[h] /\ who[h] \in Pending(i)
    BY DEF PurgeCount, RowsExist
  <2>1. \/ PendingSeenBy(h, i) = {} /\ doomed' = [doomed EXCEPT ![h] = @ \cup {i}]
        \/ PendingSeenBy(h, i) # {} /\ doomed' = doomed
    BY DEF PurgeCount, Complete
  <2>2. PendingSeenBy(h, i) = {} <=> Pending(i) = {who[h]} BY <2>0 DEF PendingSeenBy
  <2>3. LocksExclude'
    <3> SUFFICES ASSUME NEW f \in Handlers, NEW g \in Handlers, f # g
                 PROVE  /\ held'[f] \cap held'[g] = {}
                        /\ \A j \in mine'[f] : ~ (\/ j \in mine'[g] /\ who'[g] = who'[f]
                                                 \/ j \in doomed'[g])
      BY DEF LocksExclude, TargetLockedBy
    <3>1. held' = held /\ mine' = mine /\ who' = who BY DEF PurgeCount
    <3>2. CASE doomed'[g] = doomed[g] BY <3>1, <3>2 DEF LocksExclude, TargetLockedBy
    <3>3. CASE doomed'[g] # doomed[g]
      <4>1. g = h /\ doomed'[g] = doomed[g] \cup {i} /\ Pending(i) = {who[h]}
        BY <2>1, <2>2, <3>3
      <4>2. \A j \in mine[f] : who[f] \in Pending(j) BY DEF RowsExist
      <4>3. ~ (i \in mine[f]) BY <4>1, <4>2, <2>0 DEF LocksExclude, TargetLockedBy
      <4> QED BY <3>1, <4>1, <4>3 DEF LocksExclude, TargetLockedBy
    <3> QED BY <3>2, <3>3
  <2>4. RowsExist' BY DEF PurgeCount, RowsExist, Pending
  <2>5. DecisionsStand'
    <3>1. Frame(h) BY <2>1 DEF PurgeCount, Frame
    <3>2. UNCHANGED <<envelope, target>> BY DEF PurgeCount
    <3>3. Decision(h)'
      <4>1. /\ pc' = pc /\ op' = op /\ who' = who /\ mine' = mine /\ held' = held
        BY DEF PurgeCount
      <4>2. ASSUME op[h] # "sweep", NEW j \in mine[h] \ todo'[h]
            PROVE  j \in held[h] /\ (j \in doomed'[h] <=> Pending(j)' = {who[h]})
        <5>1. Pending(j)' = Pending(j) BY <3>2, PendingSame
        <5>2. CASE j = i BY <5>1, <5>2, <2>0, <2>1, <2>2
        <5>3. CASE j # i
          <6>1. j \in mine[h] \ todo[h] BY <5>3 DEF PurgeCount
          <6>2. j \in doomed'[h] <=> j \in doomed[h] BY <5>3, <2>1
          <6> QED BY <4>2, <5>1, <6>1, <6>2 DEF PurgeCount, DecisionsStand, Decision
        <5> QED BY <5>2, <5>3
      <4> QED BY <4>1, <4>2 DEF Decision
    <3> QED BY <3>1, <3>2, <3>3, OthersDecide, PendingSame
  <2> QED BY <2>3, <2>4, <2>5
<1> QED BY <1>1, <1>2

\* They survive a revocation: each row it deletes was free and still pending.
LEMMA InvRevoke ==
  ASSUME TypeOK, Phases, SendsSerialize, TypeOK', Phases', LocksExclude, RowsExist, DecisionsStand,
         NEW h \in Handlers,
         (\E d \in Devices : RevokeBegin(h, d))
           \/ RevokeScan(h)
           \/ (\E i \in Ids : RevokeRow(h, i))
           \/ RevokeDeleted(h)
           \/ RevokePurged(h)
  PROVE  LocksExclude' /\ RowsExist' /\ DecisionsStand'
<1> USE DEF TypeOK, Phases, db, world, locals, monitor, faults
<1>1. CASE \E d \in Devices : RevokeBegin(h, d)
  <2> PICK d \in Devices : RevokeBegin(h, d) BY <1>1
  <2>1. LocksExclude' BY DEF RevokeBegin, LocksExclude, TargetLockedBy
  <2>2. RowsExist' BY DEF RevokeBegin, RowsExist, Pending
  <2>3. DecisionsStand'
    <3>1. Frame(h) BY DEF RevokeBegin, Frame
    <3>2. UNCHANGED <<envelope, target>> BY DEF RevokeBegin
    <3>3. Decision(h)' BY DEF RevokeBegin, DecisionsStand, Decision
    <3> QED BY <3>1, <3>2, <3>3, OthersDecide, PendingSame
  <2> QED BY <2>1, <2>2, <2>3
<1>2. CASE RevokeScan(h)
  <2>1. LocksExclude' BY <1>2 DEF RevokeScan, LocksExclude, TargetLockedBy
  <2>2. RowsExist' BY <1>2 DEF RevokeScan, RowsExist, Pending
  <2>3. DecisionsStand'
    <3>1. Frame(h) BY <1>2 DEF RevokeScan, Frame
    <3>2. UNCHANGED <<envelope, target>> BY <1>2 DEF RevokeScan
    <3>3. Decision(h)' BY <1>2 DEF RevokeScan, DecisionsStand, Decision
    <3> QED BY <3>1, <3>2, <3>3, OthersDecide, PendingSame
  <2> QED BY <2>1, <2>2, <2>3
<1>3. CASE \E i \in Ids : RevokeRow(h, i)
  <2> PICK i \in Ids : RevokeRow(h, i) BY <1>3
  <2>0. \/ mine' = mine
        \/ who[h] \in Pending(i) /\ mine' = [mine EXCEPT ![h] = @ \cup {i}]
    BY DEF RevokeRow
  <2>1. LocksExclude'
    <3>1. CASE mine' = mine BY <3>1 DEF RevokeRow, LocksExclude, TargetLockedBy
    <3>2. CASE mine' = [mine EXCEPT ![h] = @ \cup {i}]
      BY <3>2 DEF RevokeRow, TargetFree, LocksExclude, TargetLockedBy
    <3> QED BY <2>0, <3>1, <3>2
  <2>2. RowsExist' BY DEF RevokeRow, RowsExist, Pending
  <2>3. DecisionsStand'
    <3>1. Frame(h) BY DEF RevokeRow, Frame
    <3>2. UNCHANGED <<envelope, target>> BY DEF RevokeRow
    <3>3. Decision(h)' BY DEF RevokeRow, DecisionsStand, Decision
    <3> QED BY <3>1, <3>2, <3>3, OthersDecide, PendingSame
  <2> QED BY <2>1, <2>2, <2>3
<1>4. CASE RevokeDeleted(h)
  <2>1. LocksExclude' BY <1>4 DEF RevokeDeleted, LocksExclude, TargetLockedBy
  <2>2. RowsExist' BY <1>4 DEF RevokeDeleted, RowsExist, Pending
  <2>3. DecisionsStand'
    <3>1. Frame(h) BY <1>4 DEF RevokeDeleted, Frame
    <3>2. UNCHANGED <<envelope, target>> BY <1>4 DEF RevokeDeleted
    <3>3. Decision(h)' BY <1>4 DEF RevokeDeleted, DecisionsStand, Decision
    <3> QED BY <3>1, <3>2, <3>3, OthersDecide, PendingSame
  <2> QED BY <2>1, <2>2, <2>3
<1>5. CASE RevokePurged(h)
  <2>1. LocksExclude' BY <1>5 DEF RevokePurged, LocksExclude, TargetLockedBy
  <2>2. RowsExist' BY <1>5 DEF RevokePurged, RowsExist, Pending
  <2>3. DecisionsStand'
    <3>1. Frame(h) BY <1>5 DEF RevokePurged, Frame
    <3>2. UNCHANGED <<envelope, target>> BY <1>5 DEF RevokePurged
    <3>3. Decision(h)' BY <1>5, <3>2, PendingSame DEF RevokePurged, DecisionsStand, Decision
    <3> QED BY <3>1, <3>2, <3>3, OthersDecide, PendingSame
  <2> QED BY <2>1, <2>2, <2>3
<1> QED BY <1>1, <1>2, <1>3, <1>4, <1>5

\* They survive a sweep: a row it deletes is one nobody has decided on.
LEMMA InvSweep ==
  ASSUME TypeOK, Phases, SendsSerialize, TypeOK', Phases', LocksExclude, RowsExist, DecisionsStand,
         NEW h \in Handlers,
         SweepBegin(h)
           \/ SweepSelect(h)
           \/ (\E i \in Ids : SweepRow(h, i))
           \/ SweepDeleted(h)
           \/ (\E i \in Ids : SweepCascade(h, i))
           \/ SweepCascaded(h)
           \/ CheckCompliance(h)
           \/ SweepEnd(h)
  PROVE  LocksExclude' /\ RowsExist' /\ DecisionsStand'
<1> USE DEF TypeOK, Phases, db, world, locals, monitor, faults
<1>1. CASE SweepBegin(h)
  <2>1. LocksExclude' BY <1>1 DEF SweepBegin, LocksExclude, TargetLockedBy
  <2>2. RowsExist' BY <1>1 DEF SweepBegin, RowsExist, Pending
  <2>3. DecisionsStand'
    <3>1. Frame(h) BY <1>1 DEF SweepBegin, Frame
    <3>2. UNCHANGED <<envelope, target>> BY <1>1 DEF SweepBegin
    <3>3. Decision(h)' BY <1>1 DEF SweepBegin, DecisionsStand, Decision
    <3> QED BY <3>1, <3>2, <3>3, OthersDecide, PendingSame
  <2> QED BY <2>1, <2>2, <2>3
<1>2. CASE SweepSelect(h)
  <2>1. LocksExclude' BY <1>2 DEF SweepSelect, LocksExclude, TargetLockedBy
  <2>2. RowsExist' BY <1>2 DEF SweepSelect, Expired, RowsExist, Pending
  <2>3. DecisionsStand'
    <3>1. Frame(h) BY <1>2 DEF SweepSelect, Frame
    <3>2. UNCHANGED <<envelope, target>> BY <1>2 DEF SweepSelect
    <3>3. Decision(h)' BY <1>2 DEF SweepSelect, DecisionsStand, Decision
    <3> QED BY <3>1, <3>2, <3>3, OthersDecide, PendingSame
  <2> QED BY <2>1, <2>2, <2>3
<1>3. CASE \E i \in Ids : SweepRow(h, i)
  <2> PICK i \in Ids : SweepRow(h, i) BY <1>3
  <2>0. \/ held' = held
        \/ envelope[i] = "held" /\ held' = [held EXCEPT ![h] = @ \cup {i}]
    BY DEF SweepRow
  <2>1. LocksExclude'
    <3>1. CASE held' = held BY <3>1 DEF SweepRow, LocksExclude, TargetLockedBy
    <3>2. CASE held' = [held EXCEPT ![h] = @ \cup {i}]
      BY <3>2 DEF SweepRow, EnvelopeFree, LocksExclude, TargetLockedBy
    <3> QED BY <2>0, <3>1, <3>2
  <2>2. RowsExist'
    <3>1. CASE held' = held BY <3>1 DEF SweepRow, RowsExist, Pending
    <3>2. CASE envelope[i] = "held" /\ held' = [held EXCEPT ![h] = @ \cup {i}]
      BY <3>2 DEF SweepRow, RowsExist, Pending
    <3> QED BY <2>0, <3>1, <3>2
  <2>3. DecisionsStand'
    <3>1. Frame(h) BY DEF SweepRow, Frame
    <3>2. UNCHANGED <<envelope, target>> BY DEF SweepRow
    <3>3. Decision(h)' BY DEF SweepRow, DecisionsStand, Decision
    <3> QED BY <3>1, <3>2, <3>3, OthersDecide, PendingSame
  <2> QED BY <2>1, <2>2, <2>3
<1>4. CASE SweepDeleted(h)
  <2>1. LocksExclude' BY <1>4 DEF SweepDeleted, LocksExclude, TargetLockedBy
  <2>2. RowsExist' BY <1>4 DEF SweepDeleted, RowsExist, Pending
  <2>3. DecisionsStand'
    <3>1. Frame(h) BY <1>4 DEF SweepDeleted, Frame
    <3>2. UNCHANGED <<envelope, target>> BY <1>4 DEF SweepDeleted
    <3>3. Decision(h)' BY <1>4 DEF SweepDeleted, DecisionsStand, Decision
    <3> QED BY <3>1, <3>2, <3>3, OthersDecide, PendingSame
  <2> QED BY <2>1, <2>2, <2>3
<1>5. CASE \E i \in Ids : SweepCascade(h, i)
  <2> PICK i \in Ids : SweepCascade(h, i) BY <1>5
  <2>0. \A g \in Handlers \ {h} : i \notin mine[g]
    <3>1. \A g \in Handlers : mine[g] # {} => who[g] \in Devices OBVIOUS
    <3> QED BY <3>1 DEF SweepCascade, TargetFree, TargetLockedBy
  <2>1. LocksExclude' BY <2>0 DEF SweepCascade, LocksExclude, TargetLockedBy
  <2>2. RowsExist' BY DEF SweepCascade, RowsExist, Pending
  <2>3. DecisionsStand'
    <3>1. Frame(h) BY DEF SweepCascade, Frame
    <3>2. UNCHANGED <<envelope, target>> BY DEF SweepCascade
    <3>3. Decision(h)' BY DEF SweepCascade, DecisionsStand, Decision
    <3> QED BY <3>1, <3>2, <3>3, OthersDecide, PendingSame
  <2> QED BY <2>1, <2>2, <2>3
<1>6. CASE SweepCascaded(h)
  <2>1. LocksExclude' BY <1>6 DEF SweepCascaded, LocksExclude, TargetLockedBy
  <2>2. RowsExist' BY <1>6 DEF SweepCascaded, RowsExist, Pending
  <2>3. DecisionsStand'
    <3>1. Frame(h) BY <1>6 DEF SweepCascaded, Frame
    <3>2. UNCHANGED <<envelope, target>> BY <1>6 DEF SweepCascaded
    <3>3. Decision(h)' BY <1>6 DEF SweepCascaded, DecisionsStand, Decision
    <3> QED BY <3>1, <3>2, <3>3, OthersDecide, PendingSame
  <2> QED BY <2>1, <2>2, <2>3
<1>7. CASE CheckCompliance(h)
  <2>1. LocksExclude' BY <1>7 DEF CheckCompliance, LocksExclude, TargetLockedBy
  <2>2. RowsExist' BY <1>7 DEF CheckCompliance, RowsExist, Pending
  <2>3. DecisionsStand'
    <3>1. Frame(h) BY <1>7 DEF CheckCompliance, Frame
    <3>2. UNCHANGED <<envelope, target>> BY <1>7 DEF CheckCompliance
    <3>3. Decision(h)' BY <1>7 DEF CheckCompliance, DecisionsStand, Decision
    <3> QED BY <3>1, <3>2, <3>3, OthersDecide, PendingSame
  <2> QED BY <2>1, <2>2, <2>3
<1>8. CASE SweepEnd(h)
  <2>1. LocksExclude' BY <1>8 DEF SweepEnd, LocksExclude, TargetLockedBy
  <2>2. RowsExist' BY <1>8 DEF SweepEnd, RowsExist, Pending
  <2>3. DecisionsStand'
    <3>1. Frame(h) BY <1>8 DEF SweepEnd, Frame
    <3>2. UNCHANGED <<envelope, target>> BY <1>8 DEF SweepEnd
    <3>3. Decision(h)' BY <1>8 DEF SweepEnd, DecisionsStand, Decision
    <3> QED BY <3>1, <3>2, <3>3, OthersDecide, PendingSame
  <2> QED BY <2>1, <2>2, <2>3
<1> QED BY <1>1, <1>2, <1>3, <1>4, <1>5, <1>6, <1>7, <1>8

\* They survive a commit: the other handlers have decided on other rows.
LEMMA InvAfter ==
  ASSUME TypeOK, Phases, SendsSerialize, TypeOK', Phases', LocksExclude, RowsExist, DecisionsStand,
         NEW h \in Handlers,
         Commit(h)
           \/ (\E i \in Ids : CleanupMedia(h, i))
           \/ Finish(h)
  PROVE  LocksExclude' /\ RowsExist' /\ DecisionsStand'
<1> USE DEF TypeOK, Phases, db, world, locals, monitor, faults
<1>1. CASE Commit(h)
  <2>1. LocksExclude' BY <1>1 DEF Commit, LocksExclude, TargetLockedBy
  <2>2. \A i \in Ids : i \notin held[h] =>
          i \notin mine[h] /\ i \notin doomed[h] /\ Pending(i)' = Pending(i)
    <3>1. \A i \in Ids : i \notin held[h] => i \notin mine[h] /\ i \notin doomed[h]
      BY <1>1 DEF Commit, DecisionsStand, Decision
    <3> QED BY <3>1, <1>1 DEF Commit, Pending
  <2>3. RowsExist'
    <3>1. \A i \in Ids : envelope'[i] = "unsent" <=> i > seq'
      BY <1>1 DEF Commit, RowsExist
    <3>2. ASSUME NEW g \in Handlers
          PROVE  /\ \A i \in held'[g] : envelope'[i] = "held" /\ (op'[g] = "sweep" => i <= horizon')
                 /\ \A i \in mine'[g] : who'[g] \in Pending(i)'
                 /\ pc'[g] = "sweep" => \A i \in todo'[g] : i <= horizon'
      <4>1. CASE g = h BY <1>1, <4>1 DEF Commit
      <4>2. CASE g # h
        <5>1. \A i \in held[g] : envelope'[i] = envelope[i]
          BY <4>2, <1>1 DEF Commit, LocksExclude
        <5>2. ASSUME NEW i \in mine[g] PROVE who[g] \in Pending(i)'
          <6>1. who[g] \in Pending(i) BY DEF RowsExist
          <6>2. i \notin doomed[h] /\ ~ (i \in mine[h] /\ who[h] = who[g])
            BY <4>2 DEF LocksExclude, TargetLockedBy
          <6>3. envelope'[i] = envelope[i] /\ target'[i][who[g]] = target[i][who[g]]
            BY <6>1, <6>2, <1>1 DEF Commit, Pending
          <6> QED BY <6>1, <6>3 DEF Pending
        <5>3. /\ held'[g] = held[g] /\ mine'[g] = mine[g] /\ todo'[g] = todo[g]
              /\ pc'[g] = pc[g] /\ op' = op /\ who' = who /\ horizon' = horizon
          BY <4>2, <1>1 DEF Commit
        <5> QED BY <5>1, <5>2, <5>3 DEF RowsExist
      <4> QED BY <4>1, <4>2
    <3> QED BY <3>1, <3>2 DEF RowsExist
  <2>4. DecisionsStand'
    <3>1. Frame(h) BY <1>1 DEF Commit, Frame
    <3>2. Decision(h)' BY <1>1 DEF Commit, Decision
    <3>3. \A g \in Handlers \ {h} : \A i \in held[g] : Pending(i)' = Pending(i)
      BY <2>2 DEF LocksExclude
    <3> QED BY <3>1, <3>2, <3>3, OthersDecide
  <2> QED BY <2>1, <2>3, <2>4
<1>2. CASE \E i \in Ids : CleanupMedia(h, i)
  <2> PICK i \in Ids : CleanupMedia(h, i) BY <1>2
  <2>1. LocksExclude' BY DEF CleanupMedia, LocksExclude, TargetLockedBy
  <2>2. RowsExist' BY DEF CleanupMedia, RowsExist, Pending
  <2>3. DecisionsStand'
    <3>1. Frame(h) BY DEF CleanupMedia, Frame
    <3>2. UNCHANGED <<envelope, target>> BY DEF CleanupMedia
    <3>3. Decision(h)' BY DEF CleanupMedia, DecisionsStand, Decision
    <3> QED BY <3>1, <3>2, <3>3, OthersDecide, PendingSame
  <2> QED BY <2>1, <2>2, <2>3
<1>3. CASE Finish(h)
  <2>1. LocksExclude'
    <3>1. UNCHANGED <<mine, held, doomed>> BY <1>3 DEF Finish
    <3>2. \A g \in Handlers : who'[g] = who[g] \/ mine[g] = {} BY <1>3 DEF Finish
    <3>3. SUFFICES ASSUME NEW g \in Handlers, NEW k \in Handlers, g # k
                   PROVE  /\ held[g] \cap held[k] = {}
                          /\ \A i \in mine[g] : ~ TargetLockedBy(k, i, who[g])'
      BY <3>1 DEF LocksExclude
    <3>4. \A i \in mine[g] : ~ TargetLockedBy(k, i, who[g]) BY <3>3 DEF LocksExclude
    <3>5. ASSUME NEW i \in mine[g] PROVE ~ TargetLockedBy(k, i, who[g])'
      BY <3>1, <3>2, <3>4, <3>5 DEF TargetLockedBy
    <3> QED BY <3>3, <3>5 DEF LocksExclude
  <2>2. RowsExist' BY <1>3 DEF Finish, RowsExist, Pending
  <2>3. DecisionsStand'
    <3>1. Frame(h) BY <1>3 DEF Finish, Frame
    <3>2. UNCHANGED <<envelope, target>> BY <1>3 DEF Finish
    <3>3. Decision(h)' BY <1>3 DEF Finish, DecisionsStand, Decision
    <3> QED BY <3>1, <3>2, <3>3, OthersDecide, PendingSame
  <2> QED BY <2>1, <2>2, <2>3
<1> QED BY <1>1, <1>2, <1>3

\* They survive dormancy, reactivation and the clock.
LEMMA InvEnvironment ==
  ASSUME TypeOK, LocksExclude, RowsExist, DecisionsStand,
         \/ \E d \in Devices : MarkDormant(d) \/ Reactivate(d)
         \/ Tick
         \/ UNCHANGED vars
  PROVE  LocksExclude' /\ RowsExist' /\ DecisionsStand'
<1>1. /\ UNCHANGED <<seq, envelope, target, locals>>
      /\ horizon' \in {horizon, horizon + 1}
  BY DEF MarkDormant, Reactivate, Tick, vars, db, world
<1>2. \A i \in Ids : Pending(i)' = Pending(i) BY <1>1 DEF Pending
<1>3. LocksExclude' BY <1>1 DEF locals, LocksExclude, TargetLockedBy
<1>4. RowsExist' BY <1>1, <1>2 DEF locals, RowsExist, TypeOK, Ids
<1>5. DecisionsStand' BY <1>1, <1>2 DEF locals, DecisionsStand, Decision, TypeOK
<1> QED BY <1>3, <1>4, <1>5

\* They survive a rollback, which only gives up locks.
LEMMA InvRollback ==
  ASSUME TypeOK, LocksExclude, RowsExist, DecisionsStand,
         NEW H \in SUBSET Handlers, Rollback(H)
  PROVE  LocksExclude' /\ RowsExist' /\ DecisionsStand'
<1> USE DEF TypeOK
<1>1. UNCHANGED <<seq, envelope, target, horizon>> BY DEF Rollback, db, world
<1>2. \A i \in Ids : Pending(i)' = Pending(i) BY <1>1 DEF Pending
<1>3. ASSUME NEW h \in Handlers
      PROVE  \/ /\ pc'[h] = pc[h] /\ op'[h] = op[h] /\ who'[h] = who[h] /\ todo'[h] = todo[h]
                /\ mine'[h] = mine[h] /\ held'[h] = held[h] /\ doomed'[h] = doomed[h]
             \/ pc'[h] = "idle" /\ mine'[h] = {} /\ held'[h] = {} /\ doomed'[h] = {}
  BY DEF Rollback
<1>4. LocksExclude' BY <1>3 DEF LocksExclude, TargetLockedBy
<1>5. RowsExist' BY <1>1, <1>2, <1>3 DEF RowsExist
<1>6. DecisionsStand'
  <2> SUFFICES ASSUME NEW h \in Handlers PROVE Decision(h)' BY DEF DecisionsStand
  <2>1. CASE pc'[h] = "idle" BY <2>1 DEF Decision
  <2>2. CASE pc'[h] # "idle" BY <2>2, <1>2, <1>3 DEF DecisionsStand, Decision
  <2> QED BY <2>1, <2>2
<1> QED BY <1>4, <1>5, <1>6

\* The inductive invariant survives every step.
LEMMA InvStep ==
  ASSUME TypeOK, Phases, SendsSerialize, LocksExclude, RowsExist, DecisionsStand, [Next]_vars
  PROVE  LocksExclude' /\ RowsExist' /\ DecisionsStand'
<1> USE TypeStep
<1>1. CASE \E h \in Handlers : Begin(h)
  BY <1>1, InvSend, InvAck, InvRevoke DEF Begin
<1>2. CASE \E h \in Handlers : Continue(h)
  BY <1>2, InvPurge, InvSend, InvAck, InvRevoke, InvSweep, InvAfter DEF Continue
<1>3. CASE \E h \in Handlers : SweepBegin(h) BY <1>3, InvSweep
<1>4. CASE \E h \in Handlers : Fail(h) \/ DeadlockAbort(h)
  BY <1>4, InvRollback DEF Fail, DeadlockAbort
<1>5. CASE Exit BY <1>5, InvRollback DEF Exit
<1> QED BY <1>1, <1>2, <1>3, <1>4, <1>5, InvEnvironment DEF Next

-----------------------------------------------------------------------------
(* The tables, and what the contract says of them.                           *)

\* The only steps that change the tables or the clock.
LEMMA TablesChange ==
  ASSUME [Next]_vars,
         ~ \E h \in Handlers : SendCommit(h) \/ Commit(h), ~ Tick
  PROVE  UNCHANGED <<envelope, target, horizon>>
<1> USE DEF db, world
<1>1. CASE \E h \in Handlers : Begin(h)
  BY <1>1 DEF Begin, SendBegin, AckBegin, RevokeBegin
<1>2. CASE \E h \in Handlers : Continue(h)
  BY <1>2 DEF Continue, SendSelect, AckUpdate, AckNoop, AckCheck, RevokeScan,
    RevokeDeleted, RevokePurged, SweepSelect, SweepDeleted, SweepCascaded,
    CheckCompliance, SweepEnd, Finish, PurgeLock, PurgeCount, RevokeRow, SweepRow,
    SweepCascade, CleanupMedia
<1>3. CASE \E h \in Handlers : SweepBegin(h) \/ Fail(h) \/ DeadlockAbort(h)
  BY <1>3 DEF SweepBegin, Fail, DeadlockAbort, Rollback
<1>4. CASE Exit BY <1>4 DEF Exit, Rollback
<1>5. CASE \E d \in Devices : MarkDormant(d) \/ Reactivate(d)
  BY <1>5 DEF MarkDormant, Reactivate
<1>6. CASE UNCHANGED vars BY <1>6 DEF vars
<1> QED BY <1>1, <1>2, <1>3, <1>4, <1>5, <1>6 DEF Next

\* A send stores its message with its audience, like the contract's Post.
LEMMA SendPosts ==
  ASSUME TypeOK, Phases, SendsSerialize, RowsExist, NEW h \in Handlers, SendCommit(h)
  PROVE  /\ Contract!Post(seq + 1, fan[h])
         /\ fan[h] \subseteq Devices /\ seq + 1 \in Ids
<1> USE DEF TypeOK, Phases
<1>0. op[h] = "send" /\ pc[h] = "insert" BY DEF SendCommit
<1>1. seq + 1 \in Ids
  <2>1. seq < MaxSeq /\ seq \in Nat BY <1>0 DEF SendsSerialize, Ids
  <2> QED BY <2>1, BoundsAssumption DEF Ids
<1>2. envelope[seq + 1] = "unsent" /\ \A j \in Ids : j < seq + 1 => envelope[j] # "unsent"
  BY <1>1 DEF RowsExist, Ids
<1>3. envelope' = [envelope EXCEPT ![seq + 1] = "held"] /\ UNCHANGED horizon
  BY DEF SendCommit
<1>4. \A i \in Ids : Pending(i)' = IF i = seq + 1 THEN fan[h] ELSE Pending(i)
  BY <1>1 DEF SendCommit, Pending
<1>5. [i \in Ids |-> Pending(i)]' = [[i \in Ids |-> Pending(i)] EXCEPT ![seq + 1] = fan[h]]
  BY <1>4
<1> QED BY <1>1, <1>2, <1>3, <1>5 DEF Contract!Post

\* A commit settles targets for one device and purges exactly the envelopes whose
\* last target that was, or deletes envelopes that have expired.
LEMMA CommitSettles ==
  ASSUME TypeOK, Phases, RowsExist, DecisionsStand, NEW h \in Handlers, Commit(h)
  PROVE  \/ op[h] # "sweep" /\ Contract!Settle(who[h], mine[h]) /\ who[h] \in Devices
         \/ op[h] = "sweep" /\ Contract!Expire(doomed[h])
<1> USE DEF TypeOK, Phases
<1>1. UNCHANGED horizon BY DEF Commit, world
<1>2. CASE op[h] = "sweep"
  <2>1. \A i \in doomed[h] : envelope[i] = "held" /\ i <= horizon BY <1>2 DEF RowsExist
  <2>2. envelope' = [i \in Ids |-> IF i \in doomed[h] THEN "purged" ELSE envelope[i]]
    BY DEF Commit
  <2>3. \A i \in Ids : Pending(i)' = IF i \in doomed[h] THEN {} ELSE Pending(i)
    BY <1>2, <2>2 DEF Commit, Pending
  <2> QED BY <1>1, <1>2, <2>1, <2>2, <2>3 DEF Contract!Expire
<1>3. CASE op[h] # "sweep"
  <2>1. \A i \in mine[h] : who[h] \in Pending(i) BY DEF RowsExist
  <2>2. who[h] \in Devices BY <1>3 DEF Commit
  <2>3. \A i \in Ids : i \in doomed[h] <=> i \in mine[h] /\ Pending(i) = {who[h]}
    BY <1>3 DEF Commit, DecisionsStand, Decision
  <2>4. envelope' = [i \in Ids |->
          IF i \in mine[h] /\ Pending(i) = {who[h]} THEN "purged" ELSE envelope[i]]
    BY <2>3 DEF Commit
  <2>5. ASSUME NEW i \in Ids
        PROVE  Pending(i)' = IF i \in mine[h] THEN Pending(i) \ {who[h]} ELSE Pending(i)
    <3>1. \A d \in Devices : target'[i][d] =
            IF i \in mine[h] /\ d = who[h]
              THEN IF op[h] = "ack" THEN "delivered" ELSE "removed" ELSE target[i][d]
      BY DEF Commit
    <3>2. CASE i \in doomed[h]
      <4>1. Pending(i)' = {} BY <3>2 DEF Commit, Pending
      <4> QED BY <4>1, <2>3, <3>2
    <3>3. CASE i \notin doomed[h]
      <4>1. envelope'[i] = envelope[i] BY <3>3 DEF Commit
      <4> QED BY <4>1, <3>1 DEF Pending
    <3> QED BY <3>2, <3>3
  <2> QED BY <1>1, <1>3, <2>1, <2>2, <2>4, <2>5 DEF Contract!Settle
<1> QED BY <1>2, <1>3

\* Neither property is disturbed by a step: a commit deletes exactly what it settled.
LEMMA SettledStep ==
  ASSUME TypeOK, Phases, SendsSerialize, RowsExist, DecisionsStand,
         NoSettledEnvelope, PurgeOnlyWhenSettled, [Next]_vars
  PROVE  NoSettledEnvelope' /\ PurgeOnlyWhenSettled'
<1> USE DEF TypeOK
<1>1. CASE \E h \in Handlers : SendCommit(h)
  <2> PICK h \in Handlers : SendCommit(h) BY <1>1
  <2>1. seq + 1 \in Ids BY SendPosts
  <2>2. envelope' = [envelope EXCEPT ![seq + 1] = "held"] /\ horizon' = horizon
    BY DEF SendCommit
  <2>3. \A i \in Ids \ {seq + 1} : target'[i] = target[i] BY DEF SendCommit
  <2>4. \A d \in Devices : target'[seq + 1][d] = IF d \in fan[h] THEN "pending" ELSE "none"
    BY <2>1 DEF SendCommit
  <2>5. NoSettledEnvelope' BY <2>1, <2>2, <2>3, <2>4 DEF NoSettledEnvelope, Pending
  <2>6. PurgeOnlyWhenSettled' BY <2>1, <2>2, <2>3 DEF PurgeOnlyWhenSettled
  <2> QED BY <2>5, <2>6
<1>2. CASE \E h \in Handlers : Commit(h)
  <2> PICK h \in Handlers : Commit(h) BY <1>2
  <2>1. horizon' = horizon BY DEF Commit, world
  <2>2. \A i \in Ids : envelope'[i] = IF i \in doomed[h] THEN "purged" ELSE envelope[i]
    BY DEF Commit
  <2>3. \A i \in Ids, d \in Devices : target'[i][d] =
          IF i \in mine[h] /\ d = who[h]
            THEN IF op[h] = "ack" THEN "delivered" ELSE "removed" ELSE target[i][d]
    BY DEF Commit
  <2>4. \A i \in mine[h] : who[h] \in Pending(i) BY DEF RowsExist
  <2>5. \A i \in mine[h] : i \in doomed[h] <=> Pending(i) = {who[h]}
    BY DEF Commit, Phases, DecisionsStand, Decision
  <2>6. ASSUME NEW i \in Ids, envelope'[i] = "held", \E d \in Devices : target'[i][d] # "none"
        PROVE  Pending(i)' # {}
    <3>1. i \notin doomed[h] /\ envelope[i] = "held" BY <2>2, <2>6
    <3>2. CASE i \in mine[h]
      <4>1. PICK d \in Pending(i) : d # who[h] BY <2>4, <2>5, <3>1, <3>2
      <4>2. d \in Pending(i)' BY <4>1, <2>3, <2>6 DEF Pending
      <4> QED BY <4>2
    <3>3. CASE i \notin mine[h]
      <4>1. \A d \in Devices : target'[i][d] = target[i][d] BY <3>3, <2>3
      <4>2. PICK d \in Pending(i) : TRUE BY <4>1, <2>6, <3>1 DEF NoSettledEnvelope
      <4> QED BY <4>1, <4>2, <2>6 DEF Pending
    <3> QED BY <3>2, <3>3
  <2>7. ASSUME NEW i \in Ids, envelope'[i] = "purged", i > horizon, NEW d \in Devices
        PROVE  target'[i][d] # "pending"
    <3>1. CASE i \in doomed[h]
      <4>0. i \in held[h] BY <3>1 DEF Phases
      <4>1. op[h] # "sweep"
        <5> SUFFICES ASSUME op[h] = "sweep" PROVE FALSE OBVIOUS
        <5>1. i <= horizon BY <4>0 DEF RowsExist
        <5> QED BY <5>1, <2>1, <2>7 DEF Ids
      <4>2. i \in mine[h] /\ envelope[i] = "held" BY <4>0, <4>1 DEF Phases, RowsExist
      <4>3. Pending(i) = {who[h]} BY <3>1, <4>2, <2>5
      <4>4. CASE d = who[h] BY <4>4, <4>2, <2>3
      <4>5. CASE d # who[h]
        <5>1. target'[i][d] = target[i][d] BY <4>5, <2>3
        <5>2. d \notin Pending(i) BY <4>5, <4>3
        <5> QED BY <5>1, <5>2, <4>2 DEF Pending
      <4> QED BY <4>4, <4>5
    <3>2. CASE i \notin doomed[h]
      <4>1. envelope[i] = "purged" BY <3>2, <2>2, <2>7
      <4>2. i \notin mine[h] BY <4>1, <2>4 DEF Pending
      <4> QED BY <4>1, <4>2, <2>3, <2>7 DEF PurgeOnlyWhenSettled
    <3> QED BY <3>1, <3>2
  <2>8. NoSettledEnvelope' BY <2>6 DEF NoSettledEnvelope
  <2>9. PurgeOnlyWhenSettled' BY <2>1, <2>7 DEF PurgeOnlyWhenSettled
  <2> QED BY <2>8, <2>9
<1>3. CASE Tick
  <2>1. envelope' = envelope /\ target' = target /\ horizon' = horizon + 1 BY <1>3 DEF Tick, db
  <2>2. \A i \in Ids : i > horizon' => i > horizon BY <2>1 DEF Ids
  <2> QED BY <2>1, <2>2 DEF NoSettledEnvelope, PurgeOnlyWhenSettled, Pending
<1>4. CASE UNCHANGED <<envelope, target, horizon>>
  BY <1>4 DEF NoSettledEnvelope, PurgeOnlyWhenSettled, Pending
<1> QED BY <1>1, <1>2, <1>3, <1>4, TablesChange

-----------------------------------------------------------------------------
(* The theorems.                                                             *)

\* The inductive invariant holds initially.
LEMMA InitIInv ==
  ASSUME Init
  PROVE  IInv
<1>1. SendsSerialize /\ LocksExclude /\ DecisionsStand
  BY DEF Init, SendsSerialize, LocksExclude, TargetLockedBy, DecisionsStand, Decision
<1>2. RowsExist BY BoundsAssumption DEF Init, RowsExist, Ids
<1>3. NoSettledEnvelope /\ PurgeOnlyWhenSettled
  BY DEF Init, NoSettledEnvelope, PurgeOnlyWhenSettled
<1> QED BY <1>1, <1>2, <1>3, InitPhases DEF IInv

\* One transaction at a time decides the fate of an envelope: the invariant that
\* makes FOR UPDATE, the sequence row and the statement order enough.
THEOREM Inductive == Spec => []IInv
<1>1. Init => TypeOK /\ IInv BY InitTypeOK, InitIInv
<1>2. TypeOK /\ IInv /\ [Next]_vars => TypeOK' /\ IInv'
  BY TypeStep, InvStep, SettledStep DEF IInv
<1> QED BY <1>1, <1>2, PTL DEF Spec

\* purgeEnvelopeIfComplete never leaves a row behind whose targets are all settled,
\* whatever acks, revocations and sweeps run at once.
THEOREM NothingSettledStays == Spec => []NoSettledEnvelope
<1>1. IInv => NoSettledEnvelope BY DEF IInv
<1> QED BY <1>1, Inductive, PTL

\* Nothing but the expiry deletes an envelope some device still waits for.
THEOREM NothingPendingGoes == Spec => []PurgeOnlyWhenSettled
<1>1. IInv => PurgeOnlyWhenSettled BY DEF IInv
<1> QED BY <1>1, Inductive, PTL

\* A commit is one step of the contract, and every other statement none.
LEMMA RefinesStep ==
  ASSUME TypeOK, IInv, [Next]_vars
  PROVE  [Contract!Next]_(Contract!vars)
<1> USE DEF IInv
<1>1. CASE \E h \in Handlers : SendCommit(h)
  BY <1>1, SendPosts DEF Contract!Next
<1>2. CASE \E h \in Handlers : Commit(h)
  <2> PICK h \in Handlers : Commit(h) BY <1>2
  <2>1. mine[h] \in SUBSET Ids /\ doomed[h] \in SUBSET Ids BY DEF TypeOK
  <2> QED BY <2>1, CommitSettles DEF Contract!Next
<1>3. CASE Tick
  <2>1. horizon \in Nat /\ seq \in Nat /\ horizon < seq /\ seq <= MaxSeq
    BY <1>3, BoundsAssumption DEF Tick, TypeOK
  <2>2. horizon + 1 \in Ids /\ horizon + 1 <= seq BY <2>1, BoundsAssumption DEF Ids
  <2>3. envelope[horizon + 1] # "unsent" BY <2>1, <2>2 DEF RowsExist
  <2>4. UNCHANGED <<envelope, target>> /\ horizon' = horizon + 1 BY <1>3 DEF Tick, db
  <2>5. [i \in Ids |-> Pending(i)]' = [i \in Ids |-> Pending(i)] BY <2>4 DEF Pending
  <2> QED BY <2>2, <2>3, <2>4, <2>5 DEF Contract!Next, Contract!Tick
<1>4. CASE UNCHANGED <<envelope, target, horizon>>
  <2>1. [i \in Ids |-> Pending(i)]' = [i \in Ids |-> Pending(i)] BY <1>4 DEF Pending
  <2> QED BY <1>4, <2>1 DEF Contract!vars
<1> QED BY <1>1, <1>2, <1>3, <1>4, TablesChange

\* The statements of all transactions, however they interleave, implement the
\* contract.
THEOREM Refines == Spec => ContractKept
<1>1. Init => Contract!Init
  BY DEF Init, Contract!Init, Pending
<1>2. TypeOK /\ IInv /\ [Next]_vars => [Contract!Next]_(Contract!vars) BY RefinesStep
<1> QED BY <1>1, <1>2, TypeCorrect, Inductive, PTL DEF Spec, ContractKept, Contract!Spec

-----------------------------------------------------------------------------
(* What follows a commit: the attachments it deletes, the ticks it          *)
(* announces, and what a sweep leaves behind.                               *)

USE DEF db, world, locals, monitor, faults

-----------------------------------------------------------------------------
(* Media and ticks                                                          *)

\* The other handlers stand still.
Still(h) == \A g \in Handlers \ {h} :
  /\ pc'[g] = pc[g] /\ op'[g] = op[g] /\ who'[g] = who[g]
  /\ todo'[g] = todo[g] /\ mine'[g] = mine[g] /\ tick'[g] = tick[g]

\* A statement that is neither a commit nor what follows one.
Quiet(h) ==
  /\ UNCHANGED <<envelope, author, target, objects, ticks, tick, exiting, failures>>
  /\ Still(h)
  /\ pc[h] \notin {"commit", "cleanup"} /\ pc'[h] # "cleanup"
  /\ pc'[h] = "commit" => op'[h] # "ack"

LEMMA EffectsQuiet ==
  ASSUME TypeOK, Effects, NEW h \in Handlers, Quiet(h) PROVE Effects'
<1> USE DEF Quiet, Still, Effects
<1>1. CleanupFollows' BY DEF CleanupFollows
<1>2. \A i \in Ids : AwaitedBy(i)' = AwaitedBy(i) BY DEF AwaitedBy, Recipient
<1>3. TicksChecked'
  <2>1. tick[h] = {} /\ tick'[h] = {} BY DEF TicksChecked, Checked
  <2>2. Checked(h)' BY <2>1 DEF Checked
  <2>3. \A g \in Handlers \ {h} : Checked(g)'
    BY <1>2 DEF TicksChecked, Checked, TypeOK
  <2> QED BY <2>2, <2>3 DEF TicksChecked
<1>4. MediaOutlivesEnvelope' BY DEF MediaOutlivesEnvelope
<1>5. NoOrphanedMedia' BY DEF NoOrphanedMedia
<1>6. TickIsExact' BY DEF TickIsExact, Recipient
<1> QED BY <1>1, <1>3, <1>4, <1>5, <1>6

LEMMA EffectsCheck ==
  ASSUME TypeOK, IInv, Effects, NEW h \in Handlers, AckCheck(h) PROVE Effects'
<1> USE DEF Effects
<1>1. /\ UNCHANGED <<envelope, author, target, objects, ticks, failures, exiting, todo, mine, who, op>>
      /\ pc[h] = "purge" /\ op[h] = "ack" /\ pc'[h] = "commit" /\ todo[h] = {}
      /\ \A g \in Handlers \ {h} : pc'[g] = pc[g] /\ tick'[g] = tick[g]
      /\ tick'[h] = {i \in mine[h] : Delivered(h, i)}
  BY DEF AckCheck, TypeOK
<1>2. CleanupFollows' BY <1>1 DEF CleanupFollows
<1>3. \A i \in Ids : AwaitedBy(i)' = AwaitedBy(i) BY <1>1 DEF AwaitedBy, Recipient
<1>4. \A i \in mine[h] :
        /\ i \in Ids /\ envelope[i] = "held" /\ who[h] \in Pending(i)
        /\ i \in doomed[h] <=> Pending(i) = {who[h]}
  <2> TAKE i \in mine[h]
  <2>1. i \in Ids BY DEF TypeOK
  <2>2. who[h] \in Pending(i) BY DEF IInv, RowsExist
  <2>3. envelope[i] = "held" BY <2>2 DEF Pending
  <2>4. i \in mine[h] \ todo[h] BY <1>1
  <2>5. Decision(h) BY DEF IInv, DecisionsStand
  <2>6. i \in doomed[h] <=> Pending(i) = {who[h]} BY <1>1, <2>4, <2>5 DEF Decision
  <2> QED BY <2>1, <2>2, <2>3, <2>6
<1>5. \A i \in mine[h] : Delivered(h, i) <=> AwaitedBy(i) \subseteq {who[h]}
  <2> TAKE i \in mine[h]
  <2>1. AwaitedBy(i) = {d \in Pending(i) : Recipient(i, d)}
    BY <1>4 DEF AwaitedBy, Pending
  <2>2. PendingSeenBy(h, i) = Pending(i) \ {who[h]} BY DEF PendingSeenBy
  <2> QED BY <1>4, <2>1, <2>2 DEF Delivered
<1>6. TicksChecked'
  <2>1. Checked(h)' BY <1>1, <1>3, <1>4, <1>5 DEF Checked
  <2>2. \A g \in Handlers \ {h} : Checked(g)'
    BY <1>1, <1>3 DEF TicksChecked, Checked, TypeOK
  <2> QED BY <1>1, <2>1, <2>2 DEF TicksChecked
<1>7. MediaOutlivesEnvelope' BY <1>1 DEF MediaOutlivesEnvelope
<1>8. NoOrphanedMedia' BY <1>1 DEF NoOrphanedMedia
<1>9. TickIsExact' BY <1>1 DEF TickIsExact, Recipient
<1> QED BY <1>2, <1>6, <1>7, <1>8, <1>9

\* A send's row is new to every handler and every tick.
LEMMA EffectsSend ==
  ASSUME TypeOK, IInv, Effects, NEW h \in Handlers, SendCommit(h) PROVE Effects'
<1> USE DEF Effects
<1> DEFINE n == seq + 1
<1>1. n \in Ids /\ envelope[n] = "unsent"
  <2>1. pc[h] = "insert" BY DEF SendCommit
  <2>2. op[h] = "send" BY <2>1 DEF IInv, Phases
  <2>3. seq < MaxSeq BY <2>2 DEF IInv, SendsSerialize
  <2>4. n \in Ids /\ n > seq BY <2>3, BoundsAssumption DEF TypeOK, Ids
  <2> QED BY <2>4 DEF IInv, RowsExist
<1>2. /\ envelope' = [envelope EXCEPT ![n] = "held"]
      /\ \A i \in Ids \ {n} : author'[i] = author[i] /\ target'[i] = target[i]
      /\ target'[n] = [d \in Devices |-> IF d \in fan[h] THEN "pending" ELSE "none"]
      /\ objects' = objects \cup ({n} \cap Media)
      /\ UNCHANGED <<ticks, todo, mine, tick, failures, exiting>>
      /\ op[h] = "send" /\ pc'[h] = "idle" /\ pc[h] = "insert"
      /\ \A g \in Handlers \ {h} : pc'[g] = pc[g] /\ op'[g] = op[g] /\ who'[g] = who[g]
  BY <1>1 DEF SendCommit, TypeOK, IInv, Phases
<1> HIDE DEF n
<1>3. \A i \in Ids \ {n} : AwaitedBy(i)' = AwaitedBy(i) /\ envelope'[i] = envelope[i]
  BY <1>2 DEF AwaitedBy, Recipient, TypeOK
<1>4. CleanupFollows'
  <2>1. ASSUME NEW g \in Handlers, pc'[g] = "cleanup", NEW i \in todo'[g]
        PROVE  envelope'[i] = "purged"
    <3>1. g # h /\ pc[g] = "cleanup" /\ i \in todo[g] BY <1>2, <2>1
    <3>2. envelope[i] = "purged" BY <3>1 DEF CleanupFollows
    <3>3. i \in Ids \ {n} BY <1>1, <3>1, <3>2 DEF TypeOK
    <3> QED BY <1>3, <3>2, <3>3
  <2> QED BY <1>2, <2>1 DEF CleanupFollows
<1>5. TicksChecked'
  <2>1. tick[h] = {} BY <1>2 DEF TicksChecked, Checked
  <2>2. Checked(h)' BY <1>2, <2>1 DEF Checked
  <2>3. ASSUME NEW g \in Handlers \ {h} PROVE Checked(g)'
    <3>1. \A i \in tick[g] : i \in Ids \ {n} BY <1>1 DEF TicksChecked, Checked, TypeOK
    <3>2. \A i \in mine[g] : i \in Ids \ {n}
      BY <1>1 DEF IInv, RowsExist, Pending, TypeOK
    <3>3. Checked(g) BY DEF TicksChecked
    <3> QED BY <1>2, <1>3, <3>1, <3>2, <3>3 DEF Checked
  <2>4. \A i \in ticks : i \in Ids \ {n} BY <1>1 DEF TicksChecked, TypeOK
  <2>5. \A i \in ticks' : envelope'[i] # "unsent" BY <1>2, <1>3, <2>4 DEF TicksChecked
  <2> QED BY <2>2, <2>3, <2>5 DEF TicksChecked
<1>6. MediaOutlivesEnvelope'
  BY <1>1, <1>2, <1>3, MediaAssumption DEF MediaOutlivesEnvelope
<1>7. NoOrphanedMedia'
  <2> SUFFICES ASSUME NEW i \in Media, envelope'[i] = "purged", failures' = 0, i \in objects'
               PROVE  \E g \in Handlers : pc'[g] = "cleanup" /\ i \in todo'[g]
    BY DEF NoOrphanedMedia
  <2>1. i \in Ids \ {n} BY <1>1, <1>2, MediaAssumption DEF TypeOK
  <2>2. envelope[i] = "purged" /\ i \in objects /\ failures = 0 BY <1>2, <1>3, <2>1
  <2>3. PICK g \in Handlers : pc[g] = "cleanup" /\ i \in todo[g]
    BY <2>2 DEF NoOrphanedMedia
  <2> QED BY <1>2, <2>3
<1>8. TickIsExact'
  <2> SUFFICES ASSUME NEW i \in Ids
               PROVE  LET recipients == {d \in Devices : Recipient(i, d)' /\ target'[i][d] # "none"} IN
                      /\ i \in ticks' => \A d \in recipients : target'[i][d] # "pending"
                      /\ envelope'[i] # "unsent" /\ failures' = 0
                           /\ recipients # {} /\ (\A d \in recipients : target'[i][d] = "delivered")
                         => i \in ticks' \/ \E g \in Handlers : pc'[g] = "cleanup" /\ i \in tick'[g]
    BY DEF TickIsExact, Recipient
  <2>1. CASE i = n
    <3>1. i \notin ticks' BY <1>1, <1>2, <2>1 DEF TicksChecked
    <3>2. \A d \in Devices : target'[i][d] # "delivered" BY <1>2, <2>1
    <3> QED BY <3>1, <3>2
  <2>2. CASE i # n
    <3>1. author'[i] = author[i] /\ target'[i] = target[i] /\ envelope'[i] = envelope[i]
      BY <1>2, <1>3, <2>2
    <3>2. \A g \in Handlers : pc[g] = "cleanup" => pc'[g] = "cleanup" BY <1>2
    <3> QED BY <1>2, <3>1, <3>2 DEF TickIsExact, Recipient
  <2> QED BY <2>1, <2>2
<1> QED BY <1>4, <1>5, <1>6, <1>7, <1>8

\* A commit deletes rows whose objects are its own to delete, and its last
\* acknowledgement is the one that ticks.
LEMMA EffectsCommit ==
  ASSUME TypeOK, IInv, Effects, NEW h \in Handlers, Commit(h) PROVE Effects'
<1> USE DEF Effects
<1>1. /\ pc[h] = "commit" /\ pc'[h] = "cleanup"
      /\ todo'[h] = doomed[h] \cap Media /\ mine'[h] = {}
      /\ \A g \in Handlers \ {h} : pc'[g] = pc[g] /\ todo'[g] = todo[g] /\ mine'[g] = mine[g]
      /\ UNCHANGED <<author, objects, ticks, op, who, tick, failures, exiting>>
  BY DEF Commit, MediaPurged, TypeOK
<1>2. \A i \in Ids : envelope'[i] = IF i \in doomed[h] THEN "purged" ELSE envelope[i]
  BY DEF Commit
<1>3. \A i \in Ids, d \in Devices :
        target'[i][d] = IF i \in mine[h] /\ d = who[h]
                          THEN IF op[h] = "ack" THEN "delivered" ELSE "removed"
                          ELSE target[i][d]
  BY DEF Commit
<1>4. \A i \in mine[h] : i \in Ids /\ who[h] \in Devices /\ target[i][who[h]] = "pending"
  BY DEF IInv, RowsExist, Pending, TypeOK
<1>5. \A i \in doomed[h] : i \in Ids /\ envelope[i] = "held" BY DEF IInv, Phases, RowsExist, TypeOK
<1>6. \A i \in Ids : envelope'[i] = "held" => envelope[i] = "held" BY <1>2
<1>7. \A i \in Ids : envelope[i] = "purged" => envelope'[i] = "purged" BY <1>2
<1>8. \A i \in Ids : envelope[i] # "unsent" <=> envelope'[i] # "unsent" BY <1>2, <1>5
<1>9. \A i \in Ids : AwaitedBy(i)' \subseteq AwaitedBy(i)
  BY <1>1, <1>3 DEF AwaitedBy, Recipient
<1>10. \A i \in Ids \ mine[h] : AwaitedBy(i)' = AwaitedBy(i)
  BY <1>1, <1>3 DEF AwaitedBy, Recipient
<1>11. \A i \in mine[h] : who[h] \notin AwaitedBy(i)'
  BY <1>3, <1>4 DEF AwaitedBy
<1>12. CleanupFollows'
  <2>1. ASSUME NEW g \in Handlers, pc'[g] = "cleanup", NEW i \in todo'[g]
        PROVE  envelope'[i] = "purged"
    <3>1. CASE g = h BY <1>1, <1>2, <1>5, <3>1
    <3>2. CASE g # h
      <4>1. pc[g] = "cleanup" /\ i \in todo[g] BY <1>1, <2>1, <3>2
      <4>2. envelope[i] = "purged" /\ i \in Ids BY <4>1 DEF CleanupFollows, TypeOK
      <4> QED BY <1>7, <4>2
    <3> QED BY <3>1, <3>2
  <2> QED BY <1>1, <2>1 DEF CleanupFollows
<1>13. TicksChecked'
  <2>1. Checked(h)'
    <3>1. ASSUME NEW i \in tick[h] PROVE i \in Ids /\ AwaitedBy(i)' = {} /\ op[h] = "ack"
      <4>1. op[h] = "ack" /\ i \in mine[h] /\ AwaitedBy(i) \subseteq {who[h]}
        BY <1>1 DEF TicksChecked, Checked
      <4>2. i \in Ids BY <1>4, <4>1
      <4> QED BY <1>9, <1>11, <4>1, <4>2
    <3>2. \A i \in tick[h] : envelope'[i] # "unsent"
      BY <1>8, <3>1 DEF TicksChecked, Checked
    <3>3. tick'[h] = tick[h] /\ op'[h] = op[h] BY <1>1
    <3> QED BY <1>1, <3>1, <3>2, <3>3 DEF Checked
  <2>2. ASSUME NEW g \in Handlers \ {h} PROVE Checked(g)'
    <3>1. Checked(g) BY DEF TicksChecked
    <3>2. pc'[g] = pc[g] /\ op'[g] = op[g] /\ who'[g] = who[g] /\ tick'[g] = tick[g] /\ mine'[g] = mine[g]
      BY <1>1
    <3>3. \A i \in tick[g] : i \in Ids BY DEF TypeOK
    <3>4. \A i \in tick[g] : envelope'[i] # "unsent" BY <1>8, <3>1, <3>3 DEF Checked
    <3>5. ASSUME pc[g] = "cleanup" PROVE \A i \in tick[g] : AwaitedBy(i)' = {}
      BY <1>9, <3>1, <3>3, <3>5 DEF Checked
    <3>6. ASSUME pc[g] = "commit", op[g] = "ack", NEW i \in mine[g]
          PROVE  AwaitedBy(i)' = AwaitedBy(i)
      <4>1. i \in Ids BY DEF TypeOK
      <4>2. todo[g] = {} /\ todo[h] = {} BY <1>1, <3>6 DEF IInv, Phases
      <4>3. Decision(g) /\ Decision(h) BY DEF IInv, DecisionsStand
      <4>4. i \in held[g] BY <3>6, <4>2, <4>3 DEF Decision
      <4>5. i \notin held[h] BY <4>4 DEF IInv, LocksExclude
      <4>6. CASE op[h] = "sweep"
        <5>1. mine[h] = {} BY <4>6 DEF IInv, Phases
        <5> QED BY <1>10, <4>1, <5>1
      <4>7. CASE op[h] # "sweep"
        <5>1. i \notin mine[h] BY <1>1, <4>2, <4>3, <4>5, <4>7 DEF Decision
        <5> QED BY <1>10, <4>1, <5>1
      <4> QED BY <4>6, <4>7
    <3> QED BY <3>1, <3>2, <3>4, <3>5, <3>6 DEF Checked
  <2>3. \A i \in ticks' : envelope'[i] # "unsent" BY <1>1, <1>8 DEF TicksChecked, TypeOK
  <2> QED BY <2>1, <2>2, <2>3 DEF TicksChecked
<1>14. MediaOutlivesEnvelope' BY <1>1, <1>6, MediaAssumption DEF MediaOutlivesEnvelope
<1>15. NoOrphanedMedia'
  <2> SUFFICES ASSUME NEW i \in Media, envelope'[i] = "purged", failures' = 0, i \in objects'
               PROVE  \E g \in Handlers : pc'[g] = "cleanup" /\ i \in todo'[g]
    BY DEF NoOrphanedMedia
  <2>1. CASE i \in doomed[h] BY <1>1, <2>1
  <2>2. CASE i \notin doomed[h]
    <3>1. envelope[i] = "purged" BY <1>2, <2>2, MediaAssumption
    <3>2. PICK g \in Handlers : pc[g] = "cleanup" /\ i \in todo[g]
      BY <1>1, <3>1 DEF NoOrphanedMedia
    <3> QED BY <1>1, <3>2
  <2> QED BY <2>1, <2>2
<1>16. TickIsExact'
  <2> SUFFICES ASSUME NEW i \in Ids
               PROVE  LET recipients == {d \in Devices : Recipient(i, d)' /\ target'[i][d] # "none"} IN
                      /\ i \in ticks' => \A d \in recipients : target'[i][d] # "pending"
                      /\ envelope'[i] # "unsent" /\ failures' = 0
                           /\ recipients # {} /\ (\A d \in recipients : target'[i][d] = "delivered")
                         => i \in ticks' \/ \E g \in Handlers : pc'[g] = "cleanup" /\ i \in tick'[g]
    BY DEF TickIsExact, Recipient
  <2> DEFINE R == {d \in Devices : Recipient(i, d) /\ target[i][d] # "none"}
  <2>1. R = {d \in Devices : Recipient(i, d)' /\ target'[i][d] # "none"}
    BY <1>1, <1>3, <1>4 DEF Recipient
  <2>2. ASSUME i \in ticks' PROVE \A d \in R : target'[i][d] # "pending"
    <3>1. i \in ticks BY <1>1, <2>2
    <3>2. \A d \in R : target[i][d] # "pending" BY <3>1 DEF TickIsExact
    <3> QED BY <1>3, <3>2
  <2>3. ASSUME envelope'[i] # "unsent", failures' = 0, R # {}, \A d \in R : target'[i][d] = "delivered"
        PROVE  i \in ticks' \/ \E g \in Handlers : pc'[g] = "cleanup" /\ i \in tick'[g]
    <3>1. CASE \A d \in R : target[i][d] = "delivered"
      <4>1. envelope[i] # "unsent" /\ failures = 0 BY <1>1, <1>8, <2>3
      <4>2. i \in ticks \/ \E g \in Handlers : pc[g] = "cleanup" /\ i \in tick[g]
        BY <2>3, <3>1, <4>1 DEF TickIsExact
      <4> QED BY <1>1, <4>2
    <3>2. CASE \E d \in R : target[i][d] # "delivered"
      <4> PICK d \in R : target[i][d] # "delivered" BY <3>2
      <4>1. d = who[h] /\ i \in mine[h] /\ op[h] = "ack" BY <1>3, <2>3
      <4>2. AwaitedBy(i) \subseteq {who[h]}
        <5> SUFFICES ASSUME NEW e \in AwaitedBy(i), e # who[h] PROVE FALSE OBVIOUS
        <5>1. e \in R /\ target[i][e] = "pending" BY DEF AwaitedBy
        <5> QED BY <1>3, <2>3, <5>1
      <4>3. i \in tick[h] BY <1>1, <4>1, <4>2 DEF TicksChecked, Checked
      <4> QED BY <1>1, <4>3
    <3> QED BY <3>1, <3>2
  <2> HIDE DEF R
  <2> QED BY <2>1, <2>2, <2>3
<1> QED BY <1>12, <1>13, <1>14, <1>15, <1>16

\* An object is deleted only for a row that is gone, or its deletion has failed.
LEMMA EffectsCleanup ==
  ASSUME TypeOK, Effects, NEW h \in Handlers, NEW j \in Ids, CleanupMedia(h, j) PROVE Effects'
<1> USE DEF Effects
<1>1. /\ pc[h] = "cleanup" /\ j \in todo[h] /\ todo'[h] = todo[h] \ {j}
      /\ \A g \in Handlers \ {h} : todo'[g] = todo[g]
      /\ UNCHANGED <<envelope, author, target, ticks, pc, op, who, mine, tick, exiting>>
  BY DEF CleanupMedia, TypeOK
<1>2. objects' \subseteq objects /\ \A i \in objects : i # j => i \in objects'
  BY DEF CleanupMedia
<1>3. failures' = 0 => failures = 0 /\ j \notin objects' BY DEF CleanupMedia, TypeOK
<1>4. envelope[j] = "purged" BY <1>1 DEF CleanupFollows
<1>5. CleanupFollows'
  <2>1. \A g \in Handlers : todo'[g] \subseteq todo[g] BY <1>1
  <2> QED BY <1>1, <1>3, <2>1 DEF CleanupFollows
<1>6. TicksChecked' BY <1>1 DEF TicksChecked, Checked, AwaitedBy, Recipient
<1>7. MediaOutlivesEnvelope' BY <1>1, <1>2, <1>4 DEF MediaOutlivesEnvelope
<1>8. NoOrphanedMedia'
  <2> SUFFICES ASSUME NEW i \in Media, envelope[i] = "purged", failures' = 0, i \in objects'
               PROVE  \E g \in Handlers : pc[g] = "cleanup" /\ i \in todo'[g]
    BY <1>1 DEF NoOrphanedMedia
  <2>1. failures = 0 /\ i # j /\ i \in objects BY <1>2, <1>3
  <2>2. PICK g \in Handlers : pc[g] = "cleanup" /\ i \in todo[g] BY <2>1 DEF NoOrphanedMedia
  <2> QED BY <1>1, <2>1, <2>2
<1>9. TickIsExact' BY <1>1, <1>3 DEF TickIsExact, Recipient
<1> QED BY <1>5, <1>6, <1>7, <1>8, <1>9

\* The tick goes out after the commit, for what has reached everybody.
LEMMA EffectsFinish ==
  ASSUME TypeOK, Effects, NEW h \in Handlers, Finish(h) PROVE Effects'
<1> USE DEF Effects
<1>1. /\ pc[h] = "cleanup" /\ todo[h] = {} /\ tick'[h] = {} /\ ticks' = ticks \cup tick[h]
      /\ pc'[h] \notin {"commit", "cleanup"}
      /\ \A g \in Handlers \ {h} :
           pc'[g] = pc[g] /\ op'[g] = op[g] /\ who'[g] = who[g] /\ tick'[g] = tick[g]
      /\ UNCHANGED <<envelope, author, target, objects, todo, mine, failures, exiting>>
  BY DEF Finish, AfterBatch, TypeOK
<1>2. \A i \in Ids : AwaitedBy(i)' = AwaitedBy(i) BY <1>1 DEF AwaitedBy, Recipient
<1>3. CleanupFollows' BY <1>1 DEF CleanupFollows
<1>4. TicksChecked'
  <2>1. Checked(h)' BY <1>1 DEF Checked
  <2>2. \A g \in Handlers \ {h} : Checked(g)' BY <1>1, <1>2 DEF TicksChecked, Checked, TypeOK
  <2>3. \A i \in ticks' : envelope'[i] # "unsent" BY <1>1 DEF TicksChecked, Checked
  <2> QED BY <2>1, <2>2, <2>3 DEF TicksChecked
<1>5. MediaOutlivesEnvelope' BY <1>1 DEF MediaOutlivesEnvelope
<1>6. NoOrphanedMedia'
  <2> SUFFICES ASSUME NEW i \in Media, envelope[i] = "purged", failures = 0, i \in objects
               PROVE  \E g \in Handlers : pc'[g] = "cleanup" /\ i \in todo[g]
    BY <1>1 DEF NoOrphanedMedia
  <2>1. PICK g \in Handlers : pc[g] = "cleanup" /\ i \in todo[g] BY DEF NoOrphanedMedia
  <2> QED BY <1>1, <2>1
<1>7. TickIsExact'
  <2> SUFFICES ASSUME NEW i \in Ids
               PROVE  LET recipients == {d \in Devices : Recipient(i, d) /\ target[i][d] # "none"} IN
                      /\ i \in ticks' => \A d \in recipients : target[i][d] # "pending"
                      /\ envelope[i] # "unsent" /\ failures = 0
                           /\ recipients # {} /\ (\A d \in recipients : target[i][d] = "delivered")
                         => i \in ticks' \/ \E g \in Handlers : pc'[g] = "cleanup" /\ i \in tick'[g]
    BY <1>1 DEF TickIsExact, Recipient
  <2> DEFINE R == {d \in Devices : Recipient(i, d) /\ target[i][d] # "none"}
  <2>0. R = {d \in Devices : Recipient(i, d) /\ target[i][d] # "none"} OBVIOUS
  <2>1. ASSUME i \in ticks' PROVE \A d \in R : target[i][d] # "pending"
    <3>1. CASE i \in ticks BY <3>1 DEF TickIsExact
    <3>2. CASE i \in tick[h]
      <4>1. AwaitedBy(i) = {} BY <1>1, <3>2 DEF TicksChecked, Checked
      <4> QED BY <4>1 DEF AwaitedBy
    <3> QED BY <1>1, <2>1, <3>1, <3>2
  <2>2. ASSUME envelope[i] # "unsent", failures = 0, R # {}, \A d \in R : target[i][d] = "delivered"
        PROVE  i \in ticks' \/ \E g \in Handlers : pc'[g] = "cleanup" /\ i \in tick'[g]
    <3>1. i \in ticks \/ \E g \in Handlers : pc[g] = "cleanup" /\ i \in tick[g]
      BY <2>2 DEF TickIsExact
    <3> QED BY <1>1, <3>1
  <2> HIDE DEF R
  <2> QED BY <2>0, <2>1, <2>2
<1> QED BY <1>3, <1>4, <1>5, <1>6, <1>7

\* Whoever is rolled back loses what it was to delete or announce, but only when
\* the whole process went down.
LEMMA EffectsRollback ==
  ASSUME TypeOK, Effects, NEW H \in SUBSET Handlers, Rollback(H),
         failures' = 0 => failures = 0 /\ \A h \in H : pc[h] # "cleanup",
         exiting' => failures' # 0
  PROVE  Effects'
<1> USE DEF Effects
<1>1. /\ \A h \in H : pc'[h] = "idle" /\ tick'[h] = {} /\ todo'[h] = {} /\ mine'[h] = {}
      /\ \A g \in Handlers \ H :
           /\ pc'[g] = pc[g] /\ op'[g] = op[g] /\ who'[g] = who[g]
           /\ tick'[g] = tick[g] /\ todo'[g] = todo[g] /\ mine'[g] = mine[g]
      /\ UNCHANGED <<envelope, author, target, objects, ticks>>
  BY DEF Rollback
<1>2. \A i \in Ids : AwaitedBy(i)' = AwaitedBy(i) BY <1>1 DEF AwaitedBy, Recipient
<1>3. CleanupFollows' BY <1>1 DEF CleanupFollows
<1>4. TicksChecked'
  <2>1. \A h \in H : Checked(h)' BY <1>1 DEF Checked
  <2>2. \A g \in Handlers \ H : Checked(g)' BY <1>1, <1>2 DEF TicksChecked, Checked, TypeOK
  <2> QED BY <1>1, <2>1, <2>2 DEF TicksChecked
<1>5. MediaOutlivesEnvelope' BY <1>1 DEF MediaOutlivesEnvelope
<1>6. NoOrphanedMedia'
  <2> SUFFICES ASSUME NEW i \in Media, envelope[i] = "purged", failures' = 0, i \in objects
               PROVE  \E g \in Handlers : pc'[g] = "cleanup" /\ i \in todo'[g]
    BY <1>1 DEF NoOrphanedMedia
  <2>1. PICK g \in Handlers : pc[g] = "cleanup" /\ i \in todo[g] BY DEF NoOrphanedMedia
  <2> QED BY <1>1, <2>1
<1>7. \A i \in Ids : (\E g \in Handlers : pc[g] = "cleanup" /\ i \in tick[g]) /\ failures' = 0
                     => \E g \in Handlers : pc'[g] = "cleanup" /\ i \in tick'[g]
  BY <1>1
<1>8. TickIsExact' BY <1>1, <1>7 DEF TickIsExact, Recipient
<1> QED BY <1>3, <1>4, <1>5, <1>6, <1>8

LEMMA EffectsStep ==
  ASSUME TypeOK, IInv, Effects, [Next]_vars PROVE Effects'
<1> USE DEF vars
<1>1. CASE \E h \in Handlers : Begin(h) \/ SweepBegin(h)
  <2> PICK h \in Handlers : Begin(h) \/ SweepBegin(h) BY <1>1
  <2>1. CASE SweepBegin(h)
    <3>1. Quiet(h) BY <2>1 DEF SweepBegin, Quiet, Still, TypeOK
    <3> QED BY <3>1, EffectsQuiet
  <2>2. CASE \E d \in Devices : SendBegin(h, d)
    <3>1. Quiet(h) BY <2>2 DEF SendBegin, Quiet, Still, TypeOK
    <3> QED BY <3>1, EffectsQuiet
  <2>3. CASE \E d \in Devices : RevokeBegin(h, d)
    <3>1. Quiet(h) BY <2>3 DEF RevokeBegin, Quiet, Still, TypeOK
    <3> QED BY <3>1, EffectsQuiet
  <2>4. CASE \E d \in Devices, i \in Ids : AckBegin(h, d, i)
    <3>1. Quiet(h) BY <2>4 DEF AckBegin, Quiet, Still, TypeOK
    <3> QED BY <3>1, EffectsQuiet
  <2> QED BY <2>1, <2>2, <2>3, <2>4 DEF Begin
<1>2. CASE \E h \in Handlers : Continue(h)
  <2> PICK h \in Handlers : Continue(h) BY <1>2
  <2>1. CASE SendSelect(h) \/ AckUpdate(h) \/ AckNoop(h)
    <3>1. Quiet(h) BY <2>1 DEF SendSelect, AckUpdate, AckNoop, Quiet, Still, TypeOK
    <3> QED BY <3>1, EffectsQuiet
  <2>2. CASE RevokeScan(h) \/ RevokeDeleted(h) \/ RevokePurged(h)
    <3>1. Quiet(h) BY <2>2 DEF RevokeScan, RevokeDeleted, RevokePurged, Quiet, Still, TypeOK
    <3> QED BY <3>1, EffectsQuiet
  <2>3. CASE SweepSelect(h) \/ SweepDeleted(h) \/ SweepCascaded(h)
    <3>0. pc[h] = "cascade" => op[h] # "ack" BY DEF IInv, Phases
    <3>1. Quiet(h) BY <2>3, <3>0 DEF SweepSelect, SweepDeleted, SweepCascaded, Quiet, Still, TypeOK
    <3> QED BY <3>1, EffectsQuiet
  <2>4. CASE CheckCompliance(h) \/ SweepEnd(h)
    <3>1. Quiet(h) BY <2>4 DEF CheckCompliance, SweepEnd, Quiet, Still, TypeOK
    <3> QED BY <3>1, EffectsQuiet
  <2>5. CASE \E i \in Ids : PurgeLock(h, i) \/ PurgeCount(h, i) \/ RevokeRow(h, i)
    <3>1. Quiet(h) BY <2>5 DEF PurgeLock, PurgeCount, RevokeRow, Quiet, Still, TypeOK
    <3> QED BY <3>1, EffectsQuiet
  <2>6. CASE \E i \in Ids : SweepRow(h, i) \/ SweepCascade(h, i)
    <3>1. Quiet(h) BY <2>6 DEF SweepRow, SweepCascade, Quiet, Still, TypeOK
    <3> QED BY <3>1, EffectsQuiet
  <2>7. CASE SendCommit(h) BY <2>7, EffectsSend
  <2>8. CASE AckCheck(h) BY <2>8, EffectsCheck
  <2>9. CASE Commit(h) BY <2>9, EffectsCommit
  <2>10. CASE Finish(h) BY <2>10, EffectsFinish
  <2>11. CASE \E i \in Ids : CleanupMedia(h, i) BY <2>11, EffectsCleanup
  <2> QED BY <2>1, <2>2, <2>3, <2>4, <2>5, <2>6, <2>7, <2>8, <2>9, <2>10, <2>11 DEF Continue
<1>3. CASE \E h \in Handlers : Fail(h)
  <2> PICK h \in Handlers : Fail(h) BY <1>3
  <2>1. pc[h] # "cleanup" /\ failures' # 0 BY DEF Fail, InTransaction, TypeOK
  <2> QED BY <2>1, EffectsRollback DEF Fail
<1>4. CASE \E h \in Handlers : DeadlockAbort(h)
  <2> PICK h \in Handlers : DeadlockAbort(h) BY <1>4
  <2>1. pc[h] # "cleanup" BY DEF DeadlockAbort, Deadlocked, WaitsFor
  <2>2. failures' # 0 \/ UNCHANGED <<exiting, failures>> BY DEF DeadlockAbort, TypeOK
  <2>3. exiting' => failures' # 0 BY <2>2 DEF Effects, CleanupFollows
  <2> QED BY <2>1, <2>2, <2>3, EffectsRollback DEF DeadlockAbort
<1>5. CASE Exit
  <2>1. failures' # 0 /\ ~ exiting' BY <1>5 DEF Exit, Effects, CleanupFollows, TypeOK
  <2> QED BY <1>5, <2>1, EffectsRollback DEF Exit
<1>6. CASE UNCHANGED vars \/ Tick \/ \E d \in Devices : MarkDormant(d) \/ Reactivate(d)
  <2>1. /\ UNCHANGED <<envelope, author, target, objects, ticks>>
        /\ UNCHANGED <<pc, op, who, todo, mine, tick, exiting, failures>>
    BY <1>6 DEF Tick, MarkDormant, Reactivate
  <2> QED BY <2>1 DEF Effects, CleanupFollows, TicksChecked, Checked, AwaitedBy, Recipient,
            MediaOutlivesEnvelope, NoOrphanedMedia, TickIsExact
<1> QED BY <1>1, <1>2, <1>3, <1>4, <1>5, <1>6 DEF Next

-----------------------------------------------------------------------------
(* Sweeps                                                                   *)

\* A step outside any sweep, which brings back no row a sweep has looked for.
Aside ==
  /\ UNCHANGED <<sweepSeen, sweepFull, overdue>>
  /\ \A g \in Handlers :
       \/ op[g] # "sweep" /\ op'[g] # "sweep"
       \/ op'[g] = op[g] /\ pc'[g] = pc[g] /\ todo'[g] = todo[g]
            /\ held'[g] = held[g] /\ doomed'[g] = doomed[g]
  /\ \A i \in Ids : envelope'[i] = "held" => envelope[i] = "held" \/ i > sweepSeen

LEMMA SweepsAside ==
  ASSUME TypeOK, Sweeps, Aside PROVE Sweeps'
<1> USE DEF Aside, Sweeps
<1>1. \A g \in Handlers : op'[g] = "sweep" <=> op[g] = "sweep" OBVIOUS
<1>2. ASSUME NEW g \in Handlers PROVE Swept(g)'
  <2> SUFFICES ASSUME op'[g] = "sweep" PROVE Swept(g)' BY DEF Swept
  <2>1. op[g] = "sweep" /\ Swept(g) BY <1>1 DEF BatchesCover
  <2>2. pc'[g] = pc[g] /\ todo'[g] = todo[g] /\ held'[g] = held[g] /\ doomed'[g] = doomed[g]
    BY <2>1
  <2>3. \A i \in Ids : InBatch(g, i)' = InBatch(g, i) BY <2>2 DEF InBatch
  <2>4. \A k \in Handlers : op'[k] = "sweep" => k = g BY <1>1, <2>1 DEF Swept
  <2>5. pc'[g] # "expired" /\ ~ sweepFull' =>
          \A i \in Ids : envelope'[i] = "held" /\ i <= sweepSeen' => InBatch(g, i)'
    <3> SUFFICES ASSUME pc'[g] # "expired", ~ sweepFull',
                        NEW i \in Ids, envelope'[i] = "held", i <= sweepSeen'
                 PROVE  InBatch(g, i)'
      OBVIOUS
    <3>1. envelope[i] = "held" BY DEF TypeOK, Ids
    <3> QED BY <2>1, <2>2, <2>3, <3>1 DEF Swept
  <2> QED BY <2>1, <2>2, <2>4, <2>5 DEF Swept
<1>3. (\A h \in Handlers : op'[h] # "sweep") => overdue' = {} BY <1>1 DEF BatchesCover
<1>4. SweepLeavesNothing' BY DEF SweepLeavesNothing
<1> QED BY <1>2, <1>3, <1>4 DEF BatchesCover

\* A step of the one sweep.
Alone(h) == op'[h] = "sweep" /\ \A g \in Handlers \ {h} : op'[g] # "sweep"

LEMMA SweepsOwn ==
  ASSUME NEW h \in Handlers, Alone(h), Swept(h)', SweepLeavesNothing'
  PROVE  Sweeps'
BY DEF Alone, Swept, Sweeps, BatchesCover

\* A sweep that starts or looks for a batch takes in every row past its expiry, or
\* a full batch of them.
LEMMA SweepsLook ==
  ASSUME TypeOK, Sweeps, Phases, NEW h \in Handlers, SweepBegin(h) \/ SweepSelect(h)
  PROVE  Sweeps'
<1> USE DEF Sweeps
<1>1. CASE SweepBegin(h)
  <2>1. /\ op'[h] = "sweep" /\ pc'[h] = "expired"
        /\ \A g \in Handlers \ {h} : op'[g] # "sweep"
        /\ UNCHANGED overdue /\ \A g \in Handlers : op[g] # "sweep"
    BY <1>1 DEF SweepBegin, TypeOK
  <2>2. overdue' = {} BY <2>1 DEF BatchesCover
  <2> QED BY <2>1, <2>2, SweepsOwn DEF Alone, Swept, SweepLeavesNothing
<1>2. CASE SweepSelect(h)
  <2>0. pc[h] = "expired" BY <1>2 DEF SweepSelect
  <2>1. op[h] = "sweep" BY <2>0 DEF Phases, TypeOK
  <2>2. Swept(h) BY DEF BatchesCover
  <2>3. Alone(h) BY <1>2, <2>1, <2>2 DEF SweepSelect, Alone, Swept
  <2>4. overdue' = {} BY <1>2, <2>0, <2>1, <2>2 DEF SweepSelect, Swept
  <2> PICK batch \in SUBSET Expired :
         /\ batch # Expired => Cardinality(batch) = BatchSize
         /\ todo' = [todo EXCEPT ![h] = batch]
         /\ sweepFull' = (Cardinality(batch) = BatchSize)
         /\ pc' = [pc EXCEPT ![h] = IF batch = {} THEN "monitor" ELSE "sweep"]
    BY <1>2 DEF SweepSelect
  <2>5. /\ pc'[h] = IF batch = {} THEN "monitor" ELSE "sweep"
        /\ todo'[h] = batch
        /\ envelope' = envelope /\ sweepSeen' = horizon
    BY <1>2 DEF SweepSelect, TypeOK
  <2>6. batch = {} => ~ sweepFull' BY FS_EmptySet, BoundsAssumption
  <2>7. ~ sweepFull' => \A i \in Ids : envelope'[i] = "held" /\ i <= sweepSeen' => i \in batch
    BY <2>5 DEF Expired
  <2>8. Swept(h)' BY <2>3, <2>4, <2>5, <2>6, <2>7 DEF Swept, InBatch, Alone
  <2> QED BY <2>3, <2>4, <2>8, SweepsOwn DEF SweepLeavesNothing
<1> QED BY <1>1, <1>2

\* A row of the batch moves on through the statement's phases and is not lost.
LEMMA SweepsBatch ==
  ASSUME TypeOK, Sweeps, Phases, NEW h \in Handlers,
         \/ \E i \in Ids : SweepRow(h, i) \/ SweepCascade(h, i)
         \/ SweepDeleted(h) \/ SweepCascaded(h)
  PROVE  Sweeps'
<1> USE DEF Sweeps
<1>1. /\ pc[h] \in {"sweep", "cascade"} /\ pc'[h] \in {"sweep", "cascade", "commit"}
      /\ UNCHANGED <<op, envelope, sweepSeen, sweepFull, overdue>>
  BY DEF SweepRow, SweepCascade, SweepDeleted, SweepCascaded, TypeOK
<1>2. op[h] = "sweep" BY <1>1 DEF Phases, TypeOK
<1>3. Swept(h) BY DEF BatchesCover
<1>4. Alone(h) BY <1>1, <1>2, <1>3 DEF Alone, Swept
<1>5. overdue' = {} BY <1>1, <1>2, <1>3 DEF Swept
<1>6. ASSUME NEW j \in Ids, envelope[j] = "held", InBatch(h, j) PROVE InBatch(h, j)'
  <2>1. CASE \E i \in Ids : SweepRow(h, i)
    <3> PICK i \in Ids : SweepRow(h, i) BY <2>1
    <3>1. /\ pc[h] = "sweep" /\ pc'[h] = "sweep" /\ todo'[h] = todo[h] \ {i}
          /\ held'[h] = IF envelope[i] = "held" THEN held[h] \cup {i} ELSE held[h]
      BY DEF SweepRow, TypeOK
    <3> QED BY <1>6, <3>1 DEF InBatch
  <2>2. CASE \E i \in Ids : SweepCascade(h, i)
    <3> PICK i \in Ids : SweepCascade(h, i) BY <2>2
    <3>1. /\ pc[h] = "cascade" /\ pc'[h] = "cascade" /\ todo'[h] = todo[h] \ {i}
          /\ doomed'[h] = doomed[h] \cup {i}
      BY DEF SweepCascade, TypeOK
    <3> QED BY <1>6, <3>1 DEF InBatch
  <2>3. CASE SweepDeleted(h)
    <3>1. /\ pc[h] = "sweep" /\ todo[h] = {} /\ pc'[h] = "cascade" /\ todo'[h] = held[h]
      BY <2>3 DEF SweepDeleted, TypeOK
    <3> QED BY <1>6, <3>1 DEF InBatch
  <2>4. CASE SweepCascaded(h)
    <3>1. /\ pc[h] = "cascade" /\ todo[h] = {} /\ pc'[h] = "commit" /\ doomed' = doomed
      BY <2>4 DEF SweepCascaded, TypeOK
    <3> QED BY <1>6, <3>1 DEF InBatch
  <2> QED BY <2>1, <2>2, <2>3, <2>4
<1>7. Swept(h)' BY <1>1, <1>2, <1>3, <1>4, <1>5, <1>6 DEF Swept, Alone
<1> QED BY <1>4, <1>5, <1>7, SweepsOwn DEF SweepLeavesNothing

\* After its last batch there is no row left that the sweep has looked for.
LEMMA SweepsEnd ==
  ASSUME TypeOK, Sweeps, Phases, NEW h \in Handlers, op[h] = "sweep",
         \/ Commit(h) \/ Finish(h) \/ CheckCompliance(h) \/ SweepEnd(h)
         \/ \E i \in Ids : CleanupMedia(h, i)
  PROVE  Sweeps'
<1> USE DEF Sweeps
<1>1. Swept(h) BY DEF BatchesCover
<1>2. \A g \in Handlers \ {h} : op[g] # "sweep" BY <1>1 DEF Swept
<1>3. CASE Commit(h)
  <2>1. /\ pc[h] = "commit" /\ pc'[h] = "cleanup" /\ UNCHANGED <<op, sweepSeen, sweepFull, overdue>>
        /\ \A i \in Ids : envelope'[i] = "held" => envelope[i] = "held" /\ i \notin doomed[h]
    BY <1>3 DEF Commit, TypeOK
  <2>2. overdue' = {} BY <1>1, <2>1 DEF Swept
  <2>3. ~ sweepFull' => \A i \in Ids : ~ (envelope'[i] = "held" /\ i <= sweepSeen')
    BY <1>1, <2>1 DEF Swept, InBatch
  <2>4. Alone(h) BY <1>2, <2>1 DEF Alone
  <2>5. Swept(h)' BY <2>1, <2>2, <2>3, <2>4 DEF Swept, Alone
  <2> QED BY <2>2, <2>4, <2>5, SweepsOwn DEF SweepLeavesNothing
<1>4. CASE \E i \in Ids : CleanupMedia(h, i)
  <2>1. /\ pc[h] = "cleanup" /\ pc' = pc /\ UNCHANGED <<op, envelope, sweepSeen, sweepFull, overdue>>
    BY <1>4 DEF CleanupMedia
  <2>2. overdue' = {} BY <1>1, <2>1 DEF Swept
  <2>3. Alone(h) BY <1>2, <2>1 DEF Alone
  <2>4. Swept(h)' BY <1>1, <2>1, <2>2, <2>3 DEF Swept, Alone, InBatch
  <2> QED BY <2>2, <2>3, <2>4, SweepsOwn DEF SweepLeavesNothing
<1>5. CASE Finish(h)
  <2>1. /\ pc[h] = "cleanup" /\ pc'[h] = (IF sweepFull THEN "expired" ELSE "monitor")
        /\ op' = op /\ UNCHANGED <<envelope, sweepSeen, sweepFull, overdue>>
    BY <1>5 DEF Finish, AfterBatch, TypeOK
  <2>2. overdue' = {} BY <1>1, <2>1 DEF Swept
  <2>3. Alone(h) BY <1>2, <2>1 DEF Alone
  <2>4. Swept(h)' BY <1>1, <2>1, <2>2, <2>3 DEF Swept, Alone, InBatch
  <2> QED BY <2>2, <2>3, <2>4, SweepsOwn DEF SweepLeavesNothing
<1>6. CASE CheckCompliance(h)
  <2>1. /\ pc[h] = "monitor" /\ pc'[h] = "report" /\ overdue' = Expired
        /\ UNCHANGED <<op, envelope, sweepSeen, sweepFull>>
    BY <1>6 DEF CheckCompliance, TypeOK
  <2>2. ~ sweepFull /\ \A i \in Ids : ~ (envelope[i] = "held" /\ i <= sweepSeen)
    BY <1>1, <2>1 DEF Swept, InBatch
  <2>3. Alone(h) BY <1>2, <2>1 DEF Alone
  <2>4. Swept(h)' BY <2>1, <2>2, <2>3 DEF Swept, Alone
  <2>5. SweepLeavesNothing' BY <2>1, <2>2 DEF SweepLeavesNothing, Expired, TypeOK, Ids
  <2> QED BY <2>3, <2>4, <2>5, SweepsOwn
<1>7. CASE SweepEnd(h)
  <2>1. overdue' = {} /\ op'[h] = "none" /\ \A g \in Handlers \ {h} : op'[g] = op[g]
    BY <1>7 DEF SweepEnd, TypeOK
  <2> QED BY <1>2, <2>1 DEF BatchesCover, Swept, SweepLeavesNothing
<1> QED BY <1>3, <1>4, <1>5, <1>6, <1>7

\* A sweep that is rolled back has found nothing.
LEMMA SweepsRollback ==
  ASSUME TypeOK, Sweeps, NEW H \in SUBSET Handlers, Rollback(H) PROVE Sweeps'
<1> USE DEF Sweeps
<1>1. CASE \E h \in H : op[h] = "sweep"
  <2> PICK h \in H : op[h] = "sweep" BY <1>1
  <2>1. overdue' = {} BY DEF Rollback
  <2>2. \A g \in Handlers : op[g] = "sweep" => g = h BY DEF BatchesCover, Swept
  <2>3. \A g \in Handlers : op'[g] # "sweep" BY <2>2 DEF Rollback
  <2> QED BY <2>1, <2>3 DEF BatchesCover, Swept, SweepLeavesNothing
<1>2. CASE ~ \E h \in H : op[h] = "sweep"
  <2>1. Aside BY <1>2 DEF Rollback, Aside
  <2> QED BY <2>1, SweepsAside
<1> QED BY <1>1, <1>2

LEMMA SweepsStep ==
  ASSUME TypeOK, IInv, Sweeps, [Next]_vars PROVE Sweeps'
<1> USE DEF vars
<1>0. Phases BY DEF IInv
<1>1. CASE \E h \in Handlers : Begin(h)
  <2> PICK h \in Handlers : Begin(h) BY <1>1
  <2>0. op[h] # "sweep"
    <3>1. pc[h] = "idle" BY DEF Begin, SendBegin, RevokeBegin, AckBegin
    <3> QED BY <1>0, <3>1 DEF Phases
  <2>1. CASE \E d \in Devices : SendBegin(h, d) \/ RevokeBegin(h, d)
    <3>1. Aside BY <2>0, <2>1 DEF SendBegin, RevokeBegin, Aside, TypeOK
    <3> QED BY <3>1, SweepsAside
  <2>2. CASE \E d \in Devices, i \in Ids : AckBegin(h, d, i)
    <3>1. Aside BY <2>0, <2>2 DEF AckBegin, Aside, TypeOK
    <3> QED BY <3>1, SweepsAside
  <2> QED BY <2>1, <2>2 DEF Begin
<1>2. CASE \E h \in Handlers : SweepBegin(h) BY <1>0, <1>2, SweepsLook
<1>3. CASE \E h \in Handlers : Continue(h)
  <2> PICK h \in Handlers : Continue(h) BY <1>3
  <2>1. CASE SendSelect(h) \/ AckUpdate(h) \/ AckNoop(h) \/ AckCheck(h)
    <3>0. op[h] # "sweep" BY <1>0, <2>1 DEF Phases, SendSelect, AckUpdate, AckNoop, AckCheck
    <3>1. Aside BY <2>1, <3>0 DEF SendSelect, AckUpdate, AckNoop, AckCheck, Aside, TypeOK
    <3> QED BY <3>1, SweepsAside
  <2>2. CASE RevokeScan(h) \/ RevokeDeleted(h) \/ RevokePurged(h)
    <3>0. op[h] # "sweep" BY <1>0, <2>2 DEF Phases, RevokeScan, RevokeDeleted, RevokePurged
    <3>1. Aside BY <2>2, <3>0 DEF RevokeScan, RevokeDeleted, RevokePurged, Aside, TypeOK
    <3> QED BY <3>1, SweepsAside
  <2>3. CASE \E i \in Ids : PurgeLock(h, i) \/ PurgeCount(h, i) \/ RevokeRow(h, i)
    <3>0. op[h] # "sweep" BY <1>0, <2>3 DEF Phases, PurgeLock, PurgeCount, RevokeRow
    <3>1. Aside BY <2>3, <3>0 DEF PurgeLock, PurgeCount, RevokeRow, Aside, TypeOK
    <3> QED BY <3>1, SweepsAside
  <2>4. CASE SendCommit(h)
    <3>0. pc[h] = "insert" BY <2>4 DEF SendCommit
    <3>1. op[h] = "send" BY <1>0, <3>0 DEF Phases
    <3>2. seq + 1 > sweepSeen BY BoundsAssumption DEF TypeOK
    <3>3. \A i \in Ids : envelope'[i] = "held" => envelope[i] = "held" \/ i > sweepSeen
      BY <2>4, <3>2 DEF SendCommit, TypeOK
    <3>4. /\ op'[h] = "none"
          /\ \A g \in Handlers \ {h} : op'[g] = op[g] /\ pc'[g] = pc[g]
          /\ UNCHANGED <<todo, held, doomed, sweepSeen, sweepFull, overdue>>
      BY <2>4 DEF SendCommit, TypeOK
    <3>5. Aside BY <3>1, <3>3, <3>4 DEF Aside
    <3> QED BY <3>5, SweepsAside
  <2>5. CASE SweepSelect(h) BY <1>0, <2>5, SweepsLook
  <2>6. CASE \/ \E i \in Ids : SweepRow(h, i) \/ SweepCascade(h, i)
             \/ SweepDeleted(h) \/ SweepCascaded(h)
    BY <1>0, <2>6, SweepsBatch
  <2>7. CASE CheckCompliance(h) \/ SweepEnd(h)
    <3>1. op[h] = "sweep"
      <4>1. pc[h] \in {"monitor", "report"} BY <2>7 DEF CheckCompliance, SweepEnd
      <4> QED BY <1>0, <4>1 DEF Phases, TypeOK
    <3> QED BY <1>0, <2>7, <3>1, SweepsEnd
  <2>8. CASE Commit(h) \/ Finish(h) \/ \E i \in Ids : CleanupMedia(h, i)
    <3>1. CASE op[h] = "sweep" BY <1>0, <2>8, <3>1, SweepsEnd
    <3>2. CASE op[h] # "sweep"
      <4>1. CASE Commit(h)
        <5>1. Aside BY <3>2, <4>1 DEF Commit, Aside, TypeOK
        <5> QED BY <5>1, SweepsAside
      <4>2. CASE Finish(h)
        <5>1. Aside BY <3>2, <4>2 DEF Finish, Aside, TypeOK
        <5> QED BY <5>1, SweepsAside
      <4>3. CASE \E i \in Ids : CleanupMedia(h, i)
        <5>1. Aside BY <3>2, <4>3 DEF CleanupMedia, Aside, TypeOK
        <5> QED BY <5>1, SweepsAside
      <4> QED BY <2>8, <4>1, <4>2, <4>3
    <3> QED BY <3>1, <3>2
  <2> QED BY <2>1, <2>2, <2>3, <2>4, <2>5, <2>6, <2>7, <2>8 DEF Continue
<1>4. CASE \E h \in Handlers : Fail(h) \/ DeadlockAbort(h)
  BY <1>4, SweepsRollback DEF Fail, DeadlockAbort
<1>5. CASE Exit BY <1>5, SweepsRollback DEF Exit
<1>6. CASE UNCHANGED vars \/ Tick \/ \E d \in Devices : MarkDormant(d) \/ Reactivate(d)
  <2>1. Aside BY <1>6 DEF Tick, MarkDormant, Reactivate, Aside
  <2> QED BY <2>1, SweepsAside
<1> QED BY <1>1, <1>2, <1>3, <1>4, <1>5, <1>6 DEF Next

-----------------------------------------------------------------------------
(* The theorems                                                             *)

LEMMA InitEffects == Init => Effects /\ Sweeps
<1> SUFFICES ASSUME Init PROVE Effects /\ Sweeps OBVIOUS
<1> USE DEF Init
<1>1. CleanupFollows /\ TicksChecked BY DEF CleanupFollows, TicksChecked, Checked
<1>2. MediaOutlivesEnvelope /\ NoOrphanedMedia
  BY MediaAssumption DEF MediaOutlivesEnvelope, NoOrphanedMedia
<1>3. TickIsExact BY DEF TickIsExact
<1>4. BatchesCover BY DEF BatchesCover, Swept
<1>5. SweepLeavesNothing BY DEF SweepLeavesNothing
<1> QED BY <1>1, <1>2, <1>3, <1>4, <1>5 DEF Effects, Sweeps

\* What the checks of an ack and the batches of a sweep have established stays true
\* until the commit, in every interleaving of the handlers.
THEOREM EffectsHold == Spec => [](Effects /\ Sweeps)
<1>1. TypeOK /\ IInv /\ Effects /\ Sweeps /\ [Next]_vars => (Effects /\ Sweeps)'
  BY EffectsStep, SweepsStep
<1> QED BY <1>1, InitEffects, TypeCorrect, Inductive, PTL DEF Spec

\* An attachment is in R2 for as long as a device can still drain its envelope:
\* no handler, sweep or failure deletes the object before the row.
THEOREM MediaStays == Spec => []MediaOutlivesEnvelope
<1>1. Effects => MediaOutlivesEnvelope BY DEF Effects
<1> QED BY <1>1, EffectsHold, PTL

\* Unless something failed, no attachment outlives its envelope with nobody left
\* to delete it.
THEOREM MediaGoes == Spec => []NoOrphanedMedia
<1>1. Effects => NoOrphanedMedia BY DEF Effects
<1> QED BY <1>1, EffectsHold, PTL

\* envelope:delivered is announced only when no recipient's device still waits and, unless
\* something failed, whenever all of them have acked, however the acks interleave.
THEOREM TicksAreExact == Spec => []TickIsExact
<1>1. Effects => TickIsExact BY DEF Effects
<1> QED BY <1>1, EffectsHold, PTL

\* Whatever the batch size, a sweep leaves nothing for the compliance check to
\* report that had expired when it looked.
THEOREM SweepsLeaveNothing == Spec => []SweepLeavesNothing
<1>1. Sweeps => SweepLeavesNothing BY DEF Sweeps
<1> QED BY <1>1, EffectsHold, PTL
=============================================================================
