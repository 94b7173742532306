----------------------------- MODULE LocalStore -----------------------------
(***************************************************************************)
(* One device's SQLite store (packages/local-store) for one conversation:  *)
(* the sync cursor, the timeline with its markers, and the outbox.  Every  *)
(* operator is one transaction of the repository; the component has no     *)
(* behaviour of its own, Sync calls it.                                    *)
(*                                                                         *)
(* An envelope is identified by its sequence number.  A timeline entry     *)
(* covers the numbers from .. to: one for a message, the purged range for  *)
(* a gap, none for the other markers.                                      *)
(***************************************************************************)
EXTENDS Naturals, Sequences, Functions

CONSTANTS
  MaxSeq,     \* bound: how many envelopes the conversation sees
  MaxDrafts   \* bound: how many messages this device composes

ASSUME StoreBounds == MaxSeq \in Nat /\ MaxDrafts \in Nat

Ids == 1 .. MaxSeq
Drafts == 1 .. MaxDrafts    \* client ids, in the order they were composed

VARIABLES
  cursor,     \* conversation_cursors.last_seen_seq, 0 while there is no row
  timeline,   \* timeline_entries, by local id
  outbox      \* outbox.status; "none" before, "sent" after the row exists

store == <<cursor, timeline, outbox>>

Message(i) == [kind |-> "message", from |-> i, to |-> i]
Gap(i, j) == [kind |-> "gap", from |-> i, to |-> j]
Marker(kind) == [kind |-> kind, from |-> 1, to |-> 0]

Entries ==
  {Message(i) : i \in Ids} \cup {Gap(i, j) : i, j \in Ids}
    \cup {Marker("history_start"), Marker("dormancy_return")}

StoreInit ==
  /\ cursor = 0 /\ timeline = <<>>
  /\ outbox = [c \in Drafts |-> "none"]

-----------------------------------------------------------------------------
(* classifyAndAdvanceCursor                                                 *)

\* Fault: the boundary is off by one, a redelivery of the latest is not known.
IsDuplicateStrict(i) == i < cursor
IsDuplicate(i) == i <= cursor

\* Fault: a single missing number is taken for the next one.
MarkersSlack(i) ==
  IF cursor = 0 THEN <<Marker("history_start")>>
  ELSE IF i > cursor + 2 THEN <<Gap(cursor + 1, i - 1)>> ELSE <<>>

\* What the classification of a number above the cursor puts before the message.
Markers(i) ==
  IF cursor = 0 THEN <<Marker("history_start")>>
  ELSE IF i > cursor + 1 THEN <<Gap(cursor + 1, i - 1)>> ELSE <<>>

\* Classify, advance, append.
Advance(i) ==
  /\ cursor' = i
  /\ timeline' = Append(timeline \o Markers(i), Message(i))

-----------------------------------------------------------------------------
\* insertIncomingEnvelope: a duplicate changes nothing.
InsertIncoming(i) ==
  /\ IF IsDuplicate(i) THEN UNCHANGED <<cursor, timeline>> ELSE Advance(i)
  /\ UNCHANGED outbox

\* insertDormancyReturnMarkers: only for a conversation that has a cursor.
InsertDormancyReturn ==
  /\ timeline' = IF cursor = 0 THEN timeline ELSE Append(timeline, Marker("dormancy_return"))
  /\ UNCHANGED <<cursor, outbox>>

\* appendOutboxEntry, setOutboxEntryStatus
SetStatus(c, status) ==
  /\ outbox' = [outbox EXCEPT ![c] = status]
  /\ UNCHANGED <<cursor, timeline>>

\* reconcileOutboxEntry: the row goes, and the message is written even when its
\* number is below the cursor.
Reconcile(c, i) ==
  /\ outbox' = [outbox EXCEPT ![c] = "sent"]
  /\ IF IsDuplicate(i)
       THEN timeline' = Append(timeline, Message(i)) /\ UNCHANGED cursor
       ELSE Advance(i)

\* listOutboxEntries.
Queued == {c \in Drafts : outbox[c] \notin {"none", "sent"}}

-----------------------------------------------------------------------------
Stored == {i \in Ids : Message(i) \in Range(timeline)}
Known(i) == \E e \in Range(timeline) : e.kind \in {"message", "gap"} /\ i \in e.from .. e.to
=============================================================================
