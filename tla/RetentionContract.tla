-------------------------- MODULE RetentionContract --------------------------
(***************************************************************************)
(* What the relay promises about the content it stores (docs/RETENTION.md  *)
(* as sendEnvelope, ackEnvelope, revokeDevice and the sweeper carry it     *)
(* out): a message waits for the devices it was fanned out to, every       *)
(* settled target is final, the row goes in the very step that settles the *)
(* last target, and otherwise only once it has expired.  No locks, no      *)
(* statements, no handlers.                                                *)
(***************************************************************************)
EXTENDS Naturals

CONSTANTS Ids, Devices

VARIABLES
  envelope,   \* "unsent", "held", "purged"
  waiting,    \* the devices each held message still waits for
  horizon     \* the ids that are past their expiry: 1 .. horizon

vars == <<envelope, waiting, horizon>>

Init ==
  /\ envelope = [i \in Ids |-> "unsent"]
  /\ waiting = [i \in Ids |-> {}]
  /\ horizon = 0

\* A message is stored with its audience, in sequence order.
Post(i, audience) ==
  /\ envelope[i] = "unsent"
  /\ \A j \in Ids : j < i => envelope[j] # "unsent"
  /\ envelope' = [envelope EXCEPT ![i] = "held"]
  /\ waiting' = [waiting EXCEPT ![i] = audience]
  /\ UNCHANGED horizon

\* A device acks one message, or is revoked and gives up several at once.
Settle(d, S) ==
  /\ \A i \in S : d \in waiting[i]
  /\ envelope' = [i \in Ids |->
       IF i \in S /\ waiting[i] = {d} THEN "purged" ELSE envelope[i]]
  /\ waiting' = [i \in Ids |-> IF i \in S THEN waiting[i] \ {d} ELSE waiting[i]]
  /\ UNCHANGED horizon

\* The sweep deletes expired messages, whoever still waits for them.
Expire(S) ==
  /\ \A i \in S : envelope[i] = "held" /\ i <= horizon
  /\ envelope' = [i \in Ids |-> IF i \in S THEN "purged" ELSE envelope[i]]
  /\ waiting' = [i \in Ids |-> IF i \in S THEN {} ELSE waiting[i]]
  /\ UNCHANGED horizon

Tick ==
  /\ horizon + 1 \in Ids /\ envelope[horizon + 1] # "unsent"
  /\ horizon' = horizon + 1
  /\ UNCHANGED <<envelope, waiting>>

Next ==
  \/ \E i \in Ids, audience \in SUBSET Devices : Post(i, audience)
  \/ \E d \in Devices, S \in SUBSET Ids : Settle(d, S)
  \/ \E S \in SUBSET Ids : Expire(S)
  \/ Tick

Spec == Init /\ [][Next]_vars
=============================================================================
