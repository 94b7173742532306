---------------------------- MODULE Rendezvous ----------------------------
(***************************************************************************)
(* What a pairing session promises: a code that is opened by one device,   *)
(* joined at most once by another of the same account, and gone for good   *)
(* once it is cancelled, has expired or has been guessed at too often.     *)
(* A join is one step here.                                                *)
(***************************************************************************)
EXTENDS Naturals

CONSTANTS
  Devices,
  Foreign,          \* those of another account than the hosts
  Codes,
  None,
  MaxJoinAttempts   \* MAX_JOIN_ATTEMPTS

\* What is recorded under a code; "matched" if it has a source.
Sessions == [host : Devices, attempts : Nat, source : Devices \cup {None}]

ASSUME NoneAssumption == None \notin Devices \cup Codes \cup Sessions
ASSUME AttemptsAssumption == MaxJoinAttempts \in Nat \ {0}

VARIABLES
  session,   \* the session of each code, None if it has none
  used       \* the codes drawn so far

rendezvous == <<session, used>>

InitSessions == session = [c \in Codes |-> None] /\ used = {}

Waiting(c) == session[c] # None /\ session[c].source = None

Paired(c) == IF session[c] = None THEN {} ELSE {session[c].host, session[c].source} \ {None}

Open(h, c) ==
  /\ h \notin Foreign /\ c \notin used
  /\ used' = used \cup {c}
  /\ session' = [session EXCEPT ![c] = [host |-> h, attempts |-> 0, source |-> None]]

Match(d, c) ==
  /\ Waiting(c) /\ d \notin Foreign
  /\ session' = [session EXCEPT ![c].source = d]
  /\ UNCHANGED used

Guess(c) ==
  LET tried == session[c].attempts + 1 IN
  /\ Waiting(c)
  /\ session' = [session EXCEPT ![c] =
       IF tried < MaxJoinAttempts THEN [@ EXCEPT !.attempts = tried] ELSE None]
  /\ UNCHANGED used

Vanish(c) ==
  /\ session[c] # None
  /\ session' = [session EXCEPT ![c] = None]
  /\ UNCHANGED used

Move ==
  \E c \in Codes :
    \/ Guess(c) \/ Vanish(c)
    \/ \E d \in Devices : Open(d, c) \/ Match(d, c)
=============================================================================
