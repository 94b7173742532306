------------------------------ MODULE Pairing ------------------------------
(***************************************************************************)
(* The server's side of device linking: pairing sessions that live in      *)
(* Redis until they expire, and the socket handlers that join, cancel and  *)
(* signal.  Every command is an await, and all requests share one Redis    *)
(* connection.  WATCH, EXEC and UNWATCH belong to the connection and not   *)
(* to the handler that sent them.                                          *)
(***************************************************************************)
EXTENDS Rendezvous

CONSTANTS
  PairingTtl,       \* PAIRING_TTL_SECONDS
  MaxTries,         \* how often a join whose EXEC fails is tried
  JoinsPerSocket    \* MAX_JOIN_ATTEMPTS_PER_SOCKET

ASSUME PairingBounds == {PairingTtl, MaxTries, JoinsPerSocket} \subseteq Nat \ {0}

VARIABLES
  ttl,        \* the time device-link:<code> has left
  watched,    \* the keys the connection watches
  dirty,      \* whether one of them has changed since
  join,       \* the joinPairingSession under way for each device
  joins,      \* deviceLinkJoinAttempts of its socket
  cancel,     \* the cancel handler under way for each device
  winners,    \* whom a session was joined by
  guesses,    \* how many joins of another account it has answered
  overlapped  \* whether two joins were ever under way at once

redis   == <<session, ttl, watched, dirty>>
history == <<used, winners, guesses, overlapped>>
server  == <<redis, join, joins, cancel, history>>

Idle     == [pc |-> "idle", code |-> None, tries |-> 0, copy |-> None, left |-> 0]
NoCancel == [code |-> None, other |-> None]

Init ==
  /\ InitSessions /\ ttl = [c \in Codes |-> 0]
  /\ watched = {} /\ dirty = FALSE
  /\ join = [d \in Devices |-> Idle] /\ joins = [d \in Devices |-> 0]
  /\ cancel = [d \in Devices |-> NoCancel]
  /\ winners = [c \in Codes |-> {}] /\ guesses = [c \in Codes |-> 0]
  /\ overlapped = FALSE

-----------------------------------------------------------------------------
(* Redis                                                                   *)

Put(c, value, left) ==
  /\ session' = [session EXCEPT ![c] = value]
  /\ ttl' = [ttl EXCEPT ![c] = left]

\* A command outside a transaction changes a key, the connection's own included.
Touch(c) == dirty' = (dirty \/ c \in watched)

Forget == watched' = {} /\ dirty' = FALSE

Expire(c) ==
  /\ session[c] # None /\ ttl[c] = 1
  /\ Put(c, None, 0) /\ Touch(c)
  /\ UNCHANGED <<watched, join, joins, cancel, history>>

Elapse(c) ==
  /\ ttl[c] > 1
  /\ ttl' = [ttl EXCEPT ![c] = @ - 1]
  /\ UNCHANGED <<session, watched, dirty, join, joins, cancel, history>>

-----------------------------------------------------------------------------
(* The handlers                                                            *)

\* POST /devices/link/start.  NX skips the codes that are taken.
Create(h, c) ==
  /\ h \notin Foreign /\ c \notin used /\ session[c] = None
  /\ Put(c, [host |-> h, attempts |-> 0, source |-> None], PairingTtl) /\ Touch(c)
  /\ used' = used \cup {c}
  /\ UNCHANGED <<watched, join, joins, cancel, winners, guesses, overlapped>>

JoinBegin(d, c) ==
  /\ join[d].pc = "idle" /\ joins[d] < JoinsPerSocket
  /\ joins' = [joins EXCEPT ![d] = @ + 1]
  /\ join' = [join EXCEPT ![d] = [Idle EXCEPT !.pc = "watch", !.code = c]]
  /\ overlapped' = (overlapped \/ \E e \in Devices : join[e].pc # "idle")
  /\ UNCHANGED <<redis, cancel, used, winners, guesses>>

\* Fault: the key is read without a WATCH.
JoinNotWatched(d) ==
  /\ join[d].pc = "watch"
  /\ join' = [join EXCEPT ![d].pc = "get"]
  /\ UNCHANGED <<redis, joins, cancel, history>>

JoinWatch(d) ==
  /\ join[d].pc = "watch"
  /\ watched' = watched \cup {join[d].code}
  /\ join' = [join EXCEPT ![d].pc = "get"]
  /\ UNCHANGED <<session, ttl, dirty, joins, cancel, history>>

\* Fault: a session that is matched can be joined.
Present(value) == value # None

Joinable(value) == value # None /\ value.source = None

JoinGet(d) ==
  LET value == session[join[d].code] IN
  /\ join[d].pc = "get"
  /\ join' = [join EXCEPT ![d].pc = IF Joinable(value) THEN "ttl" ELSE "unwatch",
                          ![d].copy = value]
  /\ UNCHANGED <<redis, joins, cancel, history>>

JoinUnwatch(d) ==
  /\ join[d].pc = "unwatch"
  /\ Forget
  /\ join' = [join EXCEPT ![d] = Idle]
  /\ UNCHANGED <<session, ttl, joins, cancel, history>>

\* Fault: what TTL answers is taken as it is.
AnyTtl(left) == left

\* It answers less for a key that is gone, or about to be.
SafeTtl(left) == IF left > 0 THEN left ELSE 1

JoinTtl(d) ==
  /\ join[d].pc = "ttl"
  /\ join' = [join EXCEPT ![d].pc = "exec", ![d].left = SafeTtl(ttl[join[d].code])]
  /\ UNCHANGED <<redis, joins, cancel, history>>

\* EXEC answers null: once more, or give up.
JoinRetry(d) ==
  /\ join[d].pc = "exec" /\ dirty
  /\ Forget
  /\ join' = [join EXCEPT ![d] =
       IF join[d].tries + 1 < MaxTries
       THEN [Idle EXCEPT !.pc = "watch", !.code = join[d].code, !.tries = join[d].tries + 1]
       ELSE Idle]
  /\ UNCHANGED <<session, ttl, joins, cancel, history>>

\* Fault: whose session it is is not looked at.
Anyone(d) == TRUE

OfHostsAccount(d) == d \notin Foreign

\* A joiner of another account: one attempt more, and the last one deletes.
Counted(copy) ==
  IF copy.attempts + 1 >= MaxJoinAttempts THEN None
  ELSE [copy EXCEPT !.attempts = @ + 1]

JoinGuess(d) ==
  LET c == join[d].code  value == Counted(join[d].copy) IN
  /\ join[d].pc = "exec" /\ ~dirty /\ ~OfHostsAccount(d)
  /\ Put(c, value, IF value = None THEN 0 ELSE join[d].left)
  /\ Forget
  /\ join' = [join EXCEPT ![d] = Idle]
  /\ guesses' = [guesses EXCEPT ![c] = @ + 1]
  /\ UNCHANGED <<joins, cancel, used, winners, overlapped>>

JoinMatch(d) ==
  LET c == join[d].code IN
  /\ join[d].pc = "exec" /\ ~dirty /\ OfHostsAccount(d)
  /\ Put(c, [join[d].copy EXCEPT !.source = d], join[d].left)
  /\ Forget
  /\ join' = [join EXCEPT ![d] = Idle]
  /\ winners' = [winners EXCEPT ![c] = @ \cup {d}]
  /\ UNCHANGED <<joins, cancel, used, guesses, overlapped>>

CancelGet(d, c) ==
  /\ cancel[d].code = None /\ d \in Paired(c)
  /\ cancel' = [cancel EXCEPT ![d] =
       [code |-> c, other |-> IF session[c].host = d THEN session[c].source ELSE session[c].host]]
  /\ UNCHANGED <<redis, join, joins, history>>

CancelDel(d) ==
  LET c == cancel[d].code IN
  /\ c # None
  /\ Put(c, None, 0)
  /\ dirty' = (dirty \/ (c \in watched /\ session[c] # None))
  /\ cancel' = [cancel EXCEPT ![d] = NoCancel]
  /\ UNCHANGED <<watched, join, joins, history>>

JoinStep(d) ==
  \/ JoinWatch(d) \/ JoinGet(d) \/ JoinUnwatch(d) \/ JoinTtl(d)
  \/ JoinRetry(d) \/ JoinGuess(d) \/ JoinMatch(d)

Next ==
  \/ \E c \in Codes : Expire(c) \/ Elapse(c)
  \/ \E d \in Devices, c \in Codes : Create(d, c) \/ JoinBegin(d, c) \/ CancelGet(d, c)
  \/ \E d \in Devices : JoinStep(d) \/ CancelDel(d)

Spec == Init /\ [][Next]_server

-----------------------------------------------------------------------------
(* Properties                                                              *)

TypeOK ==
  /\ session \in [Codes -> Sessions \cup {None}] /\ ttl \in [Codes -> 0 .. PairingTtl]
  /\ \A c \in Codes : session[c] = None <=> ttl[c] = 0
  /\ watched \subseteq Codes /\ dirty \in BOOLEAN
  /\ join \in [Devices -> [pc : {"idle", "watch", "get", "unwatch", "ttl", "exec"},
                           code : Codes \cup {None}, tries : 0 .. MaxTries - 1,
                           copy : Sessions \cup {None}, left : 0 .. PairingTtl]]
  /\ joins \in [Devices -> 0 .. JoinsPerSocket]
  /\ cancel \in [Devices -> [code : Codes \cup {None}, other : Devices \cup {None}]]
  /\ used \subseteq Codes /\ winners \in [Codes -> SUBSET Devices]
  /\ guesses \in [Codes -> Nat] /\ overlapped \in BOOLEAN

(* While joins do not overlap, WATCH does what joinPairingSession wants of  *)
(* it: a session is joined by one device, the one it records, no attempt of *)
(* another account is lost, and MAX_JOIN_ATTEMPTS of them end it.           *)
JoinsRecorded ==
  ~overlapped => \A c \in Codes :
    /\ guesses[c] <= MaxJoinAttempts /\ \A d, e \in winners[c] : d = e
    /\ session[c] # None =>
         /\ winners[c] = {session[c].source} \ {None}
         /\ session[c].attempts = guesses[c] /\ guesses[c] < MaxJoinAttempts

(* While joins do not overlap, every command is a step of Rendezvous or     *)
(* changes no session: a join takes effect at its EXEC, on the session as   *)
(* it is then, and one that expired, was cancelled or ran out of attempts   *)
(* is never written anew.                                                   *)
AtomicWhileAlone == [][~overlapped => Move \/ UNCHANGED rendezvous]_server

(* The inductive invariant of the proofs.  A join past its GET has a copy   *)
(* that can be joined and, if it is alone on the connection and nothing has *)
(* spoilt its EXEC, is the session as it still is.                          *)
Phases ==
  \A d \in Devices :
    /\ join[d].pc # "idle" => join[d].code \in Codes
    /\ join[d].pc \in {"ttl", "exec"} => Joinable(join[d].copy)
    /\ join[d].pc = "exec" => join[d].left > 0

Alone == \A d, e \in Devices : join[d].pc # "idle" /\ join[e].pc # "idle" => d = e

Watches ==
  \A d \in Devices : join[d].pc \notin {"idle", "watch"} => join[d].code \in watched

CopyHolds ==
  \A d \in Devices :
    join[d].pc \in {"ttl", "exec"} /\ ~dirty => session[join[d].code] = join[d].copy

Undrawn == \A c \in Codes \ used : session[c] = None /\ winners[c] = {} /\ guesses[c] = 0

IInv ==
  /\ Phases
  /\ ~overlapped => Alone /\ Watches /\ CopyHolds /\ Undrawn
  /\ JoinsRecorded

(* What the comment above joinPairingSession says of any two joins.         *)
SingleJoiner == \A c \in Codes : \A d, e \in winners[c] : d = e
=============================================================================
