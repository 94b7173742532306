---------------------------- MODULE PairingProofs ----------------------------
(***************************************************************************)
(* Pairing for any devices, codes, times and limits: while joins do not    *)
(* overlap, WATCH and EXEC make each of them one step of Rendezvous.       *)
(***************************************************************************)
EXTENDS Pairing, TLAPS

USE DEF redis, history, server, rendezvous, Idle, NoCancel

\* The limits one by one.
LEMMA Limits ==
  /\ PairingTtl \in Nat /\ PairingTtl > 0
  /\ MaxTries \in Nat /\ MaxTries > 0
  /\ JoinsPerSocket \in Nat /\ JoinsPerSocket > 0
<1>1. \A n \in {PairingTtl, MaxTries, JoinsPerSocket} : n \in Nat \ {0} BY PairingBounds
<1> QED BY <1>1

\* No code is drawn yet, and nobody joins.
LEMMA InitInv == Init => TypeOK /\ IInv
<1> SUFFICES ASSUME Init PROVE TypeOK /\ IInv OBVIOUS
<1> USE DEF Init, InitSessions
<1>1. TypeOK
  <2>1. 0 \in 0 .. PairingTtl /\ 0 \in 0 .. MaxTries - 1 /\ 0 \in 0 .. JoinsPerSocket
    BY Limits
  <2> QED BY <2>1 DEF TypeOK
<1>2. Phases /\ Alone /\ Watches /\ CopyHolds /\ Undrawn
  BY DEF Phases, Alone, Watches, CopyHolds, Undrawn
<1>3. JoinsRecorded BY AttemptsAssumption DEF JoinsRecorded
<1> QED BY <1>1, <1>2, <1>3 DEF IInv

-----------------------------------------------------------------------------
(* What the handlers write                                                  *)

\* A session is never the mark of its absence.
LEMMA SessionIsSome == \A s \in Sessions : s # None
BY NoneAssumption

\* A session that is counted up is a session still, or gone.
LEMMA CountedType ==
  ASSUME NEW s \in Sessions PROVE Counted(s) \in Sessions \cup {None}
BY DEF Counted, Sessions

\* A session is None exactly if it has no time left.
LEMMA PutType ==
  ASSUME TypeOK, NEW c \in Codes, NEW value \in Sessions \cup {None},
         NEW left \in 0 .. PairingTtl, value = None <=> left = 0, Put(c, value, left)
  PROVE  /\ session' \in [Codes -> Sessions \cup {None}] /\ ttl' \in [Codes -> 0 .. PairingTtl]
         /\ \A k \in Codes : session'[k] = None <=> ttl'[k] = 0
BY DEF TypeOK, Put

-----------------------------------------------------------------------------
(* Types                                                                    *)

JoinRecords ==
  [pc : {"idle", "watch", "get", "unwatch", "ttl", "exec"}, code : Codes \cup {None},
   tries : 0 .. MaxTries - 1, copy : Sessions \cup {None}, left : 0 .. PairingTtl]

\* A join that is over, or begins.
LEMMA FreshJoin ==
  /\ Idle \in JoinRecords
  /\ \A c \in Codes : [Idle EXCEPT !.pc = "watch", !.code = c] \in JoinRecords
<1>1. 0 \in 0 .. PairingTtl /\ 0 \in 0 .. MaxTries - 1 BY Limits
<1> QED BY <1>1 DEF JoinRecords

\* The steps of a join keep the types.
LEMMA TypeJoin ==
  ASSUME TypeOK, Phases, NEW d \in Devices, JoinStep(d)
  PROVE  TypeOK'
<1>1. join \in [Devices -> JoinRecords] /\ join[d] \in JoinRecords
  BY DEF TypeOK, JoinRecords
<1>2. join[d].pc # "idle" => join[d].code \in Codes BY DEF Phases
<1>3. CASE JoinWatch(d)
  <2>1. join' \in [Devices -> JoinRecords] BY <1>1, <1>3 DEF JoinWatch, JoinRecords
  <2>2. watched' \subseteq Codes BY <1>2, <1>3 DEF JoinWatch, TypeOK
  <2> QED BY <1>3, <2>1, <2>2 DEF JoinWatch, TypeOK, JoinRecords
<1>4. CASE JoinGet(d)
  <2>1. session[join[d].code] \in Sessions \cup {None} BY <1>2, <1>4 DEF JoinGet, TypeOK
  <2>2. join' \in [Devices -> JoinRecords] BY <1>1, <1>4, <2>1 DEF JoinGet, JoinRecords
  <2> QED BY <1>4, <2>2 DEF JoinGet, TypeOK, JoinRecords
<1>5. CASE JoinUnwatch(d)
  <2>1. join' \in [Devices -> JoinRecords] BY <1>1, <1>5, FreshJoin DEF JoinUnwatch
  <2> QED BY <1>5, <2>1 DEF JoinUnwatch, Forget, TypeOK, JoinRecords
<1>6. CASE JoinTtl(d)
  <2>1. ttl[join[d].code] \in 0 .. PairingTtl BY <1>2, <1>6 DEF JoinTtl, TypeOK
  <2>2. SafeTtl(ttl[join[d].code]) \in 0 .. PairingTtl BY <2>1, Limits DEF SafeTtl
  <2>3. join' \in [Devices -> JoinRecords] BY <1>1, <1>6, <2>2 DEF JoinTtl, JoinRecords
  <2> QED BY <1>6, <2>3 DEF JoinTtl, TypeOK, JoinRecords
<1>7. CASE JoinRetry(d)
  <2>1. join[d].tries + 1 < MaxTries => join[d].tries + 1 \in 0 .. MaxTries - 1
    BY <1>1, Limits DEF JoinRecords
  <2>2. join' \in [Devices -> JoinRecords]
    BY <1>1, <1>2, <1>7, <2>1, FreshJoin DEF JoinRetry, JoinRecords
  <2> QED BY <1>7, <2>2 DEF JoinRetry, Forget, TypeOK, JoinRecords
<1>8. CASE JoinGuess(d)
  <2> DEFINE c == join[d].code  value == Counted(join[d].copy)
  <2>1. c \in Codes /\ join[d].copy \in Sessions /\ join[d].left \in 1 .. PairingTtl
    BY <1>1, <1>2, <1>8 DEF JoinGuess, Phases, Joinable, JoinRecords
  <2>2. value \in Sessions \cup {None} BY <2>1, CountedType
  <2>3. Put(c, value, IF value = None THEN 0 ELSE join[d].left) BY <1>8 DEF JoinGuess
  <2>4. /\ session' \in [Codes -> Sessions \cup {None}] /\ ttl' \in [Codes -> 0 .. PairingTtl]
        /\ \A k \in Codes : session'[k] = None <=> ttl'[k] = 0
    <3> DEFINE left == IF value = None THEN 0 ELSE join[d].left
    <3>1. left \in 0 .. PairingTtl /\ (value = None <=> left = 0) BY <2>1, Limits
    <3> HIDE DEF left, value, c
    <3> QED BY <2>1, <2>2, <2>3, <3>1, PutType DEF left
  <2>5. join' \in [Devices -> JoinRecords] BY <1>1, <1>8, FreshJoin DEF JoinGuess
  <2>6. guesses' \in [Codes -> Nat] BY <1>8, <2>1 DEF JoinGuess, TypeOK
  <2> QED BY <1>8, <2>4, <2>5, <2>6 DEF JoinGuess, Forget, TypeOK, JoinRecords
<1>9. CASE JoinMatch(d)
  <2> DEFINE c == join[d].code  value == [join[d].copy EXCEPT !.source = d]
  <2>1. c \in Codes /\ join[d].copy \in Sessions /\ join[d].left \in 1 .. PairingTtl
    BY <1>1, <1>2, <1>9 DEF JoinMatch, Phases, Joinable, JoinRecords
  <2>2. value \in Sessions BY <2>1 DEF Sessions
  <2>3. value # None BY <2>2, SessionIsSome
  <2>4. Put(c, value, join[d].left) BY <1>9 DEF JoinMatch
  <2>5. /\ session' \in [Codes -> Sessions \cup {None}] /\ ttl' \in [Codes -> 0 .. PairingTtl]
        /\ \A k \in Codes : session'[k] = None <=> ttl'[k] = 0
    <3>1. join[d].left \in 0 .. PairingTtl /\ join[d].left # 0 BY <2>1
    <3> HIDE DEF value, c
    <3> QED BY <2>1, <2>2, <2>3, <2>4, <3>1, PutType
  <2>6. join' \in [Devices -> JoinRecords] BY <1>1, <1>9, FreshJoin DEF JoinMatch
  <2>7. winners' \in [Codes -> SUBSET Devices] BY <1>9, <2>1 DEF JoinMatch, TypeOK
  <2> QED BY <1>9, <2>5, <2>6, <2>7 DEF JoinMatch, Forget, TypeOK, JoinRecords
<1> QED BY <1>3, <1>4, <1>5, <1>6, <1>7, <1>8, <1>9 DEF JoinStep

\* Every step keeps the types.
LEMMA TypeStep == TypeOK /\ Phases /\ [Next]_server => TypeOK'
<1> SUFFICES ASSUME TypeOK, Phases, [Next]_server PROVE TypeOK' OBVIOUS
<1>1. ASSUME NEW c \in Codes, Expire(c) PROVE TypeOK'
  <2>1. 0 \in 0 .. PairingTtl BY Limits
  <2>2. /\ session' \in [Codes -> Sessions \cup {None}] /\ ttl' \in [Codes -> 0 .. PairingTtl]
        /\ \A k \in Codes : session'[k] = None <=> ttl'[k] = 0
    BY <1>1, <2>1, PutType DEF Expire
  <2> QED BY <1>1, <2>2 DEF Expire, Touch, TypeOK
<1>2. ASSUME NEW c \in Codes, Elapse(c) PROVE TypeOK'
  <2>1. ttl[c] \in 0 .. PairingTtl /\ ttl[c] - 1 \in 1 .. PairingTtl
    BY <1>2, Limits DEF Elapse, TypeOK
  <2>2. ttl' \in [Codes -> 0 .. PairingTtl] BY <1>2, <2>1 DEF Elapse, TypeOK
  <2>3. \A k \in Codes : session'[k] = None <=> ttl'[k] = 0
    BY <1>2, <2>1 DEF Elapse, TypeOK
  <2> QED BY <1>2, <2>2, <2>3 DEF Elapse, TypeOK
<1>3. ASSUME NEW d \in Devices, NEW c \in Codes, Create(d, c) PROVE TypeOK'
  <2> DEFINE value == [host |-> d, attempts |-> 0, source |-> None]
  <2>1. value \in Sessions BY DEF Sessions
  <2>2. value # None BY <2>1, SessionIsSome
  <2>3. Put(c, value, PairingTtl) BY <1>3 DEF Create
  <2>4. PairingTtl \in 0 .. PairingTtl /\ PairingTtl # 0 BY Limits
  <2>5. /\ session' \in [Codes -> Sessions \cup {None}] /\ ttl' \in [Codes -> 0 .. PairingTtl]
        /\ \A k \in Codes : session'[k] = None <=> ttl'[k] = 0
    <3> HIDE DEF value
    <3> QED BY <2>1, <2>2, <2>3, <2>4, PutType
  <2> QED BY <1>3, <2>5 DEF Create, Touch, TypeOK
<1>4. ASSUME NEW d \in Devices, NEW c \in Codes, JoinBegin(d, c) PROVE TypeOK'
  <2>1. join' \in [Devices -> JoinRecords]
    BY <1>4, FreshJoin DEF JoinBegin, TypeOK, JoinRecords
  <2>2. joins' \in [Devices -> 0 .. JoinsPerSocket]
    BY <1>4, Limits DEF JoinBegin, TypeOK
  <2>3. overlapped' \in BOOLEAN BY <1>4 DEF JoinBegin, TypeOK
  <2> QED BY <1>4, <2>1, <2>2, <2>3 DEF JoinBegin, TypeOK, JoinRecords
<1>5. ASSUME NEW d \in Devices, NEW c \in Codes, CancelGet(d, c) PROVE TypeOK'
  <2>1. session[c] \in Sessions BY <1>5 DEF CancelGet, Paired, TypeOK
  <2>2. session[c].host \in Devices /\ session[c].source \in Devices \cup {None}
    BY <2>1 DEF Sessions
  <2> QED BY <1>5, <2>2 DEF CancelGet, TypeOK
<1>6. ASSUME NEW d \in Devices, CancelDel(d) PROVE TypeOK'
  <2>1. cancel[d].code \in Codes BY <1>6 DEF CancelDel, TypeOK
  <2>2. 0 \in 0 .. PairingTtl BY Limits
  <2>3. /\ session' \in [Codes -> Sessions \cup {None}] /\ ttl' \in [Codes -> 0 .. PairingTtl]
        /\ \A k \in Codes : session'[k] = None <=> ttl'[k] = 0
    BY <1>6, <2>1, <2>2, PutType DEF CancelDel
  <2>4. dirty' \in BOOLEAN BY <1>6 DEF CancelDel, TypeOK
  <2> QED BY <1>6, <2>3, <2>4 DEF CancelDel, TypeOK
<1>7. ASSUME NEW d \in Devices, JoinStep(d) PROVE TypeOK' BY <1>7, TypeJoin
<1>8. CASE UNCHANGED server BY <1>8 DEF TypeOK
<1> QED BY <1>1, <1>2, <1>3, <1>4, <1>5, <1>6, <1>7, <1>8 DEF Next

-----------------------------------------------------------------------------
(* The invariant                                                            *)

\* A join that is alone knows that all the others are idle.
LEMMA OthersIdle ==
  ASSUME Alone, NEW d \in Devices, join[d].pc # "idle"
  PROVE  \A e \in Devices : e # d => join[e].pc = "idle"
BY DEF Alone

\* The steps of a join keep what is known of each join.
LEMMA PhasesStep == TypeOK /\ Phases /\ [Next]_server => Phases'
<1> SUFFICES ASSUME TypeOK, Phases, [Next]_server PROVE Phases' OBVIOUS
<1> USE DEF Phases
<1>1. CASE join' = join BY <1>1
<1>2. ASSUME NEW d \in Devices, NEW c \in Codes, JoinBegin(d, c) PROVE Phases'
  BY <1>2 DEF JoinBegin, TypeOK
<1>3. ASSUME NEW d \in Devices, JoinStep(d) PROVE Phases'
  <2>1. CASE JoinWatch(d) BY <2>1 DEF JoinWatch, TypeOK
  <2>2. CASE JoinGet(d) BY <2>2 DEF JoinGet, TypeOK
  <2>3. CASE JoinUnwatch(d) BY <2>3 DEF JoinUnwatch, TypeOK
  <2>4. CASE JoinTtl(d)
    <3>1. join[d].code \in Codes BY <2>4 DEF JoinTtl
    <3>2. SafeTtl(ttl[join[d].code]) > 0 BY <3>1 DEF SafeTtl, TypeOK
    <3> QED BY <2>4, <3>2 DEF JoinTtl, TypeOK
  <2>5. CASE JoinRetry(d) BY <2>5 DEF JoinRetry, TypeOK
  <2>6. CASE JoinGuess(d) BY <2>6 DEF JoinGuess, TypeOK
  <2>7. CASE JoinMatch(d) BY <2>7 DEF JoinMatch, TypeOK
  <2> QED BY <1>3, <2>1, <2>2, <2>3, <2>4, <2>5, <2>6, <2>7 DEF JoinStep
<1>4. (\E c \in Codes : Expire(c) \/ Elapse(c)) \/ UNCHANGED server
        \/ (\E d \in Devices, c \in Codes : Create(d, c) \/ CancelGet(d, c))
        \/ (\E d \in Devices : CancelDel(d))
      => join' = join
  BY DEF Expire, Elapse, Create, CancelGet, CancelDel
<1> QED BY <1>1, <1>2, <1>3, <1>4 DEF Next

\* A write to one key from outside the joins: a copy of it is spoilt.
LEMMA WriteStep ==
  ASSUME TypeOK, Phases, Alone, Watches, CopyHolds,
         NEW c \in Codes, NEW value, session' = [session EXCEPT ![c] = value],
         dirty \/ (c \in watched /\ value # session[c]) => dirty',
         UNCHANGED <<watched, join>>
  PROVE  Alone' /\ Watches' /\ CopyHolds'
<1>1. Alone' /\ Watches' BY DEF Alone, Watches
<1>2. ASSUME NEW d \in Devices, join[d].pc \in {"ttl", "exec"}, ~dirty'
      PROVE  session'[join[d].code] = join[d].copy
  <2>1. join[d].code \in Codes /\ join[d].code \in watched BY <1>2 DEF Phases, Watches
  <2>2. ~dirty /\ session[join[d].code] = join[d].copy BY <1>2 DEF CopyHolds
  <2>3. CASE join[d].code = c
    <3>1. value = session[c] BY <1>2, <2>1, <2>3
    <3> QED BY <2>2, <2>3, <3>1 DEF TypeOK
  <2>4. CASE join[d].code # c BY <2>1, <2>2, <2>4 DEF TypeOK
  <2> QED BY <2>3, <2>4
<1>3. CopyHolds' BY <1>2 DEF CopyHolds
<1> QED BY <1>1, <1>3

\* What the invariant says of joins that never overlapped.
Solo == Alone /\ Watches /\ CopyHolds /\ Undrawn /\ JoinsRecorded

\* The steps before the EXEC write no session.
LEMMA SoloReads ==
  ASSUME TypeOK, Phases, Solo, NEW d \in Devices,
         JoinWatch(d) \/ JoinGet(d) \/ JoinUnwatch(d) \/ JoinTtl(d) \/ JoinRetry(d)
  PROVE  Solo'
<1> USE DEF Solo
<1>1. join[d].pc # "idle"
  BY DEF JoinWatch, JoinGet, JoinUnwatch, JoinTtl, JoinRetry
<1>2. \A e \in Devices : e # d => join[e].pc = "idle" BY <1>1, OthersIdle
<1>3. \A e \in Devices : e # d => join'[e] = join[e]
  BY DEF JoinWatch, JoinGet, JoinUnwatch, JoinTtl, JoinRetry, TypeOK
<1>4. UNCHANGED <<session, history>>
  BY DEF JoinWatch, JoinGet, JoinUnwatch, JoinTtl, JoinRetry
<1>5. Undrawn' /\ JoinsRecorded' BY <1>4 DEF Undrawn, JoinsRecorded
<1>6. Alone' BY <1>2, <1>3 DEF Alone
<1>7. join[d].code \in Codes BY <1>1 DEF Phases
<1>8. CASE JoinWatch(d)
  <2>1. join'[d].pc = "get" /\ join'[d].code \in watched' BY <1>8 DEF JoinWatch, TypeOK
  <2> QED BY <1>2, <1>3, <1>5, <1>6, <2>1 DEF Watches, CopyHolds
<1>9. CASE JoinGet(d)
  <2>1. join[d].code \in watched BY <1>9 DEF JoinGet, Watches
  <2>2. /\ join'[d].code = join[d].code /\ join'[d].copy = session[join[d].code]
        /\ watched' = watched /\ session' = session
    BY <1>9 DEF JoinGet, TypeOK
  <2> QED BY <1>2, <1>3, <1>5, <1>6, <2>1, <2>2 DEF Watches, CopyHolds
<1>10. CASE JoinUnwatch(d)
  <2>1. join'[d].pc = "idle" BY <1>10 DEF JoinUnwatch, TypeOK
  <2> QED BY <1>2, <1>3, <1>5, <1>6, <2>1 DEF Watches, CopyHolds
<1>11. CASE JoinTtl(d)
  <2>1. /\ join'[d].code = join[d].code /\ join'[d].copy = join[d].copy
        /\ join[d].pc = "ttl" /\ watched' = watched /\ dirty' = dirty
    BY <1>11 DEF JoinTtl, TypeOK
  <2>2. join[d].code \in watched /\ (~dirty => session[join[d].code] = join[d].copy)
    BY <2>1 DEF Watches, CopyHolds
  <2> QED BY <1>2, <1>3, <1>4, <1>5, <1>6, <2>1, <2>2 DEF Watches, CopyHolds
<1>12. CASE JoinRetry(d)
  <2>1. join'[d].pc \in {"idle", "watch"} BY <1>12 DEF JoinRetry, TypeOK
  <2> QED BY <1>2, <1>3, <1>5, <1>6, <2>1 DEF Watches, CopyHolds
<1> QED BY <1>8, <1>9, <1>10, <1>11, <1>12

\* An EXEC that is not spoilt: the session is the one that was read.
LEMMA ExecReads ==
  ASSUME TypeOK, Phases, Solo, NEW d \in Devices, join[d].pc = "exec", ~dirty
  PROVE  /\ join[d].code \in Codes /\ session[join[d].code] = join[d].copy
         /\ Joinable(join[d].copy) /\ join[d].copy \in Sessions
         /\ join[d].code \in used
<1>1. join[d].code \in Codes /\ Joinable(join[d].copy) BY DEF Phases
<1>2. session[join[d].code] = join[d].copy BY DEF Solo, CopyHolds
<1>3. join[d].copy \in Sessions BY <1>1, <1>2 DEF Joinable, TypeOK
<1>4. join[d].code \in used BY <1>1, <1>2 DEF Solo, Undrawn, Joinable
<1> QED BY <1>1, <1>2, <1>3, <1>4

\* The EXEC of a joiner of another account.
LEMMA SoloGuess ==
  ASSUME TypeOK, Phases, Solo, ~overlapped, NEW d \in Devices, JoinGuess(d)
  PROVE  Solo'
<1> DEFINE c == join[d].code  copy == join[d].copy
<1>1. join[d].pc = "exec" /\ ~dirty BY DEF JoinGuess
<1>2. /\ c \in Codes /\ session[c] = copy /\ copy \in Sessions /\ c \in used
      /\ copy # None /\ copy.source = None
  BY <1>1, ExecReads DEF Joinable
<1>3. \A e \in Devices : join'[e].pc = "idle"
  BY <1>1, OthersIdle DEF Solo, JoinGuess, TypeOK
<1>4. Alone' /\ Watches' /\ CopyHolds' BY <1>3 DEF Alone, Watches, CopyHolds
<1>5. /\ session' = [session EXCEPT ![c] = Counted(copy)]
      /\ guesses' = [guesses EXCEPT ![c] = guesses[c] + 1]
      /\ UNCHANGED <<used, winners, overlapped>>
  BY DEF JoinGuess, Put
<1>6. Undrawn' BY <1>2, <1>5 DEF Solo, Undrawn, TypeOK
<1>7. /\ copy.attempts = guesses[c] /\ guesses[c] < MaxJoinAttempts
      /\ winners[c] = {} /\ guesses[c] \in Nat
  BY <1>2 DEF Solo, JoinsRecorded, TypeOK
<1>8. /\ session'[c] = Counted(copy) /\ guesses'[c] = guesses[c] + 1 /\ winners'[c] = {}
      /\ \A k \in Codes \ {c} : /\ session'[k] = session[k] /\ guesses'[k] = guesses[k]
                               /\ winners'[k] = winners[k]
  BY <1>2, <1>5, <1>7 DEF TypeOK
<1>9. Counted(copy) # None =>
        /\ Counted(copy).source = None /\ Counted(copy).attempts = guesses[c] + 1
        /\ guesses[c] + 1 < MaxJoinAttempts
  BY <1>2, <1>7, AttemptsAssumption DEF Counted, Sessions
<1>10. guesses[c] + 1 <= MaxJoinAttempts BY <1>7, AttemptsAssumption
<1>11. JoinsRecorded'
  <2> SUFFICES ASSUME NEW k \in Codes
               PROVE  /\ guesses'[k] <= MaxJoinAttempts /\ \A e, f \in winners'[k] : e = f
                      /\ session'[k] # None =>
                           /\ winners'[k] = {session'[k].source} \ {None}
                           /\ session'[k].attempts = guesses'[k]
                           /\ guesses'[k] < MaxJoinAttempts
    BY DEF JoinsRecorded
  <2>1. CASE k = c BY <1>8, <1>9, <1>10, <2>1
  <2>2. CASE k # c BY <1>8, <2>2 DEF Solo, JoinsRecorded
  <2> QED BY <2>1, <2>2
<1> QED BY <1>4, <1>6, <1>11 DEF Solo

\* The EXEC of a joiner of the host's account.
LEMMA SoloMatch ==
  ASSUME TypeOK, Phases, Solo, ~overlapped, NEW d \in Devices, JoinMatch(d)
  PROVE  Solo'
<1> DEFINE c == join[d].code  copy == join[d].copy
<1>1. join[d].pc = "exec" /\ ~dirty BY DEF JoinMatch
<1>2. /\ c \in Codes /\ session[c] = copy /\ copy \in Sessions /\ c \in used
      /\ copy # None /\ copy.source = None
  BY <1>1, ExecReads DEF Joinable
<1>3. \A e \in Devices : join'[e].pc = "idle"
  BY <1>1, OthersIdle DEF Solo, JoinMatch, TypeOK
<1>4. Alone' /\ Watches' /\ CopyHolds' BY <1>3 DEF Alone, Watches, CopyHolds
<1>5. /\ session' = [session EXCEPT ![c] = [copy EXCEPT !.source = d]]
      /\ winners' = [winners EXCEPT ![c] = winners[c] \cup {d}]
      /\ UNCHANGED <<used, guesses, overlapped>>
  BY DEF JoinMatch, Put
<1>6. Undrawn' BY <1>2, <1>5 DEF Solo, Undrawn, TypeOK
<1>7. /\ copy.attempts = guesses[c] /\ guesses[c] < MaxJoinAttempts /\ winners[c] = {}
  BY <1>2 DEF Solo, JoinsRecorded
<1>8. /\ session'[c] = [copy EXCEPT !.source = d] /\ winners'[c] = {d}
      /\ \A k \in Codes \ {c} : session'[k] = session[k] /\ winners'[k] = winners[k]
  BY <1>2, <1>5, <1>7 DEF TypeOK
<1>9. session'[c].source = d /\ session'[c].attempts = guesses[c]
  BY <1>2, <1>7, <1>8 DEF Sessions
<1>10. d # None BY NoneAssumption
<1>11. JoinsRecorded'
  <2> SUFFICES ASSUME NEW k \in Codes
               PROVE  /\ guesses'[k] <= MaxJoinAttempts /\ \A e, f \in winners'[k] : e = f
                      /\ session'[k] # None =>
                           /\ winners'[k] = {session'[k].source} \ {None}
                           /\ session'[k].attempts = guesses'[k]
                           /\ guesses'[k] < MaxJoinAttempts
    BY DEF JoinsRecorded
  <2>1. CASE k = c
    <3>1. guesses'[k] = guesses[c] /\ guesses[c] <= MaxJoinAttempts
      BY <1>2, <1>5, <2>1 DEF Solo, JoinsRecorded
    <3> QED BY <1>7, <1>8, <1>9, <1>10, <2>1, <3>1
  <2>2. CASE k # c BY <1>5, <1>8, <2>2 DEF Solo, JoinsRecorded
  <2> QED BY <2>1, <2>2
<1> QED BY <1>4, <1>6, <1>11 DEF Solo

\* A step after which no two joins have overlapped.
LEMMA SoloStep ==
  ASSUME TypeOK, IInv, [Next]_server, ~overlapped'
  PROVE  Solo'
<1>1. ~overlapped
  BY DEF Next, Expire, Elapse, Create, JoinBegin, CancelGet, CancelDel, JoinStep, JoinWatch,
         JoinGet, JoinUnwatch, JoinTtl, JoinRetry, JoinGuess, JoinMatch
<1>2. Phases /\ Solo BY <1>1 DEF IInv, Solo
<1>3. ASSUME NEW c \in Codes, Expire(c) PROVE Solo'
  <2>1. Alone' /\ Watches' /\ CopyHolds'
    BY <1>2, <1>3, WriteStep DEF Solo, Expire, Put, Touch
  <2>2. Undrawn' BY <1>2, <1>3 DEF Solo, Expire, Put, Undrawn, TypeOK
  <2>3. JoinsRecorded' BY <1>1, <1>2, <1>3 DEF Solo, Expire, Put, JoinsRecorded, TypeOK
  <2> QED BY <2>1, <2>2, <2>3 DEF Solo
<1>4. ASSUME NEW c \in Codes, Elapse(c) PROVE Solo'
  BY <1>2, <1>4 DEF Elapse, Solo, Alone, Watches, CopyHolds, Undrawn, JoinsRecorded
<1>5. ASSUME NEW d \in Devices, NEW c \in Codes, Create(d, c) PROVE Solo'
  <2> DEFINE value == [host |-> d, attempts |-> 0, source |-> None]
  <2>1. Alone' /\ Watches' /\ CopyHolds'
    BY <1>2, <1>5, WriteStep DEF Solo, Create, Put, Touch
  <2>2. c \notin used /\ winners[c] = {} /\ guesses[c] = 0
    BY <1>2, <1>5 DEF Create, Solo, Undrawn
  <2>3. session' = [session EXCEPT ![c] = value] /\ used' = used \cup {c}
        /\ UNCHANGED <<winners, guesses, overlapped>>
    BY <1>5 DEF Create, Put
  <2>4. Undrawn' BY <1>2, <2>3 DEF Solo, Undrawn, TypeOK
  <2>5. JoinsRecorded'
    BY <1>1, <1>2, <2>2, <2>3, AttemptsAssumption DEF Solo, JoinsRecorded, TypeOK
  <2> QED BY <2>1, <2>4, <2>5 DEF Solo
<1>6. ASSUME NEW d \in Devices, NEW c \in Codes, JoinBegin(d, c) PROVE Solo'
  <2>1. \A e \in Devices : join[e].pc = "idle" BY <1>6 DEF JoinBegin
  <2>2. \A e \in Devices : join'[e].pc # "idle" => e = d /\ join'[e].pc = "watch"
    BY <1>6, <2>1 DEF JoinBegin, TypeOK
  <2>3. Alone' /\ Watches' /\ CopyHolds' BY <2>2 DEF Alone, Watches, CopyHolds
  <2>4. Undrawn' /\ JoinsRecorded'
    BY <1>1, <1>2, <1>6 DEF Solo, JoinBegin, Undrawn, JoinsRecorded
  <2> QED BY <2>3, <2>4 DEF Solo
<1>7. ASSUME NEW d \in Devices, NEW c \in Codes, CancelGet(d, c) PROVE Solo'
  BY <1>2, <1>7 DEF CancelGet, Solo, Alone, Watches, CopyHolds, Undrawn, JoinsRecorded
<1>8. ASSUME NEW d \in Devices, CancelDel(d) PROVE Solo'
  <2> DEFINE c == cancel[d].code
  <2>1. c \in Codes BY <1>8 DEF CancelDel, TypeOK
  <2>2. session' = [session EXCEPT ![c] = None] /\ UNCHANGED <<watched, join, history>>
        /\ dirty' = (dirty \/ (c \in watched /\ session[c] # None))
    BY <1>8 DEF CancelDel, Put
  <2>3. Alone' /\ Watches' /\ CopyHolds'
    <3> HIDE DEF c
    <3> QED BY <1>2, <2>1, <2>2, WriteStep DEF Solo
  <2>4. Undrawn' BY <1>2, <2>2 DEF Solo, Undrawn, TypeOK
  <2>5. JoinsRecorded' BY <1>1, <1>2, <2>2 DEF Solo, JoinsRecorded, TypeOK
  <2> QED BY <2>3, <2>4, <2>5 DEF Solo
<1>9. ASSUME NEW d \in Devices, JoinStep(d) PROVE Solo'
  BY <1>1, <1>2, <1>9, SoloReads, SoloGuess, SoloMatch DEF JoinStep
<1>10. CASE UNCHANGED server
  BY <1>2, <1>10 DEF Solo, Alone, Watches, CopyHolds, Undrawn, JoinsRecorded
<1> QED BY <1>3, <1>4, <1>5, <1>6, <1>7, <1>8, <1>9, <1>10 DEF Next

LEMMA InvStep == TypeOK /\ IInv /\ [Next]_server => TypeOK' /\ IInv'
<1> SUFFICES ASSUME TypeOK, IInv, [Next]_server PROVE TypeOK' /\ IInv' OBVIOUS
<1>1. TypeOK' /\ Phases' BY TypeStep, PhasesStep DEF IInv
<1>2. CASE ~overlapped' BY <1>1, <1>2, SoloStep DEF Solo, IInv
<1>3. CASE overlapped' BY <1>1, <1>3 DEF IInv, JoinsRecorded
<1> QED BY <1>1, <1>2, <1>3

\* Every command but an EXEC is one step of Rendezvous, or none, whoever else joins; an
\* EXEC is one if it finds the session that was read.
LEMMA Atomic ==
  ASSUME TypeOK, IInv, [Next]_server, ~overlapped
  PROVE  Move \/ UNCHANGED rendezvous
<1>1. Phases /\ Solo BY DEF IInv, Solo
<1>2. ASSUME NEW c \in Codes, Expire(c) PROVE Vanish(c)
  BY <1>2 DEF Expire, Put, Vanish
<1>3. ASSUME NEW d \in Devices, NEW c \in Codes, Create(d, c) PROVE Open(d, c)
  BY <1>3 DEF Create, Put, Open
<1>4. ASSUME NEW d \in Devices, CancelDel(d)
      PROVE  UNCHANGED rendezvous \/ \E c \in Codes : Vanish(c)
  <2>1. cancel[d].code \in Codes BY <1>4 DEF CancelDel, TypeOK
  <2> QED BY <1>4, <2>1 DEF CancelDel, Put, Vanish, TypeOK
<1>5. ASSUME NEW d \in Devices, JoinGuess(d) PROVE Guess(join[d].code)
  <2> DEFINE c == join[d].code  copy == join[d].copy
  <2>1. c \in Codes /\ session[c] = copy /\ copy \in Sessions /\ Joinable(copy)
    BY <1>1, <1>5, ExecReads DEF JoinGuess
  <2>2. Counted(copy) = IF copy.attempts + 1 < MaxJoinAttempts
                        THEN [copy EXCEPT !.attempts = copy.attempts + 1] ELSE None
    BY <2>1, AttemptsAssumption DEF Counted, Sessions
  <2>3. session' = [session EXCEPT ![c] = Counted(copy)] /\ UNCHANGED used
    BY <1>5 DEF JoinGuess, Put
  <2>4. Waiting(c) BY <2>1 DEF Waiting, Joinable
  <2> QED BY <2>1, <2>2, <2>3, <2>4 DEF Guess
<1>6. ASSUME NEW d \in Devices, JoinMatch(d) PROVE Match(d, join[d].code)
  <2> DEFINE c == join[d].code  copy == join[d].copy
  <2>1. c \in Codes /\ session[c] = copy /\ Joinable(copy)
    BY <1>1, <1>6, ExecReads DEF JoinMatch
  <2>2. session' = [session EXCEPT ![c] = [copy EXCEPT !.source = d]] /\ UNCHANGED used
    BY <1>6 DEF JoinMatch, Put
  <2>3. Waiting(c) /\ d \notin Foreign
    BY <1>6, <2>1 DEF Waiting, Joinable, JoinMatch, OfHostsAccount
  <2> QED BY <2>1, <2>2, <2>3 DEF Match
<1>7. ASSUME NEW d \in Devices, JoinStep(d) PROVE Move \/ UNCHANGED rendezvous
  <2>1. ASSUME JoinGuess(d) \/ JoinMatch(d) PROVE join[d].code \in Codes
    BY <1>1, <2>1 DEF Phases, JoinGuess, JoinMatch
  <2>2. CASE JoinGuess(d) BY <1>5, <2>1, <2>2 DEF Move
  <2>3. CASE JoinMatch(d) BY <1>6, <2>1, <2>3 DEF Move
  <2>4. CASE ~(JoinGuess(d) \/ JoinMatch(d))
    BY <1>7, <2>4 DEF JoinStep, JoinWatch, JoinGet, JoinUnwatch, JoinTtl, JoinRetry
  <2> QED BY <2>2, <2>3, <2>4
<1>8. CASE (\E c \in Codes : Elapse(c)) \/ UNCHANGED server
             \/ \E d \in Devices, c \in Codes : JoinBegin(d, c) \/ CancelGet(d, c)
  BY <1>8 DEF Elapse, JoinBegin, CancelGet
<1> QED BY <1>2, <1>3, <1>4, <1>7, <1>8 DEF Next, Move

-----------------------------------------------------------------------------
(* Theorems                                                                 *)

(* TypeOK for any devices, codes and limits: a session that is recorded has *)
(* time left, and one that is gone has none.                                *)
THEOREM TypeCorrect == Spec => []TypeOK
<1>1. TypeOK /\ IInv /\ [Next]_server => TypeOK' /\ IInv' BY InvStep
<1> QED BY InitInv, <1>1, PTL DEF Spec

(* The inductive invariant: a join that is alone on the connection holds a  *)
(* watch, and its copy is the session as long as nothing has spoilt it.     *)
THEOREM Inductive == Spec => []IInv
<1>1. TypeOK /\ IInv /\ [Next]_server => TypeOK' /\ IInv' BY InvStep
<1> QED BY InitInv, <1>1, PTL DEF Spec

(* JoinsRecorded: while joins do not overlap, a session has one joiner, the *)
(* one it records, and answers MAX_JOIN_ATTEMPTS joins of others at most.   *)
THEOREM JoinsAreRecorded == Spec => []JoinsRecorded
<1>1. IInv => JoinsRecorded BY DEF IInv
<1> QED BY Inductive, <1>1, PTL

(* AtomicWhileAlone: while joins do not overlap, the commands of the shared *)
(* connection implement Rendezvous, a join taking effect at its EXEC.       *)
THEOREM JoinsAreAtomic == Spec => AtomicWhileAlone
<1>1. TypeOK /\ IInv /\ [Next]_server => [~overlapped => Move \/ UNCHANGED rendezvous]_server
  BY Atomic
<1> QED BY TypeCorrect, Inductive, <1>1, PTL DEF Spec, AtomicWhileAlone
=============================================================================
