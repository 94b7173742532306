--------------------------- MODULE PresenceProofs ---------------------------
(***************************************************************************)
(* Presence for any number of devices, sockets and restarts: the set, its  *)
(* announcements and the partner's page, by one inductive invariant.       *)
(***************************************************************************)
EXTENDS Presence, TLAPS

USE DEF sockets, process, partner, vars, Sockets

\* The initial state: nobody has connected, and the page is closed.
LEMMA InitInv == Init => TypeOK /\ IInv
<1> SUFFICES ASSUME Init PROVE TypeOK /\ IInv OBVIOUS
<1> USE DEF Init
<1>1. TypeOK
  <2>1. 0 \in 0 .. started /\ 0 \in 0 .. MaxRestarts BY SocketBounds
  <2>2. /\ device \in [Sockets -> Devices \cup {NoDevice}]
        /\ phase \in [Sockets -> {"unused", "joined", "entered", "ready", "leaving", "left"}]
    OBVIOUS
  <2> QED BY <2>1, <2>2 DEF TypeOK
<1>2. OneEach BY DEF OneEach, Involved, Present
<1>3. SetIsExact BY DEF SetIsExact, Present
<1>4. NewestCounts /\ AnnouncedIsCurrent /\ PageCatchesUp
  BY DEF NewestCounts, AnnouncedIsCurrent, PageCatchesUp
<1> QED BY <1>1, <1>2, <1>3, <1>4 DEF IInv

-----------------------------------------------------------------------------
(* Types                                                                    *)

\* An announcement gets the next number.
LEMMA AnnounceType ==
  ASSUME TypeOK, NEW value \in BOOLEAN,
         Announce(value) \/ UNCHANGED <<started, running, latest>>
  PROVE  /\ started' \in Nat /\ latest' \in 0 .. started'
         /\ running' \subseteq [n : 1 .. started', online : BOOLEAN]
<1>1. CASE Announce(value)
  <2>1. started' \in Nat /\ started' = started + 1 /\ latest' \in 0 .. started'
    BY <1>1 DEF Announce, TypeOK
  <2>2. [n |-> started + 1, online |-> value] \in [n : 1 .. started', online : BOOLEAN]
    BY <2>1 DEF TypeOK
  <2>3. [n : 1 .. started, online : BOOLEAN] \subseteq [n : 1 .. started', online : BOOLEAN]
    BY <2>1 DEF TypeOK
  <2> QED BY <1>1, <2>1, <2>2, <2>3 DEF Announce, TypeOK, Broadcasts
<1>2. CASE UNCHANGED <<started, running, latest>>
  BY <1>2 DEF TypeOK, Broadcasts
<1> QED BY <1>1, <1>2

\* Every step keeps the types; a socket that enters has a device.
LEMMA TypeStep == TypeOK /\ OneEach /\ [Next]_vars => TypeOK'
<1> SUFFICES ASSUME TypeOK, OneEach, [Next]_vars PROVE TypeOK' OBVIOUS
<1>1. ASSUME NEW s \in Sockets, NEW d \in Devices, Connect(s, d) PROVE TypeOK'
  BY <1>1 DEF Connect, TypeOK, Broadcasts
<1>2. ASSUME NEW s \in Sockets, Enter(s) PROVE TypeOK'
  <2>1. device[s] \in Devices BY <1>2 DEF Enter, OneEach
  <2>2. Announce(TRUE) \/ UNCHANGED <<started, running, latest>> BY <1>2 DEF Enter
  <2> QED BY <1>2, <2>1, <2>2, AnnounceType DEF Enter, TypeOK, Broadcasts
<1>3. ASSUME NEW s \in Sockets, Register(s) PROVE TypeOK'
  BY <1>3 DEF Register, TypeOK, Broadcasts
<1>4. ASSUME NEW s \in Sockets, Close(s) PROVE TypeOK'
  BY <1>4 DEF Close, TypeOK, Broadcasts
<1>5. ASSUME NEW s \in Sockets, Leave(s) PROVE TypeOK'
  <2>1. Announce(FALSE) \/ UNCHANGED <<started, running, latest>> BY <1>5 DEF Leave
  <2> QED BY <1>5, <2>1, AnnounceType DEF Leave, Remaining, TypeOK, Broadcasts
<1>6. CASE Restart
  <2>1. restarts' \in 0 .. MaxRestarts BY <1>6, SocketBounds DEF Restart, TypeOK
  <2>2. phase' \in [Sockets -> {"unused", "joined", "entered", "ready", "leaving", "left"}]
    BY <1>6 DEF Restart
  <2> QED BY <1>6, <2>1, <2>2 DEF Restart, TypeOK, Broadcasts
<1>7. CASE Drop \/ Return \/ Mount \/ Load \/ Unmount
  BY <1>7 DEF Drop, Return, Mount, Load, Unmount, TypeOK, Broadcasts
<1>8. ASSUME NEW b \in running, Emit(b) PROVE TypeOK'
  <2>1. b.n \in 1 .. started /\ b.online \in BOOLEAN BY DEF TypeOK, Broadcasts
  <2> QED BY <1>8, <2>1 DEF Emit, Takes, TypeOK, Broadcasts
<1>9. CASE UNCHANGED vars BY <1>9 DEF TypeOK, Broadcasts
<1> QED BY <1>1, <1>2, <1>3, <1>4, <1>5, <1>6, <1>7, <1>8, <1>9 DEF Next

-----------------------------------------------------------------------------
(* The set                                                                  *)

\* A step that moves one socket along keeps the sockets of a device apart, if the
\* socket was on its way before.
LEMMA OneEachMoves ==
  ASSUME TypeOK, OneEach, UNCHANGED <<device, overlapped>>, NEW s \in Sockets,
         NEW p, phase' = [phase EXCEPT ![s] = p], s \in Involved(device[s])
  PROVE  OneEach'
<1>1. phase[s] # "unused" BY DEF Involved, Present
<1>2. \A r \in Sockets : r # s => phase'[r] = phase[r] BY DEF TypeOK
<1>3. \A r \in Sockets : r \in Involved(device[r])' => r \in Involved(device[r])
  BY <1>2 DEF Involved, Present
<1> QED BY <1>1, <1>2, <1>3 DEF OneEach

\* The set and the phases of the sockets move together.
LEMMA SetStep ==
  ASSUME TypeOK, OneEach, SetIsExact, [Next]_vars
  PROVE  OneEach' /\ SetIsExact'
<1>1. ASSUME NEW s \in Sockets, NEW d \in Devices, Connect(s, d)
      PROVE  OneEach' /\ SetIsExact'
  <2> USE <1>1 DEF Connect
  <2>1. /\ device'[s] = d /\ phase'[s] = "joined" /\ phase[s] = "unused"
        /\ \A r \in Sockets \ {s} : device'[r] = device[r] /\ phase'[r] = phase[r]
    BY DEF TypeOK
  <2>2. \A r \in Sockets \ {s} : r \in Involved(device[r])' <=> r \in Involved(device[r])
    BY <2>1 DEF Involved, Present
  <2>3. overlapped \subseteq overlapped' OBVIOUS
  <2>4. d \notin overlapped' => \A r \in Sockets : r \notin Involved(d)
    OBVIOUS
  <2>5. OneEach'
    <3> SUFFICES ASSUME NEW r \in Sockets, NEW t \in Sockets
                 PROVE  /\ phase'[r] # "unused" => device'[r] \in Devices
                        /\ r # t /\ device'[r] = device'[t] /\ device'[r] \notin overlapped'
                             => ~ (r \in Involved(device[r])' /\ t \in Involved(device[r])')
      BY DEF OneEach
    <3>1. phase'[r] # "unused" => device'[r] \in Devices BY <2>1 DEF OneEach
    <3>2. CASE r # s /\ t # s BY <3>1, <3>2, <2>1, <2>2, <2>3 DEF OneEach
    <3>3. CASE r = s /\ t # s BY <3>1, <3>3, <2>1, <2>2, <2>4
    <3>4. CASE r # s /\ t = s BY <3>1, <3>4, <2>1, <2>2, <2>4
    <3> QED BY <3>1, <3>2, <3>3, <3>4
  <2>6. SetIsExact' BY <2>1, <2>3 DEF SetIsExact, Present
  <2> QED BY <2>5, <2>6
<1>2. ASSUME NEW s \in Sockets, Enter(s) PROVE OneEach' /\ SetIsExact'
  <2>1. OneEach' BY <1>2, OneEachMoves DEF Enter, Involved
  <2>2. Present(s)' /\ ~ Present(s) /\ \A r \in Sockets \ {s} : Present(r)' <=> Present(r)
    BY <1>2 DEF Enter, Present, TypeOK
  <2>3. SetIsExact' BY <1>2, <2>2 DEF Enter, SetIsExact
  <2> QED BY <2>1, <2>3
<1>3. ASSUME NEW s \in Sockets, Register(s) \/ Close(s) PROVE OneEach' /\ SetIsExact'
  <2> USE DEF Register, Close
  <2>1. CASE UNCHANGED phase
    BY <1>3, <2>1 DEF OneEach, SetIsExact, Involved, Present
  <2>2. ASSUME NEW p, phase[s] \in {"entered", "ready"}, p \in {"ready", "leaving"},
               phase' = [phase EXCEPT ![s] = p]
        PROVE  OneEach' /\ SetIsExact'
    <3>1. OneEach' BY <1>3, <2>2, OneEachMoves DEF Involved, Present
    <3>2. \A r \in Sockets : Present(r)' <=> Present(r) BY <2>2 DEF Present, TypeOK
    <3> QED BY <1>3, <3>1, <3>2 DEF SetIsExact
  <2> QED BY <1>3, <2>1, <2>2
<1>4. ASSUME NEW s \in Sockets, Leave(s) PROVE OneEach' /\ SetIsExact'
  <2>1. OneEach' BY <1>4, OneEachMoves DEF Leave, Involved, Present
  <2>2. Present(s) /\ ~ Present(s)' /\ \A r \in Sockets \ {s} : Present(r)' <=> Present(r)
    BY <1>4 DEF Leave, Present, TypeOK
  <2>3. device[s] \notin overlapped =>
          \A r \in Sockets \ {s} : device[r] = device[s] => ~ Present(r)
    BY <2>2 DEF OneEach, Involved
  <2>4. SetIsExact' BY <1>4, <2>2, <2>3 DEF Leave, Remaining, SetIsExact
  <2> QED BY <2>1, <2>4
<1>5. CASE Restart
  <2>1. \A r \in Sockets : /\ phase'[r] \in {"unused", "left"}
                           /\ phase'[r] # "unused" => phase[r] # "unused"
    BY <1>5 DEF Restart
  <2>2. OneEach' BY <1>5, <2>1 DEF Restart, OneEach, Involved, Present
  <2>3. SetIsExact' BY <1>5, <2>1 DEF Restart, SetIsExact, Present
  <2> QED BY <2>2, <2>3
<1>6. CASE UNCHANGED <<device, phase, overlapped, online>>
  BY <1>6 DEF OneEach, SetIsExact, Involved, Present
<1> QED BY <1>1, <1>2, <1>3, <1>4, <1>5, <1>6
        DEF Next, Drop, Return, Mount, Load, Unmount, Emit

-----------------------------------------------------------------------------
(* The announcements and the page                                           *)

\* What Enter and Leave do to the set either leaves its emptiness alone or is announced.
LEMMA TransitionsAnnounced ==
  ASSUME TypeOK, NEW s \in Sockets, Enter(s) \/ Leave(s)
  PROVE  \/ /\ UNCHANGED <<started, running, latest>>
            /\ (online' # {}) <=> (online # {})
         \/ Announce(online' # {})
<1>1. CASE Enter(s)
  <2>1. online' # {} BY <1>1 DEF Enter
  <2>2. CASE online = {}
    <3>1. Announce(TRUE) BY <1>1, <2>2 DEF Enter, WasOffline
    <3>2. (online' # {}) = TRUE BY <2>1
    <3> QED BY <3>1, <3>2
  <2>3. CASE online # {} BY <1>1, <2>1, <2>3 DEF Enter, WasOffline
  <2> QED BY <2>2, <2>3
<1>2. CASE Leave(s)
  <2>1. CASE LastOut(s)
    <3>1. Announce(FALSE) BY <1>2, <2>1 DEF Leave
    <3>2. (online' # {}) = FALSE BY <1>2, <2>1 DEF Leave, LastOut, Remaining
    <3> QED BY <3>1, <3>2
  <2>2. CASE ~ LastOut(s) BY <1>2, <2>2 DEF Leave, LastOut, Remaining
  <2> QED BY <2>1, <2>2
<1> QED BY <1>1, <1>2

\* So a step of either kind keeps the invariant of the announcements.
LEMMA AnnounceStep ==
  ASSUME TypeOK, NewestCounts, AnnouncedIsCurrent, PageCatchesUp, UNCHANGED partner,
         \/ /\ UNCHANGED <<started, running, latest>>
            /\ (online' # {}) <=> (online # {})
         \/ Announce(online' # {})
  PROVE  NewestCounts' /\ AnnouncedIsCurrent' /\ PageCatchesUp'
<1>1. CASE UNCHANGED <<started, running, latest>> /\ ((online' # {}) <=> (online # {}))
  BY <1>1 DEF NewestCounts, NewestUnderWay, AnnouncedIsCurrent, PageCatchesUp, Shown
<1>2. CASE Announce(online' # {})
  <2> DEFINE new == [n |-> started + 1, online |-> online' # {}]
  <2>1. started' = started + 1 /\ running' = running \cup {new} BY <1>2 DEF Announce
  <2>2. new \in running' /\ new.n = started' /\ new.online = (online' # {}) BY <2>1
  <2>3. \A b \in running : b.n # started' BY <2>1 DEF TypeOK, Broadcasts
  <2>4. \A b \in running' : b.n = started' => b = new BY <2>1, <2>3
  <2>5. NewestUnderWay' BY <2>2 DEF NewestUnderWay
  <2> HIDE DEF new
  <2>6. AnnouncedIsCurrent' BY <2>2, <2>4 DEF AnnouncedIsCurrent
  <2> QED BY <2>5, <2>6 DEF NewestCounts, PageCatchesUp
<1> QED BY <1>1, <1>2

\* An emit brings the newest announcement to the page, or an older one that counts
\* only while the newest is still to come.
LEMMA EmitStep ==
  ASSUME TypeOK, NewestCounts, AnnouncedIsCurrent, PageCatchesUp,
         NEW b \in running, Emit(b)
  PROVE  NewestCounts' /\ AnnouncedIsCurrent' /\ PageCatchesUp'
<1> USE DEF Emit
<1>1. b.n \in 1 .. started /\ b.online \in BOOLEAN /\ latest \in 0 .. started
      /\ started \in Nat
  BY DEF TypeOK, Broadcasts
<1>2. AnnouncedIsCurrent' BY DEF AnnouncedIsCurrent
<1>3. CASE b.n = started
  <2>1. latest' = started' BY <1>1, <1>3
  <2>2. b.online <=> online # {} BY <1>3 DEF AnnouncedIsCurrent
  <2>3. ~ misled' /\ page' # "closed" => (Shown' <=> online' # {})
    BY <2>2 DEF Takes, Shown
  <2> QED BY <1>2, <2>1, <2>3 DEF NewestCounts, PageCatchesUp
<1>4. CASE b.n # started
  <2>1. NewestUnderWay => NewestUnderWay' BY <1>4 DEF NewestUnderWay
  <2>2. ~ NewestUnderWay => latest = started BY DEF NewestCounts
  <2>3. latest = started => ~ (b.n > latest) BY <1>1
  <2>4. latest = started => latest' = started' BY <2>3
  <2>5. latest = started /\ page' # "closed" => misled' BY <2>3
  <2> QED BY <1>2, <2>1, <2>2, <2>4, <2>5 DEF NewestCounts, PageCatchesUp
<1> QED BY <1>3, <1>4

\* Every step keeps the announcements and the page in order.
LEMMA PageStep ==
  ASSUME TypeOK, NewestCounts, AnnouncedIsCurrent, PageCatchesUp, [Next]_vars
  PROVE  NewestCounts' /\ AnnouncedIsCurrent' /\ PageCatchesUp'
<1> USE DEF NewestCounts, NewestUnderWay, AnnouncedIsCurrent, PageCatchesUp, Shown
<1>1. ASSUME NEW s \in Sockets, Enter(s) \/ Leave(s)
      PROVE  NewestCounts' /\ AnnouncedIsCurrent' /\ PageCatchesUp'
  <2>1. UNCHANGED partner BY <1>1 DEF Enter, Leave
  <2> QED BY <1>1, <2>1, TransitionsAnnounced, AnnounceStep
<1>2. ASSUME NEW b \in running, Emit(b)
      PROVE  NewestCounts' /\ AnnouncedIsCurrent' /\ PageCatchesUp'
  BY <1>2, EmitStep
<1>3. CASE Restart BY <1>3 DEF Restart
<1>4. CASE Mount BY <1>4 DEF Mount
<1>5. CASE Unmount BY <1>5 DEF Unmount
<1>6. CASE /\ UNCHANGED <<online, started, running, latest, snapshot, live, misled>>
           /\ page' # "closed" => page # "closed"
  BY <1>6
<1>7. ASSUME NEW s \in Sockets,
             (\E d \in Devices : Connect(s, d)) \/ Register(s) \/ Close(s)
      PROVE  NewestCounts' /\ AnnouncedIsCurrent' /\ PageCatchesUp'
  BY <1>6, <1>7 DEF Connect, Register, Close
<1>8. CASE Drop \/ Return \/ Load \/ UNCHANGED vars
  BY <1>6, <1>8 DEF Drop, Return, Load
<1> QED BY <1>1, <1>2, <1>3, <1>4, <1>5, <1>7, <1>8 DEF Next

-----------------------------------------------------------------------------
\* The inductive invariant holds in every reachable state.
THEOREM Inductive == Spec => [](TypeOK /\ IInv)
<1>1. TypeOK /\ IInv /\ [Next]_vars => (TypeOK /\ IInv)'
  BY TypeStep, SetStep, PageStep DEF IInv
<1> QED BY InitInv, <1>1, PTL DEF Spec

\* Type correctness: every announcement has a number of its own process, and only a
\* loaded page has taken an update.
THEOREM TypeCorrect == Spec => []TypeOK
BY Inductive, PTL

\* The set of connected devices, for a device with one socket at a time, is that of
\* the handlers between their entry and their exit.
THEOREM SetStaysExact == Spec => []SetIsExact
<1>1. IInv => SetIsExact BY DEF IInv
<1> QED BY Inductive, <1>1, PTL

\* The newest announcement of the user agrees with the set, however the handlers of
\* the sockets interleave.
THEOREM AnnouncementsHold == Spec => []AnnouncedIsCurrent
<1>1. IInv => AnnouncedIsCurrent BY DEF IInv
<1> QED BY Inductive, <1>1, PTL

\* A page that got every update in order shows the truth once they are through.
THEOREM PageHolds == Spec => []ShownIsCurrent
<1>1. IInv => ShownIsCurrent
  BY DEF IInv, PageCatchesUp, NewestUnderWay, ShownIsCurrent
<1> QED BY Inductive, <1>1, PTL
=============================================================================
