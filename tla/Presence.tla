------------------------------ MODULE Presence ------------------------------
(***************************************************************************)
(* Who is online: the in-process set of one user's connected devices, the  *)
(* broadcasts of its transitions, and what the chat page of a partner      *)
(* shows.  A socket's connection handler and its disconnect handler both   *)
(* await the database before they touch the set, so those of different     *)
(* sockets interleave; a broadcast awaits two queries before it emits, so  *)
(* broadcasts overtake each other.                                         *)
(***************************************************************************)
EXTENDS Naturals

CONSTANTS
  Devices,      \* the user's devices
  NoDevice,
  MaxSockets,   \* bound: how many connections the devices make
  MaxRestarts   \* bound: how often the server process restarts

ASSUME NoDeviceAssumption == NoDevice \notin Devices
ASSUME SocketBounds == MaxSockets \in Nat /\ MaxRestarts \in Nat

Sockets == 1 .. MaxSockets    \* in the order they connect

VARIABLES
  device,     \* the device of each socket
  phase,      \* where its handlers are
  open,       \* the sockets that are connected
  online,     \* onlineDevicesByUser.get(userId), {} while there is no entry
  started,    \* how many broadcasts have started
  running,    \* those that have not emitted yet
  latest,     \* the latest that has emitted
  connected,  \* whether the partner's socket is
  page,       \* the partner's chat page
  snapshot,   \* the member's online flag in the conversation list
  live,       \* livePresence; "none" until a presence:update arrives
  restarts,
  overlapped, \* the devices that ever had two sockets at once
  misled      \* the page has lost an update, or got two in the wrong order

sockets  == <<device, phase, open, overlapped>>
process  == <<online, started, running, latest>>
partner  == <<connected, page, snapshot, live, misled>>
vars     == <<sockets, process, partner, restarts>>

Init ==
  /\ device = [s \in Sockets |-> NoDevice]
  /\ phase = [s \in Sockets |-> "unused"]
  /\ open = {} /\ overlapped = {}
  /\ online = {} /\ started = 0 /\ running = {} /\ latest = 0
  /\ connected = TRUE /\ page = "closed" /\ snapshot = FALSE /\ live = "none" /\ misled = FALSE
  /\ restarts = 0

\* The sockets of d that are in the set, or on their way in or out.
Present(s) == phase[s] \in {"entered", "ready", "leaving"}
Involved(d) == {s \in Sockets : device[s] = d /\ (phase[s] = "joined" \/ Present(s))}

-----------------------------------------------------------------------------
(* The sockets of the user                                                  *)

\* The handshake and the room; the SELECT and the UPDATE are under way.
Connect(s, d) ==
  /\ phase[s] = "unused" /\ \A r \in Sockets : r < s => phase[r] # "unused"
  /\ device' = [device EXCEPT ![s] = d]
  /\ phase' = [phase EXCEPT ![s] = "joined"]
  /\ open' = open \cup {s}
  /\ overlapped' = IF Involved(d) = {} THEN overlapped ELSE overlapped \cup {d}
  /\ UNCHANGED <<process, partner, restarts>>

\* broadcastPresence, up to its first await.
Announce(value) ==
  /\ started' = started + 1
  /\ running' = running \cup {[n |-> started + 1, online |-> value]}
  /\ UNCHANGED latest

\* Faults: the size is read after the add; or the set is not consulted.
WasOfflineLate == FALSE
WasOffline == online = {}

\* The first device of the user announces.
Enter(s) ==
  /\ phase[s] = "joined"
  /\ phase' = [phase EXCEPT ![s] = "entered"]
  /\ online' = online \cup {device[s]}
  /\ IF WasOffline THEN Announce(TRUE) ELSE UNCHANGED <<started, running, latest>>
  /\ UNCHANGED <<device, open, overlapped, partner, restarts>>

\* The drain is over, and the disconnect listener is registered.
Register(s) ==
  /\ phase[s] = "entered"
  /\ phase' = [phase EXCEPT ![s] = "ready"]
  /\ UNCHANGED <<device, open, overlapped, process, partner, restarts>>

\* A disconnection is an event: without a listener nobody hears of it.
Close(s) ==
  /\ s \in open
  /\ open' = open \ {s}
  /\ phase' = IF phase[s] = "ready" THEN [phase EXCEPT ![s] = "leaving"] ELSE phase
  /\ UNCHANGED <<device, overlapped, process, partner, restarts>>

\* Fault: every disconnection announces.
LastOutAlways(s) == online # {}
LastOut(s) == online # {} /\ online \ {device[s]} = {}

\* Fault: the entry stays in the set.
RemainingKept(s) == online
Remaining(s) == online \ {device[s]}

\* handleDisconnect, after its UPDATE: the last device of the user announces.
Leave(s) ==
  /\ phase[s] = "leaving"
  /\ phase' = [phase EXCEPT ![s] = "left"]
  /\ online' = Remaining(s)
  /\ IF LastOut(s) THEN Announce(FALSE) ELSE UNCHANGED <<started, running, latest>>
  /\ UNCHANGED <<device, open, overlapped, partner, restarts>>

\* The process exits, on a failed query of a handler or for a deploy; the map and
\* what was running are gone, and every socket with them.
Restart ==
  /\ restarts < MaxRestarts /\ restarts' = restarts + 1
  /\ phase' = [s \in Sockets |-> IF phase[s] = "unused" THEN "unused" ELSE "left"]
  /\ open' = {} /\ online' = {} /\ running' = {}
  /\ connected' = FALSE
  /\ misled' = (misled \/ page # "closed")
  /\ UNCHANGED <<device, overlapped, started, latest, page, snapshot, live>>

-----------------------------------------------------------------------------
(* The partner                                                              *)

Drop   == connected /\ connected' = FALSE /\ UNCHANGED <<sockets, process, page, snapshot, live, misled, restarts>>
Return == ~ connected /\ connected' = TRUE /\ UNCHANGED <<sockets, process, page, snapshot, live, misled, restarts>>

\* listConversations: the flag is read when the response is put together ...
Mount ==
  /\ page = "closed"
  /\ page' = "loading"
  /\ snapshot' = (online # {}) /\ live' = "none" /\ misled' = FALSE
  /\ UNCHANGED <<sockets, process, connected, restarts>>

\* ... and until it is there the page does not know whose updates to take.
Load ==
  /\ page = "loading"
  /\ page' = "open"
  /\ UNCHANGED <<sockets, process, connected, snapshot, live, misled, restarts>>

Unmount ==
  /\ page # "closed"
  /\ page' = "closed" /\ snapshot' = FALSE /\ live' = "none" /\ misled' = FALSE
  /\ UNCHANGED <<sockets, process, connected, restarts>>

\* Fault: handlePresence does not ask whose update it is.
TakesAny == connected /\ page # "closed"
Takes == connected /\ page = "open"

\* The end of broadcastPresence, and handlePresence on the page.
Emit(b) ==
  /\ b \in running
  /\ running' = running \ {b}
  /\ latest' = IF b.n > latest THEN b.n ELSE latest
  /\ live' = IF Takes THEN (IF b.online THEN "online" ELSE "offline") ELSE live
  /\ misled' = (misled \/ (page # "closed" /\ ~ (Takes /\ b.n > latest)))
  /\ UNCHANGED <<sockets, online, started, connected, page, snapshot, restarts>>

-----------------------------------------------------------------------------
Next ==
  \/ \E s \in Sockets : \/ \E d \in Devices : Connect(s, d)
                        \/ Enter(s) \/ Register(s) \/ Close(s) \/ Leave(s)
  \/ Restart
  \/ Drop \/ Return \/ Mount \/ Load \/ Unmount
  \/ \E b \in running : Emit(b)

Spec == Init /\ [][Next]_vars

-----------------------------------------------------------------------------
Broadcasts == [n : 1 .. started, online : BOOLEAN]

TypeOK ==
  /\ device \in [Sockets -> Devices \cup {NoDevice}]
  /\ phase \in [Sockets -> {"unused", "joined", "entered", "ready", "leaving", "left"}]
  /\ open \subseteq Sockets
  /\ online \subseteq Devices /\ overlapped \subseteq Devices
  /\ started \in Nat /\ latest \in 0 .. started
  /\ running \subseteq Broadcasts
  /\ connected \in BOOLEAN /\ page \in {"closed", "loading", "open"}
  /\ page # "open" => live = "none"
  /\ snapshot \in BOOLEAN /\ live \in {"none", "online", "offline"} /\ misled \in BOOLEAN
  /\ restarts \in 0 .. MaxRestarts

Shown == IF live = "none" THEN snapshot ELSE live = "online"

\* A device with one socket at a time is in the set exactly while its socket has
\* entered and has not left, whatever the other devices' handlers do meanwhile.
SetIsExact == \A d \in Devices \ overlapped :
  d \in online <=> \E s \in Sockets : device[s] = d /\ Present(s)

\* The latest announcement of a process says whether the set is empty now: no
\* interleaving of arrivals and departures leaves a transition unannounced, or
\* announces one that did not take place.
AnnouncedIsCurrent == \A b \in running :
  b.n = started => (b.online <=> online # {})

\* Once no broadcast is under way, a page that got every update since its snapshot
\* in order shows the truth: the snapshot and the updates leave no window.
ShownIsCurrent ==
  page = "open" /\ ~ misled /\ running = {} => (Shown <=> online # {})

-----------------------------------------------------------------------------
(* Why they hold                                                            *)

\* Unless its device has overlapped, no two sockets are on their way.
OneEach == \A r, s \in Sockets :
  /\ phase[r] # "unused" => device[r] \in Devices
  /\ r # s /\ device[r] = device[s] /\ device[r] \notin overlapped
       => ~ (r \in Involved(device[r]) /\ s \in Involved(device[r]))

\* The newest broadcast is under way, or has overtaken those that still are.
NewestUnderWay == \E b \in running : b.n = started
NewestCounts == NewestUnderWay \/ latest = started \/ running = {}

\* What the page shows is the truth, or the newest broadcast will bring it.
PageCatchesUp == page # "closed" /\ ~ misled => NewestUnderWay \/ (Shown <=> online # {})

IInv == OneEach /\ SetIsExact /\ NewestCounts /\ AnnouncedIsCurrent /\ PageCatchesUp

-----------------------------------------------------------------------------
(* A claim of a comment that the code does not keep                         *)

\* socket.ts: online iff the set is non-empty, which is exact and free.  When no
\* handler is under way, the set is that of the devices that are connected.
OnlineIsConnected ==
  (\A s \in Sockets : phase[s] \in {"unused", "ready", "left"}) =>
    online = {device[s] : s \in open}
=============================================================================
