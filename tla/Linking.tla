------------------------------ MODULE Linking ------------------------------
(***************************************************************************)
(* Two devices of one user linked through a pairing session: the page of   *)
(* the host (new and empty), the page of the source (it has the history),  *)
(* the socket events between them and the server, the handshake of their   *)
(* peer connections, and the transfer over the data channel.               *)
(***************************************************************************)
EXTENDS Rendezvous, Sequences, Functions

CONSTANTS
  Host, Source,
  MaxJoins,    \* bound: how often the source joins, below MAX_JOIN_ATTEMPTS_PER_SOCKET
  MaxChunks,   \* bound: chunks of one transfer
  MaxUpsets    \* bound: cancellations, pages left, disconnections, broken channels and
               \* replaced sockets, all together

ASSUME Pair == Host # Source /\ {Host, Source} \subseteq Devices \ Foreign
ASSUME LinkBounds == {MaxJoins, MaxChunks, MaxUpsets} \subseteq Nat
ASSUME NoCount == None \notin 0 .. MaxChunks

VARIABLES
  asked,      \* the code that joinPairingSession runs for, None when it does not
  cancel,     \* the cancel handler under way for each: the session that was read
  inbox,      \* what the server has emitted to each and it has not handled
  page,       \* state.phase of each page
  code,       \* codeRef of each page
  link,       \* the latest PeerLink of each
  channel,    \* "none", "open", or "broken" when the network has gone
  pipe,       \* what the data channel carries
  job,        \* what the source's onopen callback has to do
  received,   \* items in the host's reassembler
  applying,   \* the latest applyBackupPayload on the host, and the code its payload is of:
              \* "no", "yes", "detached" once its page has gone, "shown"
  collected,  \* what the source has read of its store, for each code
  imported,   \* what is in the host's store
  joins, upsets,
  lost,       \* whether a socket has lost what was emitted to it
  orphan      \* a link of the host that linkRef was overwritten over: "none", "armed"
              \* while its timer runs, "past"

server   == <<rendezvous, asked, cancel>>
peers    == <<page, code, link>>
transfer == <<channel, pipe, job, received, applying, collected, imported>>
history  == <<joins, upsets, lost, orphan>>
vars     == <<server, inbox, peers, transfer, history>>

Ends == {Host, Source}

\* The messages of a transfer: chunk i is the number i.
Start   == 0
Done    == MaxChunks + 1
Collect == MaxChunks + 2    \* not a message: collectBackupPayload is still reading
Other(d) == IF d = Host THEN Source ELSE Host

NoCancel == [code |-> None, other |-> None]
NotApplying == [pc |-> "no", of |-> None, items |-> {}]
NoJob == [code |-> None, left |-> <<>>]

\* remote: "no" description, "setting" it, or "yes"; peer: the code of the link that
\* sent it; held: pendingCandidates has one;
\* said: its offer or answer has left; armed: the stall timer runs.
Closed     == [code |-> None, open |-> FALSE, peer |-> None, remote |-> "no", held |-> FALSE, added |-> FALSE,
               said |-> FALSE, iced |-> FALSE, armed |-> FALSE]

\* Fault: the constructor does not start the timer.
NewLinkUntimed(c) == [Closed EXCEPT !.code = c, !.open = TRUE]

NewLink(c) == [Closed EXCEPT !.code = c, !.open = TRUE, !.armed = TRUE]

Event(type, c) == [type |-> type, code |-> c]

Upset == upsets < MaxUpsets /\ upsets' = upsets + 1

Init ==
  /\ InitSessions /\ asked = None /\ cancel = [d \in Ends |-> NoCancel] /\ joins = 0
  /\ inbox = [d \in Ends |-> <<>>]
  /\ page = [d \in Ends |-> "idle"] /\ code = [d \in Ends |-> None]
  /\ link = [d \in Ends |-> Closed]
  /\ channel = "none" /\ pipe = <<>> /\ job = NoJob /\ received = {} /\ applying = NotApplying
  /\ collected = [c \in Codes |-> None] /\ imported = {}
  /\ upsets = 0 /\ lost = FALSE /\ orphan = "none"

-----------------------------------------------------------------------------
(* The server's end of the sockets.  What a client emits is dispatched at  *)
(* once: the delays that matter are those of the handler's own awaits.     *)

Emit(d, event) == inbox' = [inbox EXCEPT ![d] = Append(@, event)]

Signals == {"offer", "answer", "ice"}

\* handleDeviceLinkSignal: relayed between the two devices of a matched session only.
MaySignal(d, c) == Paired(c) = {d, Other(d)}

EmitSignal(d, type, c) ==
  IF MaySignal(d, c) THEN Emit(Other(d), Event(type, c)) ELSE UNCHANGED inbox

\* handleDeviceLinkCancel up to its GET.
EmitCancel(d) ==
  LET c == code[d] IN
  /\ cancel[d] = NoCancel
  /\ cancel' = IF c = None \/ d \notin Paired(c) THEN cancel
               ELSE [cancel EXCEPT ![d] = [code |-> c, other |->
                       IF session[c].host = d THEN session[c].source ELSE session[c].host]]
  /\ UNCHANGED <<rendezvous, asked>>

\* After the DEL, whom the session that was read had as the other is told.
Cancelled(d) ==
  LET c == cancel[d].code IN
  /\ c # None
  /\ Vanish(c) \/ (session[c] = None /\ UNCHANGED rendezvous)
  /\ cancel' = [cancel EXCEPT ![d] = NoCancel]
  /\ IF cancel[d].other = None THEN UNCHANGED inbox
     ELSE Emit(cancel[d].other, Event("cancelled", c))
  /\ UNCHANGED <<asked, peers, transfer, history>>

\* The join is one step of Rendezvous: there is one source, so no two overlap (Pairing).
\* The ack and peer-joined leave together.
JoinMatched ==
  /\ asked # None /\ Match(Source, asked) /\ asked' = None
  /\ inbox' = [inbox EXCEPT ![Source] = Append(@, Event("ack", asked)),
                            ![session[asked].host] = Append(@, Event("peer-joined", asked))]
  /\ UNCHANGED <<cancel, peers, transfer, history>>

JoinRefused ==
  /\ asked # None /\ ~Waiting(asked) /\ asked' = None
  /\ Emit(Source, Event("refused", None))
  /\ UNCHANGED <<rendezvous, cancel, peers, transfer, history>>

Expire(c) ==
  /\ Vanish(c)
  /\ UNCHANGED <<asked, cancel, inbox, peers, transfer, history>>

-----------------------------------------------------------------------------
(* A peer connection                                                       *)

Heard(d, type) == inbox[d] # <<>> /\ Head(inbox[d]).type = type
Handled(d) == inbox' = [inbox EXCEPT ![d] = Tail(@)]

\* Fault: the timer is not cleared.
CloseUncleared(d) ==
  /\ link' = [link EXCEPT ![d].open = FALSE]
  /\ IF d = Host THEN pipe' = <<>> ELSE pipe' = pipe

\* Closing a connection ends its channel at once: what has not reached the other
\* side by then never will.
Cut == \E n \in 0 .. Len(pipe) : pipe' = SubSeq(pipe, 1, n)
Close(d) ==
  /\ link' = [link EXCEPT ![d].open = FALSE, ![d].armed = FALSE]
  /\ IF ~link[d].open THEN UNCHANGED pipe
     ELSE IF d = Host THEN pipe' = <<>> ELSE Cut

Show(d, phase) == page' = [page EXCEPT ![d] = phase]

\* PeerLink.handleSignal up to its first await; it goes to linkRef, whatever its code.
OnCandidate(d) ==
  [link[d] EXCEPT !.armed = TRUE,
                  !.held = @ \/ link[d].remote # "yes",
                  !.added = @ \/ link[d].remote = "yes"]

\* An offer is taken by a connection that has none, an answer by one that has offered.
OnDescription(d, event) ==
  IF link[d].remote = "no" /\ (d = Host \/ link[d].said)
  THEN [link[d] EXCEPT !.armed = TRUE, !.remote = "setting", !.peer = event.code]
  ELSE [link[d] EXCEPT !.armed = TRUE]

HearSignal(d) ==
  /\ inbox[d] # <<>> /\ Head(inbox[d]).type \in Signals /\ Handled(d)
  /\ link' = IF ~link[d].open THEN link
             ELSE IF Head(inbox[d]).type = "ice" THEN [link EXCEPT ![d] = OnCandidate(d)]
             ELSE [link EXCEPT ![d] = OnDescription(d, Head(inbox[d]))]
  /\ UNCHANGED <<server, page, code, transfer, history>>

\* setRemoteDescription resolves: the candidates that came too early are added.
Described(l) == [l EXCEPT !.remote = "yes", !.added = @ \/ l.held, !.held = FALSE]

SetRemote(d) ==
  /\ link[d].open /\ link[d].remote = "setting"
  /\ link' = [link EXCEPT ![d] = Described(@)]
  /\ UNCHANGED <<server, inbox, page, code, transfer, history>>

\* createOffer, or createAnswer once the offer is set, and setLocalDescription.
SayDescription(d) ==
  /\ link[d].open /\ ~link[d].said
  /\ d = Host => link[d].remote = "yes"
  /\ link' = [link EXCEPT ![d].said = TRUE]
  /\ EmitSignal(d, IF d = Source THEN "offer" ELSE "answer", link[d].code)
  /\ UNCHANGED <<server, page, code, transfer, history>>

\* onicecandidate: gathering starts with the local description.
SayCandidate(d) ==
  /\ link[d].open /\ ~link[d].iced
  /\ d = Host => link[d].remote = "yes"
  /\ link' = [link EXCEPT ![d].iced = TRUE]
  /\ EmitSignal(d, "ice", link[d].code)
  /\ UNCHANGED <<server, page, code, transfer, history>>

\* A path needs the other side's description and a candidate that was added.
Connected(d) ==
  /\ link[d].open /\ link[d].said /\ link[d].remote = "yes" /\ link[d].added
  /\ link[d].peer = link[Other(d)].code

Timeout(d) ==
  /\ link[d].armed
  /\ Show(d, "failed")
  /\ IF d = Host THEN Close(d)
     ELSE link' = [link EXCEPT ![d].armed = FALSE] /\ UNCHANGED pipe
  /\ UNCHANGED <<server, inbox, code, channel, job, received, applying, collected, imported,
                 history>>

\* The link that was overwritten ends the one that came after it.
OrphanTimeout ==
  /\ orphan = "armed" /\ orphan' = "past"
  /\ Show(Host, "failed") /\ Close(Host)
  /\ UNCHANGED <<server, inbox, code, channel, job, received, applying, collected, imported, joins, upsets, lost>>

-----------------------------------------------------------------------------
(* The host's page                                                         *)

HostStart ==
  /\ page[Host] = "idle" /\ Show(Host, "starting")
  /\ UNCHANGED <<server, inbox, code, link, transfer, history>>

\* Which of the free codes is drawn does not matter.
FreshCode == CHOOSE c \in Codes : c \notin used

HostStarted ==
  /\ page[Host] = "starting"
  /\ \/ /\ used # Codes
        /\ Open(Host, FreshCode) /\ Show(Host, "waiting")
        /\ code' = [code EXCEPT ![Host] = FreshCode]
     \/ Show(Host, "failed") /\ UNCHANGED <<rendezvous, code>>
  /\ UNCHANGED <<asked, cancel, inbox, link, transfer, history>>

\* cancel: it tells the server while it has a code, closes the link and starts over.
PressCancel(d) ==
  /\ Upset /\ EmitCancel(d)
  /\ Close(d) /\ code' = [code EXCEPT ![d] = None] /\ Show(d, "idle")
  /\ UNCHANGED <<inbox, channel, job, received, applying, collected, imported, joins, lost, orphan>>

HostCancel == page[Host] = "waiting" /\ PressCancel(Host)

\* The payload does not say which code was joined.  A link that is overwritten is not
\* closed; what its own channel still brings is left out here, its timer is not.
HostHearJoined ==
  /\ Heard(Host, "peer-joined") /\ Handled(Host)
  /\ IF code[Host] = None THEN UNCHANGED <<page, link, received, channel, pipe, orphan>>
     ELSE /\ Show(Host, "connecting")
          /\ link' = [link EXCEPT ![Host] = NewLink(code[Host])]
          /\ orphan' = IF link[Host].open THEN "armed" ELSE orphan
          /\ received' = {} /\ channel' = "none" /\ pipe' = <<>>
  /\ UNCHANGED <<server, code, job, applying, collected, imported, joins, upsets, lost>>

HostHearCancelled ==
  /\ Heard(Host, "cancelled") /\ Handled(Host)
  /\ Close(Host) /\ Show(Host, "failed")
  /\ UNCHANGED <<server, code, channel, job, received, applying, collected, imported,
                 history>>

\* Fault: every message is taken for a chunk.
AllItems(message) == {message}

Items(message) == {message} \cap (1 .. MaxChunks)

Applying == applying.pc \in {"yes", "detached"}

\* onmessage: the reassembler takes a message; the last one starts the import, after
\* one that still runs.
HostMessage ==
  /\ link[Host].open /\ pipe # <<>> /\ pipe' = Tail(pipe)
  /\ received' = received \cup Items(Head(pipe))
  /\ Show(Host, "transferring")
  /\ IF Head(pipe) # Done THEN UNCHANGED applying
     ELSE /\ ~Applying
          /\ applying' = [pc |-> "yes", of |-> link[Host].peer, items |-> received]
  /\ UNCHANGED <<server, inbox, code, link, channel, job, collected, imported, history>>

\* The import has committed, in one transaction.  A page that has gone is not told.
HostApplied ==
  /\ Applying
  /\ imported' = imported \cup {<<applying.of, i>> : i \in applying.items}
  /\ IF applying.pc = "yes"
     THEN Close(Host) /\ Show(Host, "done") /\ applying' = [applying EXCEPT !.pc = "shown"]
     ELSE applying' = NotApplying /\ UNCHANGED <<link, pipe, page>>
  /\ UNCHANGED <<server, inbox, code, channel, job, received, collected, history>>

\* Nothing handles its rejection.
HostApplyFails ==
  /\ Applying /\ applying' = NotApplying
  /\ UNCHANGED <<server, inbox, peers, channel, pipe, job, received, collected, imported,
                 history>>

\* The page is left, or its panel is: the cleanup of the effect, and a new state next time.
Leave(d) ==
  /\ page[d] \notin {"idle", "starting", "joining"}
  /\ Upset
  /\ Close(d) /\ Show(d, "idle") /\ code' = [code EXCEPT ![d] = None]
  /\ applying' = IF d = Source THEN applying
                 ELSE IF Applying THEN [applying EXCEPT !.pc = "detached"] ELSE NotApplying
  /\ orphan' = IF d = Host /\ orphan = "armed" THEN "past" ELSE orphan
  /\ UNCHANGED <<server, inbox, channel, job, received, collected, imported, joins, lost>>

-----------------------------------------------------------------------------
(* The source's page                                                       *)

\* A code that was shown is scanned or typed.
SourceJoin(c) ==
  /\ page[Source] = "idle" /\ c \in used /\ asked = None
  /\ joins < MaxJoins /\ joins' = joins + 1
  /\ asked' = c /\ Show(Source, "joining")
  /\ UNCHANGED <<rendezvous, cancel, inbox, code, link, transfer, upsets, lost, orphan>>

SourceHearAck ==
  /\ \/ /\ Heard(Source, "ack")
        /\ code' = [code EXCEPT ![Source] = Head(inbox[Source]).code]
        /\ link' = [link EXCEPT ![Source] = NewLink(Head(inbox[Source]).code)]
        /\ Show(Source, "connecting")
     \/ Heard(Source, "refused") /\ Show(Source, "failed") /\ UNCHANGED <<code, link>>
  /\ Handled(Source)
  /\ UNCHANGED <<server, transfer, history>>

\* createOffer on a connection that was closed meanwhile throws.
SourceOfferFails ==
  /\ ~link[Source].open /\ ~link[Source].said /\ link[Source].code # None
  /\ link' = [link EXCEPT ![Source].said = TRUE] /\ Show(Source, "failed")
  /\ UNCHANGED <<server, inbox, code, transfer, history>>

SourceHearCancelled ==
  /\ Heard(Source, "cancelled") /\ Handled(Source)
  /\ Close(Source) /\ Show(Source, "failed")
  /\ UNCHANGED <<server, code, channel, job, received, applying, collected, imported,
                 history>>

SourceCancel == page[Source] \in {"connecting", "sending"} /\ PressCancel(Source)

ChannelOpens ==
  /\ channel = "none" /\ job = NoJob /\ Connected(Source) /\ Connected(Host)
  /\ channel' = "open" /\ job' = [code |-> link[Source].code, left |-> <<Collect>>]
  /\ UNCHANGED <<server, inbox, peers, pipe, received, applying, collected, imported,
                 history>>

\* Fault: "done" goes before the items.
DoneFirst(n) == <<Start, Done>> \o [i \in 1 .. n |-> i]

\* chunkBackupPayload: the items in order, and "done" is the last message.
Messages(n) == <<Start>> \o [i \in 1 .. n |-> i] \o <<Done>>

\* collectBackupPayload resolves, whatever has become of the link meanwhile.
SourceCollected ==
  /\ job.left = <<Collect>>
  /\ \E n \in 0 .. MaxChunks :
       /\ job' = [job EXCEPT !.left = Messages(n)]
       /\ collected' = [collected EXCEPT ![job.code] = n]
  /\ Show(Source, "sending")
  /\ UNCHANGED <<server, inbox, code, link, channel, pipe, received, applying, imported,
                 history>>

Sending    == job.left # <<>> /\ Head(job.left) # Collect
SourceLive == link[Source].open /\ link[Source].code = job.code
HostLive   == link[Host].open /\ link[Host].peer = job.code
Carried    == IF channel = "open" /\ HostLive THEN Append(pipe, Head(job.left)) ELSE pipe

SourceSend ==
  /\ Sending /\ SourceLive /\ Head(job.left) # Done
  /\ pipe' = Carried /\ job' = [job EXCEPT !.left = Tail(@)]
  /\ IF Head(job.left) = Start THEN UNCHANGED page ELSE Show(Source, "sending")
  /\ UNCHANGED <<server, inbox, code, link, channel, received, applying, collected, imported,
                 history>>

\* After the last send nothing is waited for: the connection closes.
SourceSent ==
  /\ Sending /\ SourceLive /\ Head(job.left) = Done
  /\ \E n \in 0 .. Len(Carried) : pipe' = SubSeq(Carried, 1, n)
  /\ link' = [link EXCEPT ![Source].open = FALSE, ![Source].armed = FALSE]
  /\ job' = NoJob /\ Show(Source, "done")
  /\ UNCHANGED <<server, inbox, code, channel, received, applying, collected, imported,
                 history>>

\* send on a closed channel throws, and nothing catches it.
SourceSendFails ==
  /\ Sending /\ ~(SourceLive /\ HostLive) /\ job' = NoJob
  /\ UNCHANGED <<server, inbox, peers, channel, pipe, received, applying, collected, imported,
                 history>>

-----------------------------------------------------------------------------
(* Faults                                                                  *)

\* What was emitted to the socket is lost, the answer to a join too: a join that is
\* under way is over before.
Drop(d) ==
  /\ Upset /\ lost' = TRUE
  /\ d = Source => asked = None
  /\ inbox' = [inbox EXCEPT ![d] = <<>>]

\* The socket reconnects.
Disconnect(d) ==
  /\ Drop(d)
  /\ UNCHANGED <<server, peers, transfer, joins, orphan>>

\* A new access token makes a new engine and with it a new socket (sync-context.tsx):
\* the effects are cleaned up and run again, the state stays.
Rewire(d) ==
  /\ Drop(d) /\ Close(d)
  /\ UNCHANGED <<server, page, code, channel, job, received, applying, collected, imported, joins, orphan>>

Break ==
  /\ Upset /\ channel = "open" /\ channel' = "broken" /\ Cut
  /\ UNCHANGED <<server, inbox, peers, job, received, applying, collected, imported, joins, lost, orphan>>

-----------------------------------------------------------------------------
ServerStep    == JoinMatched \/ JoinRefused \/ \E d \in Ends : Cancelled(d)
PeerStep(d)   == HearSignal(d) \/ SetRemote(d) \/ SayDescription(d) \/ SayCandidate(d)
HostHears     == HostHearJoined \/ HostHearCancelled
HostWorks     == HostStarted \/ HostMessage \/ HostApplied
SourceWorks   == SourceHearAck \/ SourceHearCancelled \/ SourceOfferFails
                 \/ SourceCollected \/ SourceSend \/ SourceSent

User ==
  \/ HostStart \/ HostCancel \/ SourceCancel
  \/ \E c \in Codes : SourceJoin(c)
  \/ \E d \in Ends : Leave(d)

Next ==
  \/ ServerStep
  \/ \E d \in Ends : PeerStep(d) \/ Timeout(d)
  \/ OrphanTimeout
  \/ HostHears \/ HostWorks \/ HostApplyFails \/ SourceWorks \/ SourceSendFails \/ ChannelOpens
  \/ User
  \/ \E d \in Ends : Disconnect(d) \/ Rewire(d)
  \/ Break
  \/ \E c \in Codes : Expire(c)

Spec == Init /\ [][Next]_vars

-----------------------------------------------------------------------------
(* Properties                                                              *)

Phases == {"idle", "starting", "waiting", "joining", "connecting", "sending", "transferring",
           "done", "failed"}
Links == [code : Codes \cup {None}, peer : Codes \cup {None}, open : BOOLEAN, remote : {"no", "setting", "yes"},
          held : BOOLEAN, added : BOOLEAN, said : BOOLEAN, iced : BOOLEAN, armed : BOOLEAN]

TypeOK ==
  /\ session \in [Codes -> [host : Devices, attempts : 0 .. 0, source : Devices \cup {None}] \cup {None}]
  /\ asked \in Codes \cup {None} /\ joins \in 0 .. MaxJoins
  /\ page \in [Ends -> Phases] /\ code \in [Ends -> Codes \cup {None}]
  /\ link \in [Ends -> Links]
  /\ channel \in {"none", "open", "broken"} /\ received \subseteq 1 .. MaxChunks
  /\ applying \in [pc : {"no", "yes", "detached", "shown"}, of : Codes \cup {None},
                    items : SUBSET (1 .. MaxChunks)]
  /\ collected \in [Codes -> 0 .. MaxChunks \cup {None}]
  /\ imported \subseteq Codes \X (1 .. MaxChunks)
  /\ upsets \in 0 .. MaxUpsets /\ lost \in BOOLEAN /\ orphan \in {"none", "armed", "past"}

(* "Done - restored N messages" is only ever shown with everything the      *)
(* source had read of its store in the host's, however often chunks were    *)
(* cut off, timers fired or pages were left.                                *)
RestoredIsComplete ==
  page[Host] = "done" => applying.pc = "shown" /\
    LET c == applying.of IN
    collected[c] # None /\ \A i \in 1 .. collected[c] : <<c, i>> \in imported

(* What the host's page has reported as done it does not take back, if only *)
(* one code was ever joined: no stall timer and no cancellation by the      *)
(* other side comes after it.  (The join of a code that was cancelled, and  *)
(* the timer of the link that it overwrites, do come after it.)             *)
DoneIsKept == [][page[Host] = "done" /\ joins <= 1 => page'[Host] \in {"done", "idle"}]_vars

(* The host's page never stays on "connecting" or "Receiving messages": the *)
(* stall timer of its link runs as long as it shows that, whatever became   *)
(* of the channel, the transfer and the import, unless its socket was       *)
(* replaced.                                                                *)
StallTimerRuns ==
  page[Host] \in {"connecting", "transferring"} => link[Host].armed \/ lost

-----------------------------------------------------------------------------
(* Why: the inductive invariant                                            *)

Events == [type : Signals \cup {"ack", "refused", "peer-joined", "cancelled"},
           code : Codes \cup {None}]

\* The shapes of what TypeOK leaves open, and which codes are really one.
Shapes ==
  /\ used \subseteq Codes
  /\ \A c \in Codes : session[c] # None =>
       c \in used /\ session[c].host = Host /\ session[c].source \in {Source, None}
  /\ cancel \in [Ends -> [code : Codes \cup {None}, other : Ends \cup {None}]]
  /\ \A d \in Ends : cancel[d].other \in {Other(d), None}
  /\ inbox \in [Ends -> Seq(Events)]
  /\ \A d \in Ends : \A e \in Range(inbox[d]) : e.type \in Signals \cup {"ack"} => e.code \in Codes
  /\ pipe \in Seq(0 .. Done) /\ job \in [code : Codes \cup {None}, left : Seq(0 .. Collect)]
  /\ job.left # <<>> => job.code \in Codes
  /\ \A d \in Ends : /\ link[d].open => link[d].code \in Codes
                     /\ link[d].remote # "no" => link[d].peer \in Codes
  /\ applying.pc # "no" => applying.of \in Codes

\* The channel belongs to a link of the host that has its remote description.
Conduit ==
  /\ channel = "none" \/ ~link[Host].open => pipe = <<>>
  /\ channel # "none" => link[Host].remote = "yes"

\* What onopen has to do is to collect, or to send what ends with "done".
Ending == job.left = <<Collect>> \/
  \A k \in DOMAIN job.left : job.left[k] # Collect /\ (job.left[k] = Done <=> k = Len(job.left))

\* The timer of the host's link runs while the link is open.
Timed == /\ link[Host].open => link[Host].armed
         /\ page[Host] = "done" => ~link[Host].armed

\* A code is acked once, and what is not acked yet has no trace on the source.
Untold(c) == c \notin used \/ Waiting(c) \/ Event("ack", c) \in Range(inbox[Source])
Traceless(c) ==
  /\ c \notin {link[Source].code, link[Host].peer, job.code, applying.of}
  /\ \A e \in Range(inbox[Host]) : e.type \in Signals => e.code # c
AckedOnce ==
  /\ \A j, k \in DOMAIN inbox[Source] :
       inbox[Source][j] = inbox[Source][k] /\ inbox[Source][j].type = "ack" => j = k
  /\ \A c \in Codes : c \notin used \/ Waiting(c) => Event("ack", c) \notin Range(inbox[Source])
  /\ \A c \in Codes : Untold(c) => Traceless(c)

\* Once "done" is on the channel or has come, the source has no more to do with the code.
Final(c) == (Done \in Range(pipe) /\ link[Host].peer = c) \/ applying.of = c
Finished == \A c \in Codes : Final(c) =>
  job.code # c /\ ~(link[Source].open /\ link[Source].code = c)

\* Whatever was collected is in S.
AllIn(c, S) == collected[c] # None /\ 1 .. collected[c] \subseteq S

\* Nothing of a transfer is lost while both ends and the channel are there; what precedes
\* "done" on the channel, or was received before it, is everything.
Complete ==
  /\ channel = "open" /\ Sending /\ SourceLive /\ HostLive =>
       AllIn(job.code, received \cup Range(pipe) \cup Range(job.left))
  /\ \A k \in DOMAIN pipe : pipe[k] = Done =>
       AllIn(link[Host].peer, received \cup {pipe[i] : i \in 1 .. k - 1})
  /\ applying.pc # "no" => AllIn(applying.of, applying.items)
  /\ applying.pc = "no" => applying.of = None

\* As long as one code was joined, at most: what has not come yet, and what has ended.
Told(d, type) == \E e \in Range(inbox[d]) : e.type = type
Alone(d, type) == \A j, k \in DOMAIN inbox[d] :
  inbox[d][j].type = type /\ inbox[d][k].type = type => j = k

Unheard   == joins = 0 \/ asked # None \/ Told(Host, "peer-joined")
Unlinked  == joins = 0 \/ asked # None \/ Told(Source, "ack")
CalledOff == cancel[Source] # NoCancel \/ Told(Host, "cancelled")
Ended     == Done \in Range(pipe) \/ Applying \/ page[Host] = "done"
Sourcing  == link[Source].open \/ job.left # <<>> \/ page[Source] \in {"connecting", "sending"}

OneJoin == joins <= 1 =>
  /\ orphan = "none"
  /\ joins = 0 => asked = None
  /\ joins = 0 \/ asked # None => ~Told(Host, "peer-joined") /\ ~Told(Source, "ack")
  /\ Alone(Host, "peer-joined") /\ Alone(Source, "ack")
  /\ Unheard => ~link[Host].open /\ ~Applying /\ page[Host] # "done"
  /\ Unlinked => ~Sourcing
  /\ CalledOff => ~Unlinked /\ ~link[Source].open
  /\ Ended => ~Unlinked /\ ~Sourcing /\ ~CalledOff

IInv == Conduit /\ Ending /\ Timed /\ AckedOnce /\ Finished /\ Complete /\ OneJoin
        /\ RestoredIsComplete /\ StallTimerRuns
=============================================================================
