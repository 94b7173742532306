------------------------------ MODULE Sessions ------------------------------
(***************************************************************************)
(* Signing in, refreshing, signing out and revoking: the handlers of the   *)
(* auth routes, each query an await, and the auth contexts of the tabs of  *)
(* one browser, which share a refresh token and a device id in             *)
(* localStorage and nothing else.                                          *)
(***************************************************************************)
EXTENDS Naturals, Sequences, FiniteSets

CONSTANTS
  Tabs,
  Users,        \* by their email, whether or not they have registered
  Links,        \* the magic links that can be asked for
  None,
  MaxDevices,   \* bound: rows of the devices table
  MaxPairs,     \* bound: token pairs issued
  MaxMore       \* bound: calls that begin or are lost once some have overlapped, or one
                \* was lost

ASSUME NoneAssumption == None \notin Users
ASSUME SessionBounds == MaxDevices \in Nat \ {0} /\ MaxPairs \in Nat \ {0} /\ MaxMore \in Nat

VARIABLES
  accounts,   \* the users there are
  devices,    \* the rows of the devices table
  pairs,      \* the token pairs issued: whose device, and for which refresh token
  links,      \* what Redis holds for a link, from when it is made until it is taken
  stored,     \* the refresh token in localStorage, as the number of its pair; 0 is none
  deviceId,   \* the device id in localStorage
  tab,        \* the state of each tab's auth context
  call,       \* what each tab is waiting for: to be restored, or an act of its user
  disturbed,  \* whether two calls were ever under way at once, or one failed on the network
  more,       \* how many began or were lost after that
  amiss       \* whether a logout was refused, or a sign-in named another device than the
              \* browser's, or one of another user

server  == <<accounts, devices, pairs, links>>
browser == <<stored, deviceId, tab>>
history == <<disturbed, more, amiss>>
vars    == <<server, browser, call, history>>

Kinds == {"restore", "act"}
Callers == Tabs \X Kinds

\* fresh: the access token has not expired.
Out(device) == [status |-> "out", device |-> device, access |-> 0, fresh |-> FALSE]
NoCall == [op |-> "none", pc |-> "none", user |-> None, device |-> 0, pair |-> 0, link |-> None]
NotMade == [state |-> "not made", user |-> None, device |-> 0]
Taken   == [NotMade EXCEPT !.state = "taken"]

Init ==
  /\ accounts = {} /\ devices = <<>> /\ pairs = <<>>
  /\ links = [l \in Links |-> NotMade]
  /\ stored = 0 /\ deviceId = 0
  /\ tab = [t \in Tabs |-> Out(0)]
  /\ call = [c \in Callers |-> NoCall]
  /\ disturbed = FALSE /\ more = 0 /\ amiss = FALSE

-----------------------------------------------------------------------------
(* Calls                                                                   *)

Busy(c)  == call[c].op # "none"
Quiet    == \A c \in Callers : ~Busy(c)
At(c, pc) == call[c].pc = pc

More(n) == more' = more + (IF disturbed THEN n ELSE 0) /\ more' <= MaxMore

\* The calls of `new` begin.
Begin(new) ==
  /\ More(Cardinality(DOMAIN new))
  /\ call' = [c \in Callers |-> IF c \in DOMAIN new THEN new[c] ELSE call[c]]
  /\ disturbed' = (disturbed \/ ~Quiet \/ \E c, d \in DOMAIN new : c # d)

Refresh(token) == [NoCall EXCEPT !.op = "refresh", !.pc = "find", !.pair = token]

SignIn(op, pc, user, device) ==
  [NoCall EXCEPT !.op = op, !.pc = pc, !.user = user, !.device = device]

\* A sign-in names a device: the browser's own, or one it should not name.
Names(user, device) ==
  amiss' = (amiss \/ device # deviceId \/ (device # 0 /\ devices[device].user # user))

GoTo(c, pc) == call' = [call EXCEPT ![c].pc = pc]
Over(c)     == call' = [call EXCEPT ![c] = NoCall]

-----------------------------------------------------------------------------
(* The server's handlers                                                   *)

\* refreshTokens: by hash, and of a device that is not revoked.
Holders(token) == {d \in DOMAIN devices : devices[d].hash = token /\ ~devices[d].revoked}

Find(c) ==
  /\ At(c, "find")
  /\ IF Holders(call[c].pair) = {} THEN GoTo(c, "failed")
     ELSE \E d \in Holders(call[c].pair) :
            call' = [call EXCEPT ![c].pc = "issue", ![c].device = d]
  /\ UNCHANGED <<server, browser, history>>

\* loginUser and registerUser look the email up; so does findOrCreateOAuthUser.
LookUp(c) ==
  /\ At(c, "account")
  /\ GoTo(c, IF call[c].user \in accounts
             THEN IF call[c].op = "register" THEN "failed" ELSE "upsert"
             ELSE IF call[c].op = "login" THEN "failed" ELSE "create")
  /\ UNCHANGED <<server, browser, history>>

\* The email is unique: the insert fails if another one came first.
CreateUser(c) ==
  /\ At(c, "create")
  /\ GoTo(c, IF call[c].user \in accounts THEN "failed" ELSE "upsert")
  /\ accounts' = accounts \cup {call[c].user}
  /\ UNCHANGED <<devices, pairs, links, browser, history>>

\* getdel: whoever comes first has the link.
Take(c) ==
  LET l == call[c].link  link == links[l] IN
  /\ At(c, "take")
  /\ IF link.state # "made" THEN GoTo(c, "failed") /\ UNCHANGED <<links, amiss>>
     ELSE /\ links' = [links EXCEPT ![l] = Taken]
          /\ call' = [call EXCEPT ![c].pc = "upsert", ![c].user = link.user,
                                  ![c].device = link.device]
          /\ Names(link.user, link.device)
  /\ UNCHANGED <<accounts, devices, pairs, browser, disturbed, more>>

\* Fault: no row is ever found again.
NeverReusable(user, device) == FALSE

\* upsertDevice: the row it was given the id of, if it is the user's and not revoked.
Reusable(user, device) ==
  device # 0 /\ devices[device].user = user /\ ~devices[device].revoked

Upsert(c) ==
  /\ At(c, "upsert")
  /\ IF Reusable(call[c].user, call[c].device)
     THEN GoTo(c, "issue") /\ UNCHANGED devices
     ELSE /\ Len(devices) < MaxDevices
          /\ devices' = Append(devices, [user |-> call[c].user, revoked |-> FALSE, hash |-> 0])
          /\ call' = [call EXCEPT ![c].pc = "issue", ![c].device = Len(devices) + 1]
  /\ UNCHANGED <<accounts, pairs, links, browser, history>>

\* issueTokenPair: whatever has become of the row since it was read.
Issue(c) ==
  LET d == call[c].device  n == Len(pairs) + 1 IN
  /\ At(c, "issue") /\ n <= MaxPairs
  /\ pairs' = Append(pairs, [device |-> d, from |-> call[c].pair])
  /\ devices' = [devices EXCEPT ![d].hash = n]
  /\ call' = [call EXCEPT ![c].pc = "answered", ![c].pair = n]
  /\ UNCHANGED <<accounts, links, browser, history>>

\* The authenticate hook: the token is still good and the device not revoked.
Accepts(t) == tab[t].fresh /\ ~devices[pairs[tab[t].access].device].revoked

Authenticate(t) ==
  LET c == <<t, "act">> IN
  /\ At(c, "authenticate")
  /\ GoTo(c, IF Accepts(t) THEN "clear" ELSE "failed")
  /\ amiss' = (amiss \/ ~Accepts(t))
  /\ UNCHANGED <<server, browser, disturbed, more>>

\* Fault: the row keeps its hash.
NotCleared(c) ==
  /\ At(c, "clear") /\ GoTo(c, "answered")
  /\ UNCHANGED <<server, browser, history>>

\* logoutDevice.
Clear(c) ==
  /\ At(c, "clear") /\ GoTo(c, "answered")
  /\ devices' = [devices EXCEPT ![call[c].device].hash = 0]
  /\ UNCHANGED <<accounts, pairs, links, browser, history>>

\* revokeDevice, asked for from another device of the user.
Revoke(d) ==
  /\ ~devices[d].revoked
  /\ devices' = [devices EXCEPT ![d].revoked = TRUE, ![d].hash = 0]
  /\ UNCHANGED <<accounts, pairs, links, browser, call, history>>

ServerStep(c) ==
  \/ Find(c) \/ LookUp(c) \/ CreateUser(c) \/ Take(c) \/ Upsert(c) \/ Issue(c)
  \/ Clear(c)

-----------------------------------------------------------------------------
(* The auth context of a tab                                               *)

\* With a link in the address of the page it is verified while the session is restored,
\* since RequireGuest shows the page meanwhile.
Verifying(t, l) == IF l = None THEN {} ELSE {<<t, "act">>}
Verify(l) == [SignIn("link", "take", None, 0) EXCEPT !.link = l]

\* The session is restored if there is a refresh token.
Restoring(t) == IF stored = 0 THEN {} ELSE {<<t, "restore">>}

\* The page is loaded, or loaded again.
Load(t, l) ==
  /\ \A k \in Kinds : ~Busy(<<t, k>>)
  /\ l # None => links[l].state # "not made"
  /\ tab' = [tab EXCEPT ![t] = [Out(deviceId) EXCEPT
                                  !.status = IF stored = 0 THEN "out" ELSE "loading"]]
  /\ Begin([c \in Verifying(t, l) \cup Restoring(t) |->
              IF c[2] = "act" THEN Verify(l) ELSE Refresh(stored)])
  /\ UNCHANGED <<server, stored, deviceId, amiss>>

\* One call of the tab's user.
Act(t, what) == Begin([c \in {<<t, "act">>} |-> what])

Guest(t) == tab[t].status = "out" /\ ~Busy(<<t, "act">>)

\* What is sent is the device id that the tab has read when it was loaded.
Submit(t, op, u) ==
  /\ Guest(t)
  /\ Act(t, SignIn(op, "account", u, tab[t].device))
  /\ Names(u, tab[t].device)
  /\ UNCHANGED <<server, browser>>

SubmitForm(t, u) == \E op \in {"login", "register"} : Submit(t, op, u)

\* The device id goes by the state, which is taken by the one callback it was made for.
ContinueWithGithub(t, u) == Submit(t, "oauth", u)

\* requestMagicLink, which is silent for a user there is not.
MakeLink(t, l, u) ==
  /\ Guest(t) /\ links[l] = NotMade /\ u \in accounts
  /\ links' = [links EXCEPT ![l] = [state |-> "made", user |-> u, device |-> tab[t].device]]
  /\ UNCHANGED <<accounts, devices, pairs, browser, call, history>>

\* Fault: a tab refreshes with the refresh token that it got itself.
OwnToken(t) == tab[t].access

RefreshToken(t) == stored

\* authedCall is answered with a 401.
CallRefused(t) ==
  /\ tab[t].status = "in" /\ ~Busy(<<t, "act">>)
  /\ ~Accepts(t) /\ RefreshToken(t) # 0
  /\ Act(t, Refresh(RefreshToken(t)))
  /\ UNCHANGED <<server, browser, amiss>>

Logout(t) ==
  /\ tab[t].status = "in" /\ ~Busy(<<t, "act">>)
  /\ Act(t, [NoCall EXCEPT !.op = "logout", !.pc = "authenticate",
                          !.device = pairs[tab[t].access].device])
  /\ UNCHANGED <<server, browser, amiss>>

\* Fault: the access token is not kept.
InWithout(t, n) == [tab[t] EXCEPT !.status = "in"]

In(t, n) == [tab[t] EXCEPT !.status = "in", !.access = n, !.fresh = TRUE]

\* applyAuthResult.
SignedIn(t) ==
  LET c == <<t, "act">>  n == call[c].pair IN
  /\ At(c, "answered") /\ call[c].op \in {"login", "register", "link"} /\ Over(c)
  /\ stored' = n /\ deviceId' = call[c].device
  /\ tab' = [tab EXCEPT ![t] = [In(t, n) EXCEPT !.device = call[c].device]]
  /\ UNCHANGED <<server, history>>

\* completeOAuthCallback on the page that the server redirects to: it stores the tokens and
\* asks for the user, while the context of the new page is restored with them.
CallbackLoaded(t) ==
  LET c == <<t, "act">>  n == call[c].pair IN
  /\ At(c, "answered") /\ call[c].op = "oauth"
  /\ stored' = n /\ deviceId' = call[c].device
  /\ tab' = [tab EXCEPT ![t] = [Out(call[c].device) EXCEPT !.status = "loading"]]
  /\ call' = [call EXCEPT ![c].pc = "me", ![<<t, "restore">>] = Refresh(n)]
  /\ UNCHANGED <<server, history>>

\* Fault: the refresh token that was answered is not stored.
NotStored(t, n) == stored' = stored

Store(t, n) == stored' = n

\* A refresh is answered: an authedCall goes on, a restored session asks who it is.
Refreshed(t, k) ==
  LET c == <<t, k>>  n == call[c].pair IN
  /\ At(c, "answered") /\ call[c].op = "refresh" /\ Store(t, n)
  /\ IF k = "restore" THEN GoTo(c, "me") /\ UNCHANGED tab
     ELSE Over(c) /\ tab' = [tab EXCEPT ![t].access = n, ![t].fresh = TRUE]
  /\ UNCHANGED <<server, deviceId, history>>

Me(t, k) ==
  LET c == <<t, k>>  n == call[c].pair IN
  /\ At(c, "me") /\ ~devices[pairs[n].device].revoked /\ Over(c)
  /\ tab' = [tab EXCEPT ![t] = In(t, n)]
  /\ UNCHANGED <<server, stored, deviceId, history>>

MeRefused(t, k) ==
  LET c == <<t, k>> IN
  /\ At(c, "me") /\ devices[pairs[call[c].pair].device].revoked /\ GoTo(c, "failed")
  /\ UNCHANGED <<server, browser, history>>

\* Whatever a restore failed of, the token goes, whichever it is by then.
NotRestored(t) ==
  LET c == <<t, "restore">> IN
  /\ At(c, "failed") /\ Over(c)
  /\ stored' = 0 /\ tab' = [tab EXCEPT ![t].status = "out"]
  /\ UNCHANGED <<server, deviceId, history>>

\* Logging out does not wait for the server to agree.
LoggedOut(t) ==
  LET c == <<t, "act">> IN
  /\ call[c].op = "logout" /\ call[c].pc \in {"answered", "failed"} /\ Over(c)
  /\ stored' = 0 /\ tab' = [tab EXCEPT ![t] = Out(@.device)]
  /\ UNCHANGED <<server, deviceId, history>>

\* Everything else that fails is shown, or thrown to the page that asked.
Failed(t) ==
  LET c == <<t, "act">> IN
  /\ At(c, "failed") /\ call[c].op # "logout" /\ Over(c)
  /\ UNCHANGED <<server, browser, history>>

TabStep(t) ==
  \/ SignedIn(t) \/ CallbackLoaded(t) \/ NotRestored(t) \/ LoggedOut(t) \/ Failed(t)
  \/ \E k \in Kinds : Refreshed(t, k) \/ Me(t, k) \/ MeRefused(t, k)

User(t) ==
  \/ \E l \in Links \cup {None} : Load(t, l)
  \/ CallRefused(t) \/ Logout(t)
  \/ \E u \in Users : SubmitForm(t, u) \/ ContinueWithGithub(t, u)
  \/ \E u \in Users, l \in Links : MakeLink(t, l, u)

-----------------------------------------------------------------------------
(* Faults                                                                  *)

\* An access token of a quarter of an hour.
Expire(t) ==
  /\ tab[t].fresh /\ tab' = [tab EXCEPT ![t].fresh = FALSE]
  /\ UNCHANGED <<server, stored, deviceId, call, history>>

\* A request or its answer is lost.
Lose(c) ==
  /\ call[c].pc \in {"find", "account", "take", "authenticate", "answered", "me"}
  /\ GoTo(c, "failed") /\ disturbed' = TRUE /\ More(1)
  /\ UNCHANGED <<server, browser, amiss>>

Next ==
  \/ \E c \in Callers : ServerStep(c) \/ Lose(c)
  \/ \E t \in Tabs : Authenticate(t) \/ TabStep(t) \/ User(t) \/ Expire(t)
  \/ \E d \in DOMAIN devices : Revoke(d)

Spec == Init /\ [][Next]_vars

-----------------------------------------------------------------------------
(* Properties                                                              *)

Rows == [user : Users, revoked : BOOLEAN, hash : 0 .. MaxPairs]

TypeOK ==
  /\ accounts \subseteq Users
  /\ Len(devices) <= MaxDevices /\ \A d \in DOMAIN devices : devices[d] \in Rows
  /\ Len(pairs) <= MaxPairs
  /\ \A n \in DOMAIN pairs : pairs[n] \in [device : DOMAIN devices, from : 0 .. n - 1]
  /\ stored \in 0 .. Len(pairs) /\ deviceId \in 0 .. Len(devices)
  /\ \A t \in Tabs : tab[t].access \in 0 .. Len(pairs) /\ (tab[t].status = "in" => tab[t].access # 0)

Calm == Quiet /\ ~disturbed

Live(d) == ~devices[d].revoked /\ devices[d].hash # 0

(* However tabs are loaded, signed in, refreshed and closed, one call at a  *)
(* time, the refresh token in localStorage is the one the server has the    *)
(* hash of: it never keeps one that was rotated away in another tab.        *)
StoredIsCurrent ==
  Calm /\ stored # 0 =>
    LET row == devices[pairs[stored].device] IN row.revoked \/ row.hash = stored

(* One call at a time, a browser without a refresh token has left none      *)
(* behind that the server would still accept, unless a logout was refused   *)
(* or a sign-in named the wrong device.                                     *)
NoSessionLeft ==
  Calm /\ ~amiss /\ stored = 0 => \A d \in DOMAIN devices : ~Live(d)

(* One call at a time, a browser that signs in again and again, by form,    *)
(* link or OAuth, is one device: it adds a row only when the one that it    *)
(* names was revoked.                                                       *)
OneDevice ==
  Calm /\ ~amiss =>
    \A d, e \in DOMAIN devices : d # e => devices[d].revoked \/ devices[e].revoked

(* One call at a time, a refresh is refused only if the device was revoked: *)
(* neither reloading nor an access token that expires signs anybody out.    *)
RefreshHonoured ==
  ~disturbed => \A c \in Callers :
    call[c].op = "refresh" /\ call[c].pc = "failed" =>
      devices[pairs[call[c].pair].device].revoked

(* What ADR-0004 says of refresh tokens: using one rotates it.              *)
UsedOnce == \A m, n \in DOMAIN pairs :
  m # n /\ pairs[m].from # 0 => pairs[m].from # pairs[n].from

-----------------------------------------------------------------------------
(* Why: the inductive invariant                                            *)

SignIns == {"login", "register", "oauth", "link"}
Stages  == {"none", "find", "account", "create", "take", "upsert", "issue", "authenticate",
            "clear", "answered", "me", "failed"}

\* The shapes of what TypeOK leaves open.
Calls == [op : {"none", "refresh", "logout"} \cup SignIns, pc : Stages,
          user : Users \cup {None}, device : 0 .. Len(devices), pair : 0 .. Len(pairs),
          link : Links \cup {None}]
Holds == [state : {"not made", "made", "taken"}, user : Users \cup {None},
          device : 0 .. Len(devices)]
Contexts == [status : {"out", "loading", "in"}, device : 0 .. Len(devices),
             access : 0 .. Len(pairs), fresh : BOOLEAN]

Shapes ==
  /\ devices \in Seq(Rows) /\ pairs \in Seq([device : Nat, from : Nat])
  /\ call \in [Callers -> Calls] /\ links \in [Links -> Holds] /\ tab \in [Tabs -> Contexts]
  /\ disturbed \in BOOLEAN /\ amiss \in BOOLEAN

\* What a call of each kind is waiting for, and what it knows by then.
Follows(c) ==
  LET a == call[c] IN
  /\ c[2] = "restore" => a.op \in {"none", "refresh"}
  /\ a.op = "none" => a.pc = "none"
  /\ a.op = "refresh" => a.pair # 0 /\ a.pc \in {"find", "issue", "answered", "me", "failed"}
  /\ a.op = "logout" => a.device # 0 /\ a.pc \in {"authenticate", "clear", "answered", "failed"}
  /\ a.op \in SignIns => a.pc \in Stages \ {"none", "find", "authenticate", "clear"}
  /\ a.pc \in {"account", "create", "upsert"} => a.user \in Users
  /\ a.pc = "take" => a.link \in Links
  /\ a.pc = "issue" => a.device # 0
  /\ a.pc = "answered" /\ a.op # "logout" => a.pair # 0 /\ pairs[a.pair].device = a.device
  /\ a.pc = "me" => a.pair # 0

\* Who asks for a link has an account; who holds a hash was issued its pair.
LinksKnow == \A l \in Links : links[l].state = "made" => links[l].user \in Users
HashesKnow == \A d \in DOMAIN devices :
  devices[d].hash # 0 => devices[d].hash \in DOMAIN pairs /\ pairs[devices[d].hash].device = d

Wellformed == (\A c \in Callers : Follows(c)) /\ LinksKnow /\ HashesKnow

\* Calls that were never disturbed are alone, but for what completeOAuthCallback still asks.
Aside(c) == call[c].op = "oauth" /\ call[c].pc \in {"me", "failed"}
Alone == \A c, d \in Callers : Busy(c) /\ Busy(d) /\ ~Aside(c) /\ ~Aside(d) => c = d

\* The row that a pair was issued for, which holds its hash until it is revoked.
RowOf(n) == devices[pairs[n].device]
Current(n) == RowOf(n).revoked \/ RowOf(n).hash = n
Answered == \E c \in Callers : At(c, "answered")

StoredKept ==
  stored # 0 => pairs[stored].device = deviceId /\ (Answered \/ Current(stored))

\* What a call that is alone is for: the browser's session, or a new one.
Kept(c) ==
  LET a == call[c] IN
  /\ a.op = "refresh" =>
       /\ a.pc # "answered" => a.pair = stored
       /\ a.pc = "issue" => a.device = deviceId
       /\ a.pc = "answered" => stored # 0 /\ a.device = deviceId /\ Current(a.pair)
       /\ a.pc = "failed" => RowOf(a.pair).revoked
  /\ a.op \in SignIns /\ a.pc = "answered" => Current(a.pair)
  /\ a.op = "logout" /\ a.pc = "authenticate" => a.device = pairs[tab[c[1]].access].device

\* A device that has a row, or takes one, is the only one that is not revoked.
Only(device) == \A d \in DOMAIN devices : d # device => devices[d].revoked
Placed(c) == call[c].op \in SignIns /\ call[c].pc \in {"issue", "answered"}
OneRow == (\A c \in Callers : ~Placed(c)) => Only(deviceId)

NoneLeft == stored = 0 /\ ~Answered => \A d \in DOMAIN devices : ~Live(d)

\* And whose device it is about.
Own(c) ==
  LET a == call[c] IN
  /\ Placed(c) => Only(a.device)
  /\ a.op \in SignIns /\ a.pc \in {"account", "create", "upsert"} =>
       a.device = deviceId /\ (a.device # 0 => devices[a.device].user = a.user)
  /\ a.op = "logout" =>
       /\ a.pc \in {"clear", "answered"} => a.device = deviceId
       /\ a.pc = "answered" => ~Live(a.device)
       /\ a.pc # "failed"

IInv ==
  /\ Wellformed
  /\ ~disturbed => Alone /\ StoredKept /\ \A c \in Callers : Kept(c)
  /\ ~disturbed /\ ~amiss => OneRow /\ NoneLeft /\ \A c \in Callers : Own(c)
=============================================================================
