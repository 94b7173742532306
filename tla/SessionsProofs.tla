--------------------------- MODULE SessionsProofs ---------------------------
(***************************************************************************)
(* Sessions for any number of tabs, users, devices and token pairs: one    *)
(* call at a time, the browser keeps the session that the server holds.    *)
(***************************************************************************)
EXTENDS Sessions, SequenceTheorems, TLAPS

USE DEF server, browser, history, vars

\* The limits one by one.
LEMMA Limits == MaxDevices \in Nat /\ MaxPairs \in Nat /\ MaxMore \in Nat
BY SessionBounds

Types == TypeOK /\ Shapes
Inv == Types /\ IInv

-----------------------------------------------------------------------------
(* The types, part by part                                                  *)

DevicesTyped == devices \in Seq(Rows) /\ Len(devices) <= MaxDevices
PairsTyped ==
  /\ pairs \in Seq([device : Nat, from : Nat]) /\ Len(pairs) <= MaxPairs
  /\ \A n \in DOMAIN pairs : pairs[n] \in [device : DOMAIN devices, from : 0 .. n - 1]
CallsTyped == call \in [Callers -> Calls]
LinksTyped == accounts \subseteq Users /\ links \in [Links -> Holds]
TabsTyped ==
  /\ tab \in [Tabs -> Contexts]
  /\ \A t \in Tabs : tab[t].status = "in" => tab[t].access # 0
BrowserTyped == stored \in 0 .. Len(pairs) /\ deviceId \in 0 .. Len(devices)
FlagsTyped == disturbed \in BOOLEAN /\ amiss \in BOOLEAN

Parts ==
  /\ DevicesTyped /\ PairsTyped /\ CallsTyped /\ LinksTyped /\ TabsTyped /\ BrowserTyped
  /\ FlagsTyped

LEMMA TypesAreParts == Types <=> Parts
<1>1. ASSUME Types PROVE Parts
  <2>1. TypeOK /\ Shapes BY <1>1 DEF Types
  <2>2. DevicesTyped BY <2>1 DEF TypeOK, Shapes, DevicesTyped
  <2>3. PairsTyped BY <2>1 DEF TypeOK, Shapes, PairsTyped
  <2>4. TabsTyped BY <2>1 DEF TypeOK, Shapes, TabsTyped
  <2> QED BY <2>1, <2>2, <2>3, <2>4
           DEF TypeOK, Shapes, Parts, CallsTyped, LinksTyped, BrowserTyped, FlagsTyped
<1>2. ASSUME Parts PROVE Types
  <2>1. /\ DevicesTyped /\ PairsTyped /\ CallsTyped /\ LinksTyped /\ TabsTyped /\ BrowserTyped
        /\ FlagsTyped
    BY <1>2 DEF Parts
  <2>2. Shapes
    BY <2>1 DEF Shapes, DevicesTyped, PairsTyped, CallsTyped, LinksTyped, TabsTyped, FlagsTyped
  <2>3. \A d \in DOMAIN devices : devices[d] \in Rows BY <2>1, ElementOfSeq DEF DevicesTyped
  <2>4. \A t \in Tabs : tab[t].access \in 0 .. Len(pairs) BY <2>1 DEF TabsTyped, Contexts
  <2>5. TypeOK
    BY <2>1, <2>3, <2>4
    DEF TypeOK, DevicesTyped, PairsTyped, LinksTyped, TabsTyped, BrowserTyped
  <2> QED BY <2>2, <2>5 DEF Types
<1> QED BY <1>1, <1>2

\* What the types say of the tables and of the calls.
LEMMA TableTypes ==
  ASSUME Types
  PROVE  /\ Len(devices) \in Nat /\ DOMAIN devices = 1 .. Len(devices)
         /\ Len(pairs) \in Nat /\ DOMAIN pairs = 1 .. Len(pairs)
         /\ \A d \in 1 .. Len(devices) :
              devices[d] \in Rows /\ devices[d].hash \in 0 .. MaxPairs
              /\ devices[d].revoked \in BOOLEAN
         /\ \A n \in 1 .. Len(pairs) : pairs[n].device \in 1 .. Len(devices)
         /\ stored \in 0 .. Len(pairs) /\ deviceId \in 0 .. Len(devices)
<1>1. DevicesTyped /\ PairsTyped /\ BrowserTyped BY TypesAreParts DEF Parts
<1>2. Len(devices) \in Nat /\ DOMAIN devices = 1 .. Len(devices)
  BY <1>1, LenProperties DEF DevicesTyped
<1>3. Len(pairs) \in Nat /\ DOMAIN pairs = 1 .. Len(pairs)
  BY <1>1, LenProperties DEF PairsTyped
<1>4. \A d \in 1 .. Len(devices) : devices[d] \in Rows BY <1>1, ElementOfSeq DEF DevicesTyped
<1>5. \A n \in 1 .. Len(pairs) : pairs[n].device \in 1 .. Len(devices)
  BY <1>1, <1>2, <1>3 DEF PairsTyped
<1> QED BY <1>1, <1>2, <1>3, <1>4, <1>5 DEF Rows, BrowserTyped

LEMMA CallTypes ==
  ASSUME Types, NEW c \in Callers
  PROVE  /\ call[c] \in Calls /\ call[c].pc \in Stages
         /\ call[c].op \in {"none", "refresh", "logout"} \cup SignIns
         /\ call[c].user \in Users \cup {None} /\ call[c].link \in Links \cup {None}
         /\ call[c].device \in 0 .. Len(devices) /\ call[c].pair \in 0 .. Len(pairs)
<1>1. CallsTyped BY TypesAreParts DEF Parts
<1> QED BY <1>1 DEF CallsTyped, Calls

LEMMA TabTypes ==
  ASSUME Types, NEW t \in Tabs
  PROVE  /\ tab[t] \in Contexts /\ tab[t].status \in {"out", "loading", "in"}
         /\ tab[t].device \in 0 .. Len(devices) /\ tab[t].access \in 0 .. Len(pairs)
         /\ tab[t].fresh \in BOOLEAN /\ (tab[t].status = "in" => tab[t].access # 0)
<1>1. TabsTyped BY TypesAreParts DEF Parts
<1> QED BY <1>1 DEF TabsTyped, Contexts

\* A caller is the restore or the act of one tab.
LEMMA CallersAre ==
  /\ \A t \in Tabs, k \in Kinds :
       <<t, k>> \in Callers /\ <<t, k>>[1] = t /\ <<t, k>>[2] = k
  /\ \A t \in Tabs : <<t, "act">> \in Callers /\ <<t, "restore">> \in Callers
  /\ \A c \in Callers : c[1] \in Tabs /\ c[2] \in Kinds /\ c = <<c[1], c[2]>>
  /\ \A t : <<t, "act">> # <<t, "restore">>
BY DEF Callers, Kinds

-----------------------------------------------------------------------------
(* What a step does to the calls                                            *)

\* Nothing but the call of c.
Rest(c) == \A d \in Callers : d # c => call'[d] = call[d]

\* The call of c goes on with what it knows.
Goes(c, pc) ==
  LET a == call[c]  b == call'[c] IN
  /\ b.op = a.op /\ b.pc = pc /\ b.user = a.user /\ b.device = a.device /\ b.pair = a.pair
  /\ b.link = a.link

LEMMA Sets ==
  ASSUME CallsTyped, NEW c \in Callers, NEW a, call' = [call EXCEPT ![c] = a]
  PROVE  /\ call'[c] = a /\ Rest(c)
         /\ Calls \subseteq Calls' /\ a \in Calls' => CallsTyped'
<1>1. call'[c] = a /\ Rest(c) BY DEF CallsTyped, Rest
<1>2. ASSUME Calls \subseteq Calls', a \in Calls' PROVE CallsTyped'
  BY <1>2 DEF CallsTyped
<1> QED BY <1>1, <1>2

LEMMA GoesTo ==
  ASSUME CallsTyped, NEW c \in Callers, NEW pc \in Stages, GoTo(c, pc)
  PROVE  /\ Goes(c, pc) /\ Rest(c)
         /\ Calls \subseteq Calls' => CallsTyped'
<1> DEFINE a == [call[c] EXCEPT !.pc = pc]
<1>1. call' = [call EXCEPT ![c] = a] BY DEF GoTo
<1>2. call[c] \in Calls BY DEF CallsTyped
<1>3. /\ a \in Calls /\ a.op = call[c].op /\ a.pc = pc /\ a.user = call[c].user
      /\ a.device = call[c].device /\ a.pair = call[c].pair /\ a.link = call[c].link
  BY <1>2 DEF Calls
<1> HIDE DEF a
<1>4. call'[c] = a /\ Rest(c) /\ (Calls \subseteq Calls' /\ a \in Calls' => CallsTyped')
  BY <1>1, Sets
<1> QED BY <1>3, <1>4 DEF Goes

LEMMA NoCallIs ==
  /\ NoCall.op = "none" /\ NoCall.pc = "none" /\ NoCall \in Calls /\ NoCall \in Calls'
BY DEF NoCall, Calls, Stages

LEMMA Ends ==
  ASSUME CallsTyped, NEW c \in Callers, Over(c)
  PROVE  /\ call'[c].op = "none" /\ call'[c].pc = "none" /\ Rest(c)
         /\ Calls \subseteq Calls' => CallsTyped'
<1>1. call'[c] = NoCall /\ Rest(c) /\ (Calls \subseteq Calls' => CallsTyped')
  BY Sets, NoCallIs DEF Over
<1> QED BY <1>1, NoCallIs

-----------------------------------------------------------------------------
(* Tables that only grow                                                    *)

Grown ==
  /\ Len(devices) <= Len(devices') /\ Len(pairs) <= Len(pairs')
  /\ \A n \in 1 .. Len(pairs) : pairs'[n] = pairs[n]

LEMMA GrownTypes ==
  ASSUME Types, Grown, DevicesTyped', PairsTyped'
  PROVE  /\ Calls \subseteq Calls' /\ Holds \subseteq Holds' /\ Contexts \subseteq Contexts'
         /\ UNCHANGED <<accounts, links>> => LinksTyped'
         /\ UNCHANGED tab => TabsTyped'
         /\ UNCHANGED <<stored, deviceId>> => BrowserTyped'
         /\ UNCHANGED history => FlagsTyped'
<1>1. LinksTyped /\ TabsTyped /\ BrowserTyped /\ FlagsTyped BY TypesAreParts DEF Parts
<1>2. Len(devices) \in Nat /\ Len(pairs) \in Nat BY TableTypes
<1>3. Len(devices') \in Nat /\ Len(pairs') \in Nat
  BY LenProperties DEF DevicesTyped, PairsTyped
<1>4. 0 .. Len(devices) \subseteq 0 .. Len(devices') /\ 0 .. Len(pairs) \subseteq 0 .. Len(pairs')
  BY <1>2, <1>3 DEF Grown
<1>5. Calls \subseteq Calls' BY <1>4 DEF Calls
<1>6. Holds \subseteq Holds' BY <1>4 DEF Holds
<1>7. Contexts \subseteq Contexts' BY <1>4 DEF Contexts
<1>8. UNCHANGED <<accounts, links>> => LinksTyped' BY <1>1, <1>6 DEF LinksTyped
<1>9. UNCHANGED tab => TabsTyped' BY <1>1, <1>7 DEF TabsTyped
<1>10. UNCHANGED <<stored, deviceId>> => BrowserTyped' BY <1>1, <1>4 DEF BrowserTyped
<1>11. FlagsTyped => (UNCHANGED history => FlagsTyped') BY DEF FlagsTyped
<1> QED BY <1>1, <1>5, <1>6, <1>7, <1>8, <1>9, <1>10, <1>11

\* Most steps leave both as they are.
LEMMA SameTables ==
  ASSUME Types, UNCHANGED <<devices, pairs>>
  PROVE  /\ DevicesTyped' /\ PairsTyped' /\ Grown
         /\ Calls = Calls' /\ Holds = Holds' /\ Contexts = Contexts'
         /\ UNCHANGED <<accounts, links>> => LinksTyped'
         /\ UNCHANGED tab => TabsTyped'
         /\ UNCHANGED <<stored, deviceId>> => BrowserTyped'
         /\ UNCHANGED history => FlagsTyped'
<1>1. DevicesTyped /\ PairsTyped BY TypesAreParts DEF Parts
<1>2. DevicesTyped' /\ PairsTyped' BY <1>1 DEF DevicesTyped, PairsTyped
<1>3. Grown BY TableTypes DEF Grown
<1>4. Calls = Calls' /\ Holds = Holds' /\ Contexts = Contexts' BY DEF Calls, Holds, Contexts
<1> QED BY <1>2, <1>3, <1>4, GrownTypes

-----------------------------------------------------------------------------
(* What every call knows                                                    *)

\* A step of one call: the others know what they knew.
LEMMA WellStays ==
  ASSUME Types, Wellformed, Grown, DOMAIN pairs \subseteq DOMAIN pairs',
         NEW c \in Callers, Rest(c), Follows(c)', LinksKnow', HashesKnow'
  PROVE  Wellformed'
<1>1. ASSUME NEW d \in Callers PROVE Follows(d)'
  <2>1. CASE d = c BY <2>1
  <2>2. CASE d # c
    <3>1. call'[d] = call[d] BY <2>2 DEF Rest
    <3>2. call[d].pair # 0 => pairs'[call[d].pair] = pairs[call[d].pair]
      BY CallTypes, TableTypes DEF Grown
    <3>3. Follows(d) BY DEF Wellformed
    <3> QED BY <3>1, <3>2, <3>3 DEF Follows
  <2> QED BY <2>1, <2>2
<1> QED BY <1>1 DEF Wellformed

\* And one that leaves the tables and the links alone.
LEMMA WellSame ==
  ASSUME Types, Wellformed, NEW c \in Callers, Rest(c), Follows(c)',
         UNCHANGED <<devices, pairs, links>>
  PROVE  Wellformed'
<1>1. Grown BY SameTables
<1>2. LinksKnow' /\ HashesKnow' BY DEF Wellformed, LinksKnow, HashesKnow
<1> QED BY <1>1, <1>2, WellStays

\* What is left when a step changes only what the server holds, or only the calls.
LEMMA PartsMake ==
  ASSUME DevicesTyped', PairsTyped', CallsTyped', LinksTyped', TabsTyped', BrowserTyped',
         FlagsTyped'
  PROVE  Types'
<1>1. Types' <=> Parts' BY TypesAreParts, PTL
<1> QED BY <1>1 DEF Parts

\* The call goes on, and nothing else is changed.
LEMMA GoesTypes ==
  ASSUME Types, NEW c \in Callers, NEW pc \in Stages, GoTo(c, pc),
         UNCHANGED <<server, browser>>, FlagsTyped'
  PROVE  Types' /\ Goes(c, pc) /\ Rest(c)
<1>1. CallsTyped BY TypesAreParts DEF Parts
<1>2. /\ DevicesTyped' /\ PairsTyped' /\ LinksTyped' /\ TabsTyped' /\ BrowserTyped'
      /\ Calls \subseteq Calls'
  BY SameTables
<1>3. Goes(c, pc) /\ Rest(c) /\ CallsTyped' BY <1>1, <1>2, GoesTo
<1> QED BY <1>2, <1>3, PartsMake

\* Flags that no step but a few changes.
LEMMA FlagsStay == ASSUME Types, UNCHANGED history PROVE FlagsTyped'
BY SameTables, TypesAreParts DEF Parts, FlagsTyped

LEMMA FollowsOf == ASSUME Wellformed, NEW c \in Callers PROVE Follows(c)
BY DEF Wellformed

\* What is waited for says whose call it is.
LEMMA PcIs ==
  ASSUME Types, Wellformed, NEW c \in Callers
  PROVE  /\ At(c, "find") => call[c].op = "refresh" /\ call[c].pair \in 1 .. Len(pairs)
         /\ call[c].pc \in {"account", "create", "upsert", "take"} =>
              call[c].op \in SignIns /\ c[2] # "restore"
         /\ At(c, "issue") => call[c].op \in SignIns \cup {"refresh"}
                              /\ call[c].device \in 1 .. Len(devices)
         /\ call[c].pc \in {"authenticate", "clear"} =>
              call[c].op = "logout" /\ call[c].device \in 1 .. Len(devices)
         /\ At(c, "answered") => call[c].op # "none"
         /\ At(c, "answered") /\ call[c].op # "logout" =>
              call[c].pair \in 1 .. Len(pairs) /\ pairs[call[c].pair].device = call[c].device
              /\ call[c].device \in 1 .. Len(devices)
         /\ At(c, "me") => call[c].op \in SignIns \cup {"refresh"}
                           /\ call[c].pair \in 1 .. Len(pairs)
         /\ ~At(c, "none") => Busy(c)
         /\ At(c, "none") => call[c].op = "none"
<1>1. Follows(c) BY FollowsOf
<1>2. call[c].op \in {"none", "refresh", "logout"} \cup SignIns BY CallTypes
<1>3. /\ call[c].pair # 0 => call[c].pair \in 1 .. Len(pairs)
      /\ call[c].device # 0 => call[c].device \in 1 .. Len(devices)
  BY CallTypes, TableTypes
<1>4. call[c].pair \in 1 .. Len(pairs) => pairs[call[c].pair].device \in 1 .. Len(devices)
  BY TableTypes
<1> QED BY <1>1, <1>2, <1>3, <1>4 DEF Follows, At, Busy, Stages, SignIns

\* One that goes on follows if it may be there.
LEMMA GoesFollows ==
  ASSUME Types, Wellformed, NEW c \in Callers, NEW pc, Goes(c, pc),
         UNCHANGED <<devices, pairs>>,
         call[c].op # "none",
         call[c].op = "refresh" => pc \in {"find", "me", "failed"},
         call[c].op = "logout" => pc \in {"clear", "answered", "failed"},
         call[c].op \in SignIns => pc \in {"create", "upsert", "issue", "me", "failed"},
         pc \in {"create", "upsert"} => call[c].user \in Users,
         pc = "issue" => call[c].device # 0,
         pc = "me" => call[c].pair # 0
  PROVE  Follows(c)'
<1>1. Follows(c) BY FollowsOf
<1>2. call'[c].op = call[c].op /\ call'[c].pc = pc /\ call'[c].user = call[c].user
      /\ call'[c].device = call[c].device /\ call'[c].pair = call[c].pair
  BY DEF Goes
<1>3. call[c].op \in {"none", "refresh", "logout"} \cup SignIns BY CallTypes
<1> QED BY <1>1, <1>2, <1>3 DEF Follows, Stages, SignIns

LEMMA GoesWell ==
  ASSUME Types, Wellformed, NEW c \in Callers, NEW pc \in Stages, GoTo(c, pc),
         UNCHANGED <<server, browser>>, FlagsTyped',
         call[c].op # "none",
         call[c].op = "refresh" => pc \in {"find", "me", "failed"},
         call[c].op = "logout" => pc \in {"clear", "answered", "failed"},
         call[c].op \in SignIns => pc \in {"create", "upsert", "issue", "me", "failed"},
         pc \in {"create", "upsert"} => call[c].user \in Users,
         pc = "issue" => call[c].device # 0,
         pc = "me" => call[c].pair # 0
  PROVE  Types' /\ Wellformed' /\ Goes(c, pc) /\ Rest(c)
<1>1. Types' /\ Goes(c, pc) /\ Rest(c) BY GoesTypes
<1>2. Follows(c)' BY <1>1, GoesFollows
<1> QED BY <1>1, <1>2, WellSame

-----------------------------------------------------------------------------
(* Types and what calls know, step by step: the server                      *)

LEMMA FindWell ==
  ASSUME Types, Wellformed, NEW c \in Callers, Find(c)
  PROVE  /\ Types' /\ Wellformed' /\ Rest(c)
         /\ \/ Goes(c, "failed") /\ Holders(call[c].pair) = {}
            \/ /\ call'[c].op = "refresh" /\ call'[c].pc = "issue"
               /\ call'[c].pair = call[c].pair /\ call'[c].device \in Holders(call[c].pair)
<1>1. /\ At(c, "find") /\ UNCHANGED <<server, browser, history>>
      /\ call[c].op = "refresh" /\ call[c].pair \in 1 .. Len(pairs)
  BY PcIs DEF Find
<1>2. FlagsTyped' BY <1>1, FlagsStay
<1>3. CASE Holders(call[c].pair) = {}
  <2>1. GoTo(c, "failed") BY <1>3 DEF Find
  <2>2. Types' /\ Wellformed' /\ Goes(c, "failed") /\ Rest(c)
    BY <1>1, <1>2, <2>1, GoesWell DEF Stages, SignIns
  <2> QED BY <1>3, <2>2
<1>4. CASE Holders(call[c].pair) # {}
  <2>1. PICK d \in Holders(call[c].pair) :
          call' = [call EXCEPT ![c].pc = "issue", ![c].device = d]
    BY <1>4 DEF Find
  <2>2. d \in 1 .. Len(devices) /\ d \in 0 .. Len(devices) BY TableTypes DEF Holders
  <2> DEFINE a == [call[c] EXCEPT !.pc = "issue", !.device = d]
  <2>3. call[c] \in Calls BY CallTypes
  <2>4. /\ a \in Calls /\ a.op = "refresh" /\ a.pc = "issue" /\ a.pair = call[c].pair
        /\ a.device = d
    BY <1>1, <2>2, <2>3 DEF Calls, Stages
  <2>5. call' = [call EXCEPT ![c] = a] BY <2>1
  <2> HIDE DEF a
  <2>6. CallsTyped BY TypesAreParts DEF Parts
  <2>7. /\ DevicesTyped' /\ PairsTyped' /\ LinksTyped' /\ TabsTyped' /\ BrowserTyped'
        /\ Calls = Calls'
    BY <1>1, SameTables
  <2>8. call'[c] = a /\ Rest(c) /\ CallsTyped' BY <2>4, <2>5, <2>6, <2>7, Sets
  <2>9. Types' BY <1>2, <2>7, <2>8, PartsMake
  <2>10. Follows(c)
    BY FollowsOf
  <2>11. Follows(c)' BY <1>1, <2>2, <2>4, <2>8, TableTypes DEF Follows, SignIns
  <2>12. Wellformed' BY <1>1, <2>8, <2>11, WellSame
  <2> QED BY <2>1, <2>4, <2>8, <2>9, <2>12
<1> QED BY <1>3, <1>4

LEMMA LookUpWell ==
  ASSUME Types, Wellformed, NEW c \in Callers, LookUp(c)
  PROVE  /\ Types' /\ Wellformed' /\ Rest(c) /\ call[c].op \in SignIns
         /\ \E pc \in {"failed", "upsert", "create"} : Goes(c, pc)
<1>1. At(c, "account") /\ UNCHANGED <<server, browser, history>> BY DEF LookUp
<1>2. PICK pc \in {"failed", "upsert", "create"} : GoTo(c, pc) BY DEF LookUp
<1>3. call[c].op \in SignIns BY <1>1, PcIs DEF At
<1>4. call[c].user \in Users BY <1>1, FollowsOf DEF Follows, At
<1>5. FlagsTyped' BY <1>1, FlagsStay
<1>6. Types' /\ Wellformed' /\ Goes(c, pc) /\ Rest(c)
  BY <1>1, <1>2, <1>3, <1>4, <1>5, GoesWell DEF Stages, SignIns
<1> QED BY <1>3, <1>6

LEMMA CreateUserWell ==
  ASSUME Types, Wellformed, NEW c \in Callers, CreateUser(c)
  PROVE  /\ Types' /\ Wellformed' /\ Rest(c) /\ call[c].op \in SignIns
         /\ \E pc \in {"failed", "upsert"} : Goes(c, pc)
<1>1. /\ At(c, "create") /\ UNCHANGED <<devices, pairs, links, browser, history>>
      /\ accounts' = accounts \cup {call[c].user}
  BY DEF CreateUser
<1>2. PICK pc \in {"failed", "upsert"} : GoTo(c, pc) BY DEF CreateUser
<1>3. call[c].op \in SignIns BY <1>1, PcIs DEF At
<1>4. call[c].user \in Users BY <1>1, FollowsOf DEF Follows, At
<1>5. FlagsTyped' BY <1>1, FlagsStay
<1>6. CallsTyped /\ LinksTyped BY TypesAreParts DEF Parts
<1>7. /\ DevicesTyped' /\ PairsTyped' /\ TabsTyped' /\ BrowserTyped' /\ Calls = Calls'
      /\ Holds = Holds'
  BY <1>1, SameTables
<1>8. LinksTyped' BY <1>1, <1>4, <1>6, <1>7 DEF LinksTyped
<1>9. Goes(c, pc) /\ Rest(c) /\ CallsTyped' BY <1>2, <1>6, <1>7, GoesTo DEF Stages
<1>10. Types' BY <1>5, <1>7, <1>8, <1>9, PartsMake
<1>11. Follows(c)' BY <1>1, <1>3, <1>4, <1>9, GoesFollows DEF SignIns
<1>12. Wellformed' BY <1>1, <1>9, <1>11, WellSame
<1> QED BY <1>3, <1>9, <1>10, <1>12

LEMMA TakeWell ==
  ASSUME Types, Wellformed, NEW c \in Callers, Take(c)
  PROVE  /\ Types' /\ Wellformed' /\ Rest(c) /\ call[c].op \in SignIns
         /\ \/ Goes(c, "failed") /\ UNCHANGED amiss
            \/ /\ call'[c].op = call[c].op /\ call'[c].pc = "upsert"
               /\ Names(call'[c].user, call'[c].device)
<1> DEFINE l == call[c].link
<1>1. At(c, "take") /\ UNCHANGED <<accounts, devices, pairs, browser, disturbed, more>>
  BY DEF Take
<1>2. call[c].op \in SignIns BY <1>1, PcIs DEF At
<1>3. l \in Links BY <1>1, FollowsOf DEF Follows, At
<1>4. CallsTyped /\ LinksTyped BY TypesAreParts DEF Parts
<1>5. /\ DevicesTyped' /\ PairsTyped' /\ TabsTyped' /\ BrowserTyped' /\ Calls = Calls'
      /\ Holds = Holds'
  BY <1>1, SameTables
<1>6. FlagsTyped BY TypesAreParts DEF Parts
<1>7. CASE links[l].state # "made"
  <2>1. GoTo(c, "failed") /\ UNCHANGED <<links, amiss>> BY <1>7 DEF Take
  <2>2. FlagsTyped' BY <1>1, <1>6, <2>1 DEF FlagsTyped
  <2>3. Types' /\ Wellformed' /\ Goes(c, "failed") /\ Rest(c)
    BY <1>1, <1>2, <2>1, <2>2, GoesWell DEF Stages, SignIns
  <2> QED BY <1>2, <2>1, <2>3
<1>8. CASE links[l].state = "made"
  <2> DEFINE u == links[l].user  e == links[l].device
             a == [call[c] EXCEPT !.pc = "upsert", !.user = u, !.device = e]
  <2>1. /\ links' = [links EXCEPT ![l] = Taken] /\ Names(u, e)
        /\ call' = [call EXCEPT ![c] = a]
    BY <1>8 DEF Take
  <2>2. u \in Users /\ e \in 0 .. Len(devices)
    BY <1>3, <1>4, <1>8 DEF LinksTyped, Holds, Wellformed, LinksKnow
  <2>3. call[c] \in Calls BY CallTypes
  <2>4. a \in Calls /\ a.op = call[c].op /\ a.pc = "upsert" /\ a.user = u /\ a.device = e
    BY <2>2, <2>3 DEF Calls, Stages
  <2> HIDE DEF a
  <2>5. call'[c] = a /\ Rest(c) /\ CallsTyped' BY <1>4, <1>5, <2>1, <2>4, Sets
  <2>6. Taken \in Holds /\ Taken.state = "taken"
    <3>1. NotMade \in Holds BY TableTypes DEF Holds, NotMade
    <3> QED BY <3>1 DEF Holds, Taken
  <2>7. LinksTyped' BY <1>1, <1>3, <1>4, <1>5, <2>1, <2>6 DEF LinksTyped
  <2>8. LinksKnow'
    <3>1. \A m \in Links : m # l => links'[m] = links[m] BY <1>4, <2>1 DEF LinksTyped
    <3>2. links'[l].state = "taken" BY <1>3, <1>4, <2>1, <2>6 DEF LinksTyped
    <3> QED BY <3>1, <3>2 DEF Wellformed, LinksKnow
  <2>9. amiss' \in BOOLEAN BY <1>6, <2>1 DEF Names, FlagsTyped
  <2>10. FlagsTyped' BY <1>1, <1>6, <2>9 DEF FlagsTyped
  <2>11. Types' BY <1>5, <2>5, <2>7, <2>10, PartsMake
  <2>12. Follows(c)' BY <1>2, <2>2, <2>4, <2>5, FollowsOf, PcIs DEF Follows, SignIns, Stages, At
  <2>13. HashesKnow' BY <1>1 DEF Wellformed, HashesKnow
  <2>14. Grown BY <1>1, SameTables
  <2>15. Wellformed' BY <1>1, <2>5, <2>8, <2>12, <2>13, <2>14, WellStays
  <2> QED BY <1>2, <2>1, <2>4, <2>5, <2>11, <2>15
<1> QED BY <1>7, <1>8

\* A row's hash is of the pair that was issued for it, and stays so when the rows keep theirs.
LEMMA HashesStay ==
  ASSUME Types, Wellformed, Grown, DOMAIN pairs \subseteq DOMAIN pairs', DevicesTyped',
         \A d \in 1 .. Len(devices') : devices'[d].hash # 0 =>
           d \in 1 .. Len(devices) /\ devices'[d].hash = devices[d].hash
  PROVE  HashesKnow'
<1>1. DOMAIN devices' = 1 .. Len(devices') BY LenProperties DEF DevicesTyped
<1>2. DOMAIN devices = 1 .. Len(devices) /\ DOMAIN pairs = 1 .. Len(pairs) BY TableTypes
<1>3. SUFFICES ASSUME NEW d \in 1 .. Len(devices'), devices'[d].hash # 0
               PROVE  /\ devices'[d].hash \in DOMAIN pairs'
                      /\ pairs'[devices'[d].hash].device = d
  BY <1>1 DEF HashesKnow
<1>4. devices[d].hash \in 1 .. Len(pairs) /\ pairs[devices[d].hash].device = d
  BY <1>2, <1>3 DEF Wellformed, HashesKnow
<1> QED BY <1>2, <1>3, <1>4 DEF Grown

LEMMA UpsertWell ==
  ASSUME Types, Wellformed, NEW c \in Callers, Upsert(c)
  PROVE  /\ Types' /\ Wellformed' /\ Rest(c) /\ call[c].op \in SignIns
         /\ \/ /\ Reusable(call[c].user, call[c].device) /\ UNCHANGED devices
               /\ Goes(c, "issue")
            \/ /\ ~Reusable(call[c].user, call[c].device)
               /\ call'[c].op = call[c].op /\ call'[c].pc = "issue"
               /\ call'[c].device = Len(devices) + 1 /\ Len(devices') = Len(devices) + 1
               /\ \A d \in 1 .. Len(devices) : devices'[d] = devices[d]
               /\ devices'[Len(devices) + 1].hash = 0
<1>1. At(c, "upsert") /\ UNCHANGED <<accounts, pairs, links, browser, history>> BY DEF Upsert
<1>2. call[c].op \in SignIns BY <1>1, PcIs DEF At
<1>3. call[c].user \in Users BY <1>1, FollowsOf DEF Follows, At
<1>4. DevicesTyped /\ PairsTyped /\ CallsTyped BY TypesAreParts DEF Parts
<1>5. FlagsTyped' BY <1>1, FlagsStay
<1>6. CASE Reusable(call[c].user, call[c].device)
  <2>1. GoTo(c, "issue") /\ UNCHANGED devices BY <1>6 DEF Upsert
  <2>2. call[c].device # 0 BY <1>6 DEF Reusable
  <2>3. Types' /\ Wellformed' /\ Goes(c, "issue") /\ Rest(c)
    BY <1>1, <1>2, <1>5, <2>1, <2>2, GoesWell DEF Stages, SignIns
  <2> QED BY <1>2, <1>6, <2>1, <2>3
<1>7. CASE ~Reusable(call[c].user, call[c].device)
  <2> DEFINE N == Len(devices)
             r == [user |-> call[c].user, revoked |-> FALSE, hash |-> 0]
             a == [call[c] EXCEPT !.pc = "issue", !.device = N + 1]
  <2>1. N < MaxDevices /\ devices' = Append(devices, r) /\ call' = [call EXCEPT ![c] = a]
    BY <1>7 DEF Upsert
  <2>2. N \in Nat /\ DOMAIN devices = 1 .. N BY TableTypes
  <2>3. r \in Rows /\ r.hash = 0 BY <1>3, Limits DEF Rows
  <2> HIDE DEF r
  <2>4. /\ devices' \in Seq(Rows) /\ Len(devices') = N + 1
        /\ \A d \in 1 .. N : devices'[d] = devices[d]
        /\ devices'[N + 1] = r
    BY <1>4, <2>1, <2>3, AppendProperties DEF DevicesTyped
  <2>5. DevicesTyped' BY <2>1, <2>2, <2>4, Limits DEF DevicesTyped
  <2>6. DOMAIN devices' = 1 .. N + 1 BY <2>4, LenProperties
  <2>7. PairsTyped' BY <1>1, <1>4, <2>2, <2>6 DEF PairsTyped
  <2>8. Grown BY <1>1, <2>2, <2>4, TableTypes DEF Grown
  <2>9. /\ LinksTyped' /\ TabsTyped' /\ BrowserTyped' /\ Calls \subseteq Calls'
    BY <1>1, <2>5, <2>7, <2>8, GrownTypes
  <2>10. call[c] \in Calls' BY <2>9, CallTypes
  <2>11. N + 1 \in 0 .. Len(devices') BY <2>2, <2>4
  <2>12. a \in Calls' /\ a.op = call[c].op /\ a.pc = "issue" /\ a.device = N + 1
         /\ a.pair = call[c].pair
    BY <2>10, <2>11 DEF Calls, Stages
  <2> HIDE DEF a
  <2>13. call'[c] = a /\ Rest(c) /\ CallsTyped' BY <1>4, <2>1, <2>9, <2>12, Sets
  <2>14. Types' BY <1>5, <2>5, <2>7, <2>9, <2>13, PartsMake
  <2>15. \A d \in 1 .. Len(devices') : devices'[d].hash # 0 =>
           d \in 1 .. Len(devices) /\ devices'[d].hash = devices[d].hash
    BY <2>2, <2>3, <2>4
  <2>16. HashesKnow' BY <1>1, <2>5, <2>8, <2>15, HashesStay
  <2>17. LinksKnow' BY <1>1 DEF Wellformed, LinksKnow
  <2>18. Follows(c)' BY <1>2, <2>2, <2>12, <2>13, FollowsOf DEF Follows, SignIns, Stages
  <2>19. Wellformed' BY <1>1, <2>8, <2>13, <2>16, <2>17, <2>18, WellStays
  <2> QED BY <1>2, <1>7, <2>3, <2>4, <2>12, <2>13, <2>14, <2>19
<1> QED BY <1>6, <1>7

LEMMA IssueWell ==
  ASSUME Types, Wellformed, NEW c \in Callers, Issue(c)
  PROVE  LET n == Len(pairs) + 1  d == call[c].device IN
         /\ Types' /\ Wellformed' /\ Rest(c)
         /\ d \in 1 .. Len(devices)
         /\ call'[c].op = call[c].op /\ call'[c].pc = "answered" /\ call'[c].pair = n
         /\ call'[c].device = d
         /\ \A m \in 1 .. Len(pairs) : pairs'[m] = pairs[m]
         /\ pairs'[n].device = d
         /\ DOMAIN devices' = DOMAIN devices
         /\ \A e \in 1 .. Len(devices) :
              devices'[e].revoked = devices[e].revoked /\ devices'[e].user = devices[e].user
         /\ \A e \in 1 .. Len(devices) : e # d => devices'[e] = devices[e]
         /\ devices'[d].hash = n
<1> DEFINE n == Len(pairs) + 1  d == call[c].device  r == [devices[d] EXCEPT !.hash = n]
           p == [device |-> d, from |-> call[c].pair]
           a == [call[c] EXCEPT !.pc = "answered", !.pair = n]
<1>1. /\ At(c, "issue") /\ n <= MaxPairs /\ UNCHANGED <<accounts, links, browser, history>>
      /\ pairs' = Append(pairs, p) /\ devices' = [devices EXCEPT ![d] = r]
      /\ call' = [call EXCEPT ![c] = a]
  BY DEF Issue
<1>2. call[c].op \in SignIns \cup {"refresh"} /\ d \in 1 .. Len(devices) BY <1>1, PcIs
<1>3. DevicesTyped /\ PairsTyped /\ CallsTyped BY TypesAreParts DEF Parts
<1>4. /\ Len(pairs) \in Nat /\ Len(devices) \in Nat /\ devices[d] \in Rows
      /\ DOMAIN pairs = 1 .. Len(pairs) /\ DOMAIN devices = 1 .. Len(devices)
  BY <1>2, TableTypes
<1>5. call[c] \in Calls /\ call[c].pair \in 0 .. Len(pairs) /\ d \in 0 .. Len(devices)
  BY CallTypes
<1>6. /\ r \in Rows /\ r.hash = n /\ r.revoked = devices[d].revoked
      /\ r.user = devices[d].user
  BY <1>1, <1>4, Limits DEF Rows
<1>7. p \in [device : Nat, from : Nat] /\ p.device = d
      /\ p \in [device : DOMAIN devices, from : 0 .. n - 1]
  BY <1>2, <1>4, <1>5
<1> HIDE DEF r, p
<1>9. /\ devices' \in Seq(Rows) /\ Len(devices') = Len(devices) /\ devices'[d] = r
      /\ \A e \in 1 .. Len(devices) : e # d => devices'[e] = devices[e]
  BY <1>1, <1>2, <1>3, <1>6, ExceptSeq DEF DevicesTyped
<1>10. /\ pairs' \in Seq([device : Nat, from : Nat]) /\ Len(pairs') = n
       /\ \A m \in 1 .. Len(pairs) : pairs'[m] = pairs[m]
       /\ pairs'[n] = p
  BY <1>1, <1>3, <1>7, AppendProperties DEF PairsTyped
<1>11. DOMAIN devices' = DOMAIN devices /\ DOMAIN pairs' = 1 .. n
  BY <1>4, <1>9, <1>10, LenProperties
<1>12. DevicesTyped' BY <1>3, <1>9 DEF DevicesTyped
<1>13. PairsTyped'
  <2>1. \A m \in 1 .. n : pairs'[m] \in [device : DOMAIN devices', from : 0 .. m - 1]
    <3> SUFFICES ASSUME NEW m \in 1 .. n
                 PROVE  pairs'[m] \in [device : DOMAIN devices', from : 0 .. m - 1]
      OBVIOUS
    <3>1. CASE m = n BY <1>7, <1>10, <1>11, <3>1
    <3>2. CASE m # n
      <4>1. m \in 1 .. Len(pairs) BY <1>4, <3>2
      <4> QED BY <1>3, <1>4, <1>10, <1>11, <4>1 DEF PairsTyped
    <3> QED BY <3>1, <3>2
  <2> QED BY <1>1, <1>10, <1>11, <2>1 DEF PairsTyped
<1>14. Grown BY <1>4, <1>9, <1>10 DEF Grown
<1>15. LinksTyped' /\ TabsTyped' /\ BrowserTyped' /\ FlagsTyped' /\ Calls \subseteq Calls'
  BY <1>1, <1>12, <1>13, <1>14, GrownTypes, FlagsStay
<1>16. call[c] \in Calls' /\ n \in 0 .. Len(pairs') BY <1>4, <1>5, <1>10, <1>15
<1>17. a \in Calls' /\ a.op = call[c].op /\ a.pc = "answered" /\ a.pair = n /\ a.device = d
  BY <1>16 DEF Calls, Stages
<1> HIDE DEF a
<1>18. call'[c] = a /\ Rest(c) /\ CallsTyped' BY <1>1, <1>3, <1>15, <1>17, Sets
<1>19. Types' BY <1>12, <1>13, <1>15, <1>18, PartsMake
<1>20. HashesKnow'
  <2> SUFFICES ASSUME NEW e \in 1 .. Len(devices), devices'[e].hash # 0
               PROVE  /\ devices'[e].hash \in DOMAIN pairs'
                      /\ pairs'[devices'[e].hash].device = e
    BY <1>4, <1>11 DEF HashesKnow
  <2>1. CASE e = d BY <1>4, <1>6, <1>7, <1>9, <1>10, <1>11, <2>1
  <2>2. CASE e # d
    <3>1. devices[e].hash \in 1 .. Len(pairs) /\ pairs[devices[e].hash].device = e
      BY <1>4, <1>9, <2>2 DEF Wellformed, HashesKnow
    <3> QED BY <1>4, <1>9, <1>10, <1>11, <2>2, <3>1
  <2> QED BY <2>1, <2>2
<1>21. LinksKnow' BY <1>1 DEF Wellformed, LinksKnow
<1>22. Follows(c)'
  <2>1. pairs'[n].device = d /\ n # 0 BY <1>4, <1>7, <1>10
  <2> QED BY <1>2, <1>17, <1>18, <2>1, FollowsOf DEF Follows, SignIns, Stages
<1>23. Wellformed' BY <1>4, <1>11, <1>14, <1>18, <1>20, <1>21, <1>22, WellStays
<1>24. \A e \in 1 .. Len(devices) :
         devices'[e].revoked = devices[e].revoked /\ devices'[e].user = devices[e].user
  BY <1>6, <1>9
<1> QED BY <1>2, <1>6, <1>7, <1>9, <1>10, <1>11, <1>17, <1>18, <1>19, <1>23, <1>24

LEMMA AuthenticateWell ==
  ASSUME Types, Wellformed, NEW t \in Tabs, Authenticate(t)
  PROVE  LET c == <<t, "act">> IN
         /\ Types' /\ Wellformed' /\ Rest(c) /\ call[c].op = "logout"
         /\ \/ Goes(c, "clear") /\ Accepts(t)
            \/ Goes(c, "failed") /\ amiss'
<1> DEFINE c == <<t, "act">>
<1>1. /\ At(c, "authenticate") /\ GoTo(c, IF Accepts(t) THEN "clear" ELSE "failed")
      /\ amiss' = (amiss \/ ~Accepts(t)) /\ UNCHANGED <<server, browser, disturbed, more>>
  BY DEF Authenticate
<1>2. c \in Callers BY CallersAre
<1> HIDE DEF c
<1>3. call[c].op = "logout" BY <1>1, <1>2, PcIs DEF At
<1>4. FlagsTyped BY TypesAreParts DEF Parts
<1>5. FlagsTyped' BY <1>1, <1>4 DEF FlagsTyped
<1>6. PICK pc \in {"clear", "failed"} :
        GoTo(c, pc) /\ (pc = "clear" => Accepts(t)) /\ (pc = "failed" => amiss')
  BY <1>1 DEF Accepts
<1>7. Types' /\ Wellformed' /\ Goes(c, pc) /\ Rest(c)
  BY <1>1, <1>2, <1>3, <1>5, <1>6, GoesWell DEF Stages, SignIns
<1> QED BY <1>3, <1>6, <1>7 DEF c

\* A hash is taken from a row, which may be revoked by it.
LEMMA Unhashed ==
  ASSUME Types, Wellformed, NEW d \in 1 .. Len(devices), NEW r \in Rows, r.hash = 0,
         devices' = [devices EXCEPT ![d] = r], UNCHANGED <<accounts, pairs, links>>
  PROVE  /\ DevicesTyped' /\ PairsTyped' /\ Grown /\ LinksTyped' /\ HashesKnow' /\ LinksKnow'
         /\ Calls = Calls' /\ Contexts = Contexts'
         /\ DOMAIN devices' = DOMAIN devices
         /\ \A e \in 1 .. Len(devices) : e # d => devices'[e] = devices[e]
         /\ devices'[d] = r
         /\ UNCHANGED tab => TabsTyped'
         /\ UNCHANGED <<stored, deviceId>> => BrowserTyped'
<1>1. DevicesTyped /\ PairsTyped BY TypesAreParts DEF Parts
<1>2. /\ devices' \in Seq(Rows) /\ Len(devices') = Len(devices) /\ devices'[d] = r
      /\ \A e \in 1 .. Len(devices) : e # d => devices'[e] = devices[e]
  BY <1>1, ExceptSeq DEF DevicesTyped
<1>3. DOMAIN devices' = DOMAIN devices /\ DOMAIN devices = 1 .. Len(devices)
  BY <1>2, LenProperties, TableTypes
<1>4. DevicesTyped' BY <1>1, <1>2 DEF DevicesTyped
<1>5. PairsTyped' BY <1>1, <1>3 DEF PairsTyped
<1>6. Grown BY <1>2, TableTypes DEF Grown
<1>7. /\ LinksTyped' /\ (UNCHANGED tab => TabsTyped')
      /\ (UNCHANGED <<stored, deviceId>> => BrowserTyped')
  BY <1>4, <1>5, <1>6, GrownTypes
<1>8. HashesKnow' BY <1>2, <1>3, <1>4, <1>6, HashesStay
<1>9. LinksKnow' BY DEF Wellformed, LinksKnow
<1>10. Calls = Calls' /\ Contexts = Contexts' BY <1>2 DEF Calls, Contexts
<1> QED BY <1>2, <1>3, <1>4, <1>5, <1>6, <1>7, <1>8, <1>9, <1>10

LEMMA ClearWell ==
  ASSUME Types, Wellformed, NEW c \in Callers, Clear(c)
  PROVE  LET d == call[c].device IN
         /\ Types' /\ Wellformed' /\ Rest(c) /\ call[c].op = "logout"
         /\ Goes(c, "answered") /\ d \in 1 .. Len(devices)
         /\ DOMAIN devices' = DOMAIN devices
         /\ \A e \in 1 .. Len(devices) : e # d => devices'[e] = devices[e]
         /\ devices'[d].hash = 0 /\ devices'[d].revoked = devices[d].revoked
<1> DEFINE d == call[c].device  r == [devices[d] EXCEPT !.hash = 0]
<1>1. /\ At(c, "clear") /\ GoTo(c, "answered")
      /\ devices' = [devices EXCEPT ![d] = r]
      /\ UNCHANGED <<accounts, pairs, links, browser, history>>
  BY DEF Clear
<1>2. call[c].op = "logout" /\ d \in 1 .. Len(devices) BY <1>1, PcIs DEF At
<1>3. devices[d] \in Rows BY <1>2, TableTypes
<1>4. r \in Rows /\ r.hash = 0 /\ r.revoked = devices[d].revoked BY <1>3, Limits DEF Rows
<1> HIDE DEF r
<1>5. /\ DevicesTyped' /\ PairsTyped' /\ Grown /\ LinksTyped' /\ HashesKnow' /\ LinksKnow'
      /\ Calls = Calls' /\ TabsTyped' /\ BrowserTyped'
      /\ DOMAIN devices' = DOMAIN devices
      /\ \A e \in 1 .. Len(devices) : e # d => devices'[e] = devices[e]
      /\ devices'[d] = r
  BY <1>1, <1>2, <1>4, Unhashed
<1>6. CallsTyped /\ FlagsTyped' BY <1>1, TypesAreParts, FlagsStay DEF Parts
<1>7. Goes(c, "answered") /\ Rest(c) /\ CallsTyped' BY <1>1, <1>5, <1>6, GoesTo DEF Stages
<1>8. Types' BY <1>5, <1>6, <1>7, PartsMake
<1>9. Follows(c)' BY <1>2, <1>7, FollowsOf DEF Follows, Goes, SignIns
<1>10. Wellformed' BY <1>1, <1>5, <1>7, <1>9, WellStays
<1> QED BY <1>2, <1>4, <1>5, <1>7, <1>8, <1>10

\* No call makes a step: what they know, they know.
LEMMA CallsStay ==
  ASSUME Types, Wellformed, UNCHANGED call, UNCHANGED pairs
  PROVE  \A c \in Callers : Follows(c)'
BY DEF Wellformed, Follows

LEMMA RevokeWell ==
  ASSUME Types, Wellformed, NEW d \in DOMAIN devices, Revoke(d)
  PROVE  /\ Types' /\ Wellformed'
         /\ DOMAIN devices' = DOMAIN devices
         /\ \A e \in 1 .. Len(devices) : e # d => devices'[e] = devices[e]
         /\ devices'[d].hash = 0 /\ devices'[d].revoked /\ devices'[d].user = devices[d].user
<1> DEFINE r == [devices[d] EXCEPT !.revoked = TRUE, !.hash = 0]
<1>1. /\ devices' = [devices EXCEPT ![d] = r]
      /\ UNCHANGED <<accounts, pairs, links, browser, call, history>>
  BY DEF Revoke
<1>2. d \in 1 .. Len(devices) /\ devices[d] \in Rows BY TableTypes
<1>3. r \in Rows /\ r.hash = 0 /\ r.revoked /\ r.user = devices[d].user
  <2> DEFINE q == [devices[d] EXCEPT !.revoked = TRUE]
  <2>1. q \in Rows /\ q.user = devices[d].user BY <1>2 DEF Rows
  <2>2. q.revoked BY <1>2 DEF Rows
  <2>3. r = [q EXCEPT !.hash = 0] OBVIOUS
  <2> HIDE DEF q, r
  <2>4. r.revoked = q.revoked /\ r.hash = 0 /\ r.user = q.user BY <2>1, <2>3 DEF Rows
  <2>5. r \in Rows BY <2>1, <2>3, Limits DEF Rows
  <2> QED BY <2>1, <2>2, <2>4, <2>5
<1> HIDE DEF r
<1>4. /\ DevicesTyped' /\ PairsTyped' /\ Grown /\ LinksTyped' /\ HashesKnow' /\ LinksKnow'
      /\ Calls = Calls' /\ TabsTyped' /\ BrowserTyped'
      /\ DOMAIN devices' = DOMAIN devices
      /\ \A e \in 1 .. Len(devices) : e # d => devices'[e] = devices[e]
      /\ devices'[d] = r
  BY <1>1, <1>2, <1>3, Unhashed
<1>5. CallsTyped /\ FlagsTyped' BY <1>1, TypesAreParts, FlagsStay DEF Parts
<1>6. CallsTyped' BY <1>1, <1>4, <1>5 DEF CallsTyped
<1>7. Types' BY <1>4, <1>5, <1>6, PartsMake
<1>8. \A c \in Callers : Follows(c)' BY <1>1, CallsStay
<1> QED BY <1>3, <1>4, <1>7, <1>8 DEF Wellformed

LEMMA LoseWell ==
  ASSUME Types, Wellformed, NEW c \in Callers, Lose(c)
  PROVE  Types' /\ Wellformed' /\ disturbed'
<1>1. /\ call[c].pc \in {"find", "account", "take", "authenticate", "answered", "me"}
      /\ GoTo(c, "failed") /\ disturbed' = TRUE /\ More(1) /\ UNCHANGED <<server, browser, amiss>>
  BY DEF Lose
<1>2. call[c].op # "none" BY <1>1, PcIs DEF At, Busy
<1>3. FlagsTyped BY TypesAreParts DEF Parts
<1>4. FlagsTyped' BY <1>1, <1>3 DEF FlagsTyped
<1> QED BY <1>1, <1>2, <1>4, GoesWell DEF Stages, SignIns

-----------------------------------------------------------------------------
(* Types and what calls know, step by step: the auth context                *)

LEMMA TabSets ==
  ASSUME Types, NEW t \in Tabs, NEW x \in Contexts, UNCHANGED <<devices, pairs>>,
         tab' = [tab EXCEPT ![t] = x], x.status = "in" => x.access # 0
  PROVE  TabsTyped' /\ tab'[t] = x /\ \A s \in Tabs : s # t => tab'[s] = tab[s]
<1>1. TabsTyped BY TypesAreParts DEF Parts
<1>2. Contexts = Contexts' BY SameTables
<1> QED BY <1>1, <1>2 DEF TabsTyped

LEMMA OutIs ==
  ASSUME NEW device \in 0 .. Len(devices), Types, NEW status \in {"out", "loading"}
  PROVE  /\ Out(device) \in Contexts /\ Out(device).status = "out"
         /\ [Out(device) EXCEPT !.status = status] \in Contexts
         /\ [Out(device) EXCEPT !.status = status].status = status
<1>1. 0 \in 0 .. Len(pairs) BY TableTypes
<1>2. Out(device) \in Contexts /\ Out(device).status = "out" BY <1>1 DEF Out, Contexts
<1> QED BY <1>2 DEF Contexts

LEMMA InIs ==
  ASSUME Types, NEW t \in Tabs, NEW n \in 1 .. Len(pairs)
  PROVE  /\ In(t, n) \in Contexts /\ In(t, n).access = n
         /\ \A e \in 0 .. Len(devices) :
              /\ [In(t, n) EXCEPT !.device = e] \in Contexts
              /\ [In(t, n) EXCEPT !.device = e].access = n
<1> DEFINE x == [tab[t] EXCEPT !.status = "in"]  y == [x EXCEPT !.access = n]
<1>1. tab[t] \in Contexts BY TabTypes
<1>2. x \in Contexts BY <1>1 DEF Contexts
<1> HIDE DEF x
<1>3. n \in 0 .. Len(pairs) BY TableTypes
<1>4. y \in Contexts /\ y.access = n BY <1>2, <1>3 DEF Contexts
<1>5. In(t, n) = [y EXCEPT !.fresh = TRUE] BY DEF In, x
<1> HIDE DEF y
<1>6. In(t, n) \in Contexts /\ In(t, n).access = n BY <1>4, <1>5 DEF Contexts
<1> QED BY <1>6 DEF Contexts

\* A call is over.
LEMMA EndsWell ==
  ASSUME Types, Wellformed, NEW c \in Callers, Over(c), UNCHANGED <<server, history>>,
         TabsTyped', BrowserTyped'
  PROVE  /\ Types' /\ Wellformed' /\ Rest(c) /\ call'[c].op = "none" /\ call'[c].pc = "none"
<1>1. CallsTyped BY TypesAreParts DEF Parts
<1>2. DevicesTyped' /\ PairsTyped' /\ LinksTyped' /\ Calls = Calls' BY SameTables
<1>3. FlagsTyped' BY FlagsStay
<1>4. call'[c].op = "none" /\ call'[c].pc = "none" /\ Rest(c) /\ CallsTyped'
  BY <1>1, <1>2, Ends
<1>5. Types' BY <1>2, <1>3, <1>4, PartsMake
<1>6. Follows(c)' BY <1>4 DEF Follows, SignIns
<1> QED BY <1>4, <1>5, <1>6, WellSame

LEMMA SignedInWell ==
  ASSUME Types, Wellformed, NEW t \in Tabs, SignedIn(t)
  PROVE  LET c == <<t, "act">>  n == call[c].pair IN
         /\ Types' /\ Wellformed' /\ Rest(c) /\ call'[c].op = "none" /\ call'[c].pc = "none"
         /\ call[c].op \in SignIns /\ At(c, "answered")
         /\ n \in 1 .. Len(pairs) /\ pairs[n].device = call[c].device
         /\ stored' = n /\ deviceId' = call[c].device
<1> DEFINE c == <<t, "act">>  n == call[c].pair
           x == [In(t, n) EXCEPT !.device = call[c].device]
<1>1. /\ At(c, "answered") /\ call[c].op \in {"login", "register", "link"} /\ Over(c)
      /\ stored' = n /\ deviceId' = call[c].device /\ tab' = [tab EXCEPT ![t] = x]
      /\ UNCHANGED <<server, history>>
  BY DEF SignedIn
<1>2. c \in Callers BY CallersAre
<1>3. call[c].op \in SignIns BY <1>1 DEF SignIns
<1>4. n \in 1 .. Len(pairs) /\ pairs[n].device = call[c].device
      /\ call[c].device \in 0 .. Len(devices)
  BY <1>1, <1>2, PcIs, CallTypes
<1>5. x \in Contexts /\ x.access = n BY <1>4, InIs
<1> HIDE DEF c, x
<1>6. TabsTyped'
  <2>1. x.access # 0 BY <1>4, <1>5
  <2> QED BY <1>1, <1>5, <2>1, TabSets
<1>7. BrowserTyped' BY <1>1, <1>4, TableTypes DEF BrowserTyped
<1>8. Types' /\ Wellformed' /\ Rest(c) /\ call'[c].op = "none" /\ call'[c].pc = "none"
  BY <1>1, <1>2, <1>6, <1>7, EndsWell
<1> QED BY <1>1, <1>3, <1>4, <1>8 DEF c

LEMMA RefreshIs ==
  ASSUME NEW n
  PROVE  /\ Refresh(n).op = "refresh" /\ Refresh(n).pc = "find" /\ Refresh(n).pair = n
         /\ Refresh(n).device = 0
         /\ n \in 0 .. Len(pairs) => Refresh(n) \in Calls
         /\ n \in 0 .. Len(pairs)' => Refresh(n) \in Calls'
<1>1. /\ Refresh(n).op = "refresh" /\ Refresh(n).pc = "find" /\ Refresh(n).pair = n
      /\ Refresh(n).device = 0
  BY DEF Refresh, NoCall
<1>2. n \in 0 .. Len(pairs) => Refresh(n) \in Calls
  BY NoCallIs DEF Refresh, Calls, Stages
<1>3. n \in 0 .. Len(pairs)' => Refresh(n) \in Calls'
  BY NoCallIs DEF Refresh, Calls, Stages
<1> QED BY <1>1, <1>2, <1>3

LEMMA CallbackLoadedWell ==
  ASSUME Types, Wellformed, NEW t \in Tabs, CallbackLoaded(t)
  PROVE  LET c == <<t, "act">>  n == call[c].pair  r == <<t, "restore">> IN
         /\ Types' /\ Wellformed'
         /\ call[c].op = "oauth" /\ At(c, "answered")
         /\ n \in 1 .. Len(pairs) /\ pairs[n].device = call[c].device
         /\ stored' = n /\ deviceId' = call[c].device
         /\ call'[c].op = "oauth" /\ call'[c].pc = "me"
         /\ call'[r].op = "refresh" /\ call'[r].pc = "find" /\ call'[r].pair = n
         /\ \A d \in Callers : d # c /\ d # r => call'[d] = call[d]
<1> DEFINE c == <<t, "act">>  n == call[c].pair  r == <<t, "restore">>
           x == [Out(call[c].device) EXCEPT !.status = "loading"]
           a == [call[c] EXCEPT !.pc = "me"]
<1>1. /\ At(c, "answered") /\ call[c].op = "oauth" /\ UNCHANGED <<server, history>>
      /\ stored' = n /\ deviceId' = call[c].device /\ tab' = [tab EXCEPT ![t] = x]
      /\ call' = [call EXCEPT ![c].pc = "me", ![r] = Refresh(n)]
  BY DEF CallbackLoaded
<1>2. c \in Callers /\ r \in Callers /\ c # r /\ c[2] = "act" /\ r[2] = "restore"
  BY CallersAre DEF Kinds
<1>3. n \in 1 .. Len(pairs) /\ pairs[n].device = call[c].device
      /\ call[c].device \in 0 .. Len(devices)
  BY <1>1, <1>2, PcIs, CallTypes
<1>4. x \in Contexts /\ x.status = "loading" BY <1>3, OutIs
<1> HIDE DEF c, r, x
<1>5. CallsTyped /\ call[c] \in Calls BY <1>2, TypesAreParts, CallTypes DEF Parts
<1>6. a \in Calls /\ a.op = "oauth" /\ a.pc = "me" /\ a.pair = n
  BY <1>1, <1>5 DEF Calls, Stages
<1>7. call' = [call EXCEPT ![c] = a, ![r] = Refresh(n)] BY <1>1
<1> HIDE DEF a
<1>8. /\ call'[c] = a /\ call'[r] = Refresh(n)
      /\ \A d \in Callers : d # c /\ d # r => call'[d] = call[d]
  BY <1>2, <1>5, <1>7 DEF CallsTyped
<1>9. Refresh(n) \in Calls BY <1>3, TableTypes, RefreshIs
<1>10. call' \in [Callers -> Calls] BY <1>5, <1>6, <1>7, <1>9 DEF CallsTyped
<1>11. DevicesTyped' /\ PairsTyped' /\ LinksTyped' /\ Calls = Calls' BY <1>1, SameTables
<1>12. CallsTyped' BY <1>10, <1>11 DEF CallsTyped
<1>13. TabsTyped' BY <1>1, <1>4, TabSets
<1>14. BrowserTyped' BY <1>1, <1>3, TableTypes DEF BrowserTyped
<1>15. Types' BY <1>1, <1>11, <1>12, <1>13, <1>14, FlagsStay, PartsMake
<1>16. Follows(c)' BY <1>1, <1>2, <1>3, <1>6, <1>8, FollowsOf DEF Follows, SignIns, Stages
<1>17. n # 0 BY <1>3
<1>18. Follows(r)' BY <1>2, <1>8, <1>17, RefreshIs DEF Follows, SignIns, Stages
<1>19. \A d \in Callers : Follows(d)'
  <2> SUFFICES ASSUME NEW d \in Callers, d # c, d # r PROVE Follows(d)' BY <1>16, <1>18
  <2>1. Follows(d) /\ call'[d] = call[d] BY <1>8, FollowsOf
  <2> QED BY <1>1, <2>1 DEF Follows
<1>20. Wellformed' BY <1>1, <1>19 DEF Wellformed, LinksKnow, HashesKnow
<1>21. /\ call'[r].op = "refresh" /\ call'[r].pc = "find" /\ call'[r].pair = n
       /\ call'[c].op = "oauth" /\ call'[c].pc = "me"
  BY <1>6, <1>8, RefreshIs
<1> QED BY <1>1, <1>3, <1>8, <1>15, <1>20, <1>21 DEF c, r

LEMMA RefreshedWell ==
  ASSUME Types, Wellformed, NEW t \in Tabs, NEW k \in Kinds, Refreshed(t, k)
  PROVE  LET c == <<t, k>>  n == call[c].pair IN
         /\ Types' /\ Wellformed' /\ Rest(c) /\ call[c].op = "refresh" /\ At(c, "answered")
         /\ n \in 1 .. Len(pairs) /\ pairs[n].device = call[c].device
         /\ stored' = n
         /\ \/ Goes(c, "me")
            \/ call'[c].op = "none" /\ call'[c].pc = "none"
<1> DEFINE c == <<t, k>>  n == call[c].pair
<1>1. /\ At(c, "answered") /\ call[c].op = "refresh" /\ stored' = n
      /\ UNCHANGED <<server, deviceId, history>>
  BY DEF Refreshed, Store
<1>2. c \in Callers BY CallersAre
<1>3. n \in 1 .. Len(pairs) /\ pairs[n].device = call[c].device BY <1>1, <1>2, PcIs
<1>4. BrowserTyped' BY <1>1, <1>3, TableTypes DEF BrowserTyped
<1>5. CASE k = "restore"
  <2>1. GoTo(c, "me") /\ UNCHANGED tab BY <1>5 DEF Refreshed
  <2> HIDE DEF c
  <2>2. CallsTyped BY TypesAreParts DEF Parts
  <2>3. DevicesTyped' /\ PairsTyped' /\ LinksTyped' /\ Calls = Calls' /\ TabsTyped'
    BY <1>1, <2>1, SameTables
  <2>4. Goes(c, "me") /\ Rest(c) /\ CallsTyped' BY <1>2, <2>1, <2>2, <2>3, GoesTo DEF Stages
  <2>5. Types' BY <1>1, <1>4, <2>3, <2>4, FlagsStay, PartsMake
  <2>6. n # 0 BY <1>3
  <2>7. Follows(c)' BY <1>1, <1>2, <2>4, <2>6, GoesFollows DEF SignIns
  <2>8. Wellformed' BY <1>1, <1>2, <2>4, <2>7, WellSame
  <2> QED BY <1>1, <1>3, <2>4, <2>5, <2>8 DEF c
<1>6. CASE k # "restore"
  <2> DEFINE y == [tab[t] EXCEPT !.access = n]  x == [y EXCEPT !.fresh = TRUE]
  <2>1. Over(c) /\ tab' = [tab EXCEPT ![t].access = n, ![t].fresh = TRUE]
    BY <1>6 DEF Refreshed
  <2>2. TabsTyped BY TypesAreParts DEF Parts
  <2>3. tab' = [tab EXCEPT ![t] = x] BY <2>1, <2>2 DEF TabsTyped
  <2>4. tab[t] \in Contexts /\ n \in 0 .. Len(pairs) BY <1>3, TabTypes, TableTypes
  <2>5. y \in Contexts /\ y.access = n BY <2>4 DEF Contexts
  <2> HIDE DEF y
  <2>6. x \in Contexts /\ x.access = n BY <2>5 DEF Contexts
  <2> HIDE DEF x
  <2>7. x.access # 0 BY <1>3, <2>6
  <2>8. TabsTyped' BY <1>1, <2>3, <2>6, <2>7, TabSets
  <2> HIDE DEF c
  <2>9. Types' /\ Wellformed' /\ Rest(c) /\ call'[c].op = "none" /\ call'[c].pc = "none"
    BY <1>1, <1>2, <1>4, <2>1, <2>8, EndsWell
  <2> QED BY <1>1, <1>3, <2>9 DEF c
<1> QED BY <1>5, <1>6

LEMMA MeWell ==
  ASSUME Types, Wellformed, NEW t \in Tabs, NEW k \in Kinds, Me(t, k)
  PROVE  LET c == <<t, k>> IN
         /\ Types' /\ Wellformed' /\ Rest(c) /\ At(c, "me")
         /\ call'[c].op = "none" /\ call'[c].pc = "none"
         /\ \A s \in Tabs : s # t => tab'[s] = tab[s]
<1> DEFINE c == <<t, k>>  n == call[c].pair
<1>1. /\ At(c, "me") /\ Over(c) /\ tab' = [tab EXCEPT ![t] = In(t, n)]
      /\ UNCHANGED <<server, stored, deviceId, history>>
  BY DEF Me
<1>2. c \in Callers BY CallersAre
<1> HIDE DEF c
<1>3. n \in 1 .. Len(pairs) BY <1>1, <1>2, PcIs
<1>4. In(t, n) \in Contexts /\ In(t, n).access # 0 BY <1>3, InIs
<1>5. TabsTyped' /\ \A s \in Tabs : s # t => tab'[s] = tab[s] BY <1>1, <1>4, TabSets
<1>6. BrowserTyped' BY <1>1, SameTables
<1>7. Types' /\ Wellformed' /\ Rest(c) /\ call'[c].op = "none" /\ call'[c].pc = "none"
  BY <1>1, <1>2, <1>5, <1>6, EndsWell
<1> QED BY <1>1, <1>5, <1>7 DEF c

LEMMA MeRefusedWell ==
  ASSUME Types, Wellformed, NEW t \in Tabs, NEW k \in Kinds, MeRefused(t, k)
  PROVE  LET c == <<t, k>> IN
         /\ Types' /\ Wellformed' /\ Rest(c) /\ At(c, "me") /\ Goes(c, "failed")
         /\ RowOf(call[c].pair).revoked
<1> DEFINE c == <<t, k>>
<1>1. /\ At(c, "me") /\ RowOf(call[c].pair).revoked /\ GoTo(c, "failed")
      /\ UNCHANGED <<server, browser, history>>
  BY DEF MeRefused, RowOf
<1>2. c \in Callers BY CallersAre
<1> HIDE DEF c
<1>3. call[c].op \in SignIns \cup {"refresh"} BY <1>1, <1>2, PcIs
<1>4. Types' /\ Wellformed' /\ Goes(c, "failed") /\ Rest(c)
  BY <1>1, <1>2, <1>3, FlagsStay, GoesWell DEF Stages, SignIns
<1> QED BY <1>1, <1>4 DEF c

LEMMA NotRestoredWell ==
  ASSUME Types, Wellformed, NEW t \in Tabs, NotRestored(t)
  PROVE  LET c == <<t, "restore">> IN
         /\ Types' /\ Wellformed' /\ Rest(c) /\ At(c, "failed") /\ call[c].op = "refresh"
         /\ call'[c].op = "none" /\ call'[c].pc = "none"
         /\ stored' = 0
<1> DEFINE c == <<t, "restore">>  x == [tab[t] EXCEPT !.status = "out"]
<1>1. /\ At(c, "failed") /\ Over(c) /\ stored' = 0 /\ tab' = [tab EXCEPT ![t] = x]
      /\ UNCHANGED <<server, deviceId, history>>
  BY DEF NotRestored
<1>2. c \in Callers /\ c[2] = "restore" BY CallersAre DEF Kinds
<1> HIDE DEF c
<1>3. tab[t] \in Contexts BY TabTypes
<1>4. x \in Contexts /\ x.status = "out" BY <1>3 DEF Contexts
<1> HIDE DEF x
<1>5. TabsTyped' BY <1>1, <1>4, TabSets
<1>6. BrowserTyped' BY <1>1, TableTypes DEF BrowserTyped
<1>7. Types' /\ Wellformed' /\ Rest(c) /\ call'[c].op = "none" /\ call'[c].pc = "none"
  BY <1>1, <1>2, <1>5, <1>6, EndsWell
<1>8. call[c].op = "refresh"
  BY <1>1, <1>2, FollowsOf DEF Follows, At
<1> QED BY <1>1, <1>7, <1>8 DEF c

LEMMA LoggedOutWell ==
  ASSUME Types, Wellformed, NEW t \in Tabs, LoggedOut(t)
  PROVE  LET c == <<t, "act">> IN
         /\ Types' /\ Wellformed' /\ Rest(c) /\ call[c].op = "logout"
         /\ call[c].pc \in {"answered", "failed"}
         /\ call'[c].op = "none" /\ call'[c].pc = "none"
         /\ stored' = 0
<1> DEFINE c == <<t, "act">>  x == Out(tab[t].device)
<1>1. /\ call[c].op = "logout" /\ call[c].pc \in {"answered", "failed"} /\ Over(c)
      /\ stored' = 0 /\ tab' = [tab EXCEPT ![t] = x]
      /\ UNCHANGED <<server, deviceId, history>>
  BY DEF LoggedOut
<1>2. c \in Callers BY CallersAre
<1> HIDE DEF c
<1>3. x \in Contexts /\ x.status = "out" BY TabTypes, OutIs
<1> HIDE DEF x
<1>4. TabsTyped' BY <1>1, <1>3, TabSets
<1>5. BrowserTyped' BY <1>1, TableTypes DEF BrowserTyped
<1>6. Types' /\ Wellformed' /\ Rest(c) /\ call'[c].op = "none" /\ call'[c].pc = "none"
  BY <1>1, <1>2, <1>4, <1>5, EndsWell
<1> QED BY <1>1, <1>6 DEF c

LEMMA FailedWell ==
  ASSUME Types, Wellformed, NEW t \in Tabs, Failed(t)
  PROVE  LET c == <<t, "act">> IN
         /\ Types' /\ Wellformed' /\ Rest(c) /\ At(c, "failed") /\ call[c].op # "logout"
         /\ call'[c].op = "none" /\ call'[c].pc = "none"
<1> DEFINE c == <<t, "act">>
<1>1. /\ At(c, "failed") /\ call[c].op # "logout" /\ Over(c)
      /\ UNCHANGED <<server, browser, history>>
  BY DEF Failed
<1>2. c \in Callers BY CallersAre
<1> HIDE DEF c
<1>3. TabsTyped' /\ BrowserTyped' BY <1>1, SameTables
<1>4. Types' /\ Wellformed' /\ Rest(c) /\ call'[c].op = "none" /\ call'[c].pc = "none"
  BY <1>1, <1>2, <1>3, EndsWell
<1> QED BY <1>1, <1>4 DEF c

-----------------------------------------------------------------------------
(* Types and what calls know, step by step: the user                        *)

\* What a call may begin with.
Begun(c, a) ==
  /\ a \in Calls /\ (c[2] = "restore" => a.op = "refresh")
  /\ \/ a.op = "refresh" /\ a.pc = "find" /\ a.pair # 0
     \/ a.op \in SignIns /\ a.pc = "account" /\ a.user \in Users
     \/ a.op \in SignIns /\ a.pc = "take" /\ a.link \in Links
     \/ a.op = "logout" /\ a.pc = "authenticate" /\ a.device # 0

LEMMA BegunFollows ==
  ASSUME Types, NEW c \in Callers, NEW a, Begun(c, a), call'[c] = a
  PROVE  Follows(c)'
<1>1. CASE a.op = "refresh" /\ a.pc = "find" /\ a.pair # 0
  BY <1>1 DEF Begun, Follows, SignIns
<1>2. CASE a.op \in SignIns /\ a.pc = "account" /\ a.user \in Users
  BY <1>2 DEF Begun, Follows, SignIns, Stages
<1>3. CASE a.op \in SignIns /\ a.pc = "take" /\ a.link \in Links
  BY <1>3 DEF Begun, Follows, SignIns, Stages
<1>4. CASE a.op = "logout" /\ a.pc = "authenticate" /\ a.device # 0
  BY <1>4 DEF Begun, Follows, SignIns
<1> QED BY <1>1, <1>2, <1>3, <1>4 DEF Begun

LEMMA BeginWell ==
  ASSUME Types, Wellformed, NEW new, DOMAIN new \subseteq Callers,
         \A c \in DOMAIN new : Begun(c, new[c]), Begin(new),
         UNCHANGED <<server, stored, deviceId>>, TabsTyped', amiss' \in BOOLEAN
  PROVE  /\ Types' /\ Wellformed'
         /\ \A c \in Callers : call'[c] = IF c \in DOMAIN new THEN new[c] ELSE call[c]
         /\ ~disturbed' => ~disturbed /\ Quiet /\ \A c, d \in DOMAIN new : c = d
<1>1. /\ call' = [c \in Callers |-> IF c \in DOMAIN new THEN new[c] ELSE call[c]]
      /\ disturbed' = (disturbed \/ ~Quiet \/ \E c, d \in DOMAIN new : c # d)
  BY DEF Begin
<1>2. \A c \in Callers : call'[c] = IF c \in DOMAIN new THEN new[c] ELSE call[c] BY <1>1
<1>3. ~disturbed' => ~disturbed /\ Quiet /\ \A c, d \in DOMAIN new : c = d BY <1>1
<1>4. DevicesTyped' /\ PairsTyped' /\ LinksTyped' /\ BrowserTyped' /\ Calls = Calls'
  BY SameTables
<1>5. FlagsTyped' BY <1>1, TypesAreParts DEF FlagsTyped, Parts
<1>6. \A c \in Callers : call[c] \in Calls BY CallTypes
<1>7. \A c \in DOMAIN new : new[c] \in Calls BY DEF Begun
<1>8. call' \in [Callers -> Calls] BY <1>1, <1>6, <1>7
<1>9. CallsTyped' BY <1>4, <1>8 DEF CallsTyped
<1>10. Types' BY <1>4, <1>5, <1>9, PartsMake
<1>11. ASSUME NEW c \in Callers PROVE Follows(c)'
  <2>1. CASE c \in DOMAIN new BY <1>2, <2>1, BegunFollows
  <2>2. CASE c \notin DOMAIN new
    <3>1. call'[c] = call[c] /\ Follows(c) BY <1>2, <2>2, FollowsOf
    <3> QED BY <3>1 DEF Follows
  <2> QED BY <2>1, <2>2
<1>12. Wellformed' BY <1>11 DEF Wellformed, LinksKnow, HashesKnow
<1> QED BY <1>2, <1>3, <1>10, <1>12

\* The one call of the tab's user.
LEMMA ActWell ==
  ASSUME Types, Wellformed, NEW t \in Tabs, NEW what, Begun(<<t, "act">>, what),
         Act(t, what), UNCHANGED <<server, browser>>, amiss' \in BOOLEAN
  PROVE  /\ Types' /\ Wellformed' /\ call'[<<t, "act">>] = what /\ Rest(<<t, "act">>)
         /\ ~disturbed' => ~disturbed /\ Quiet
<1> DEFINE c == <<t, "act">>  new == [d \in {c} |-> what]
<1>1. c \in Callers BY CallersAre
<1>2. Begin(new) BY DEF Act
<1> HIDE DEF c
<1>3. DOMAIN new = {c} /\ new[c] = what OBVIOUS
<1>4. TabsTyped' BY SameTables
<1> HIDE DEF new
<1>5. Begun(c, what) BY DEF c
<1>6. /\ Types' /\ Wellformed'
      /\ \A d \in Callers : call'[d] = IF d \in DOMAIN new THEN new[d] ELSE call[d]
      /\ ~disturbed' => ~disturbed /\ Quiet
  BY <1>1, <1>2, <1>3, <1>4, <1>5, BeginWell
<1>7. call'[c] = what /\ Rest(c) BY <1>1, <1>3, <1>6 DEF Rest
<1> QED BY <1>6, <1>7 DEF c

LEMMA SubmitWell ==
  ASSUME Types, Wellformed, NEW t \in Tabs, NEW u \in Users,
         NEW op \in {"login", "register", "oauth"}, Submit(t, op, u)
  PROVE  LET c == <<t, "act">> IN
         /\ Types' /\ Wellformed' /\ Rest(c)
         /\ call'[c].op \in SignIns /\ call'[c].pc = "account"
         /\ Names(call'[c].user, call'[c].device)
         /\ ~disturbed' => ~disturbed /\ Quiet
<1> DEFINE a == SignIn(op, "account", u, tab[t].device)
<1>1. Act(t, a) /\ Names(u, tab[t].device) /\ UNCHANGED <<server, browser>> BY DEF Submit
<1>2. amiss' \in BOOLEAN BY <1>1, TypesAreParts DEF Names, Parts, FlagsTyped
<1>3. NoCall \in Calls BY NoCallIs
<1>4. tab[t].device \in 0 .. Len(devices) BY TabTypes
<1>5. /\ a \in Calls /\ a.op = op /\ a.pc = "account" /\ a.user = u
      /\ a.device = tab[t].device
  BY <1>3, <1>4 DEF SignIn, Calls, SignIns, Stages
<1> HIDE DEF a
<1>6. op \in SignIns /\ <<t, "act">>[2] # "restore" BY DEF SignIns
<1>7. Begun(<<t, "act">>, a) BY <1>5, <1>6 DEF Begun
<1>8. /\ Types' /\ Wellformed' /\ call'[<<t, "act">>] = a /\ Rest(<<t, "act">>)
      /\ ~disturbed' => ~disturbed /\ Quiet
  BY <1>1, <1>2, <1>7, ActWell
<1> QED BY <1>1, <1>5, <1>6, <1>8

LEMMA CallRefusedWell ==
  ASSUME Types, Wellformed, NEW t \in Tabs, CallRefused(t)
  PROVE  LET c == <<t, "act">> IN
         /\ Types' /\ Wellformed' /\ Rest(c)
         /\ call'[c].op = "refresh" /\ call'[c].pc = "find" /\ call'[c].pair = stored
         /\ ~disturbed' => ~disturbed /\ Quiet
<1> DEFINE a == Refresh(stored)
<1>1. stored # 0 /\ Act(t, a) /\ UNCHANGED <<server, browser, amiss>>
  BY DEF CallRefused, RefreshToken
<1>2. amiss' \in BOOLEAN BY <1>1, TypesAreParts DEF Parts, FlagsTyped
<1>3. /\ a \in Calls /\ a.op = "refresh" /\ a.pc = "find" /\ a.pair = stored
  BY TableTypes, RefreshIs
<1> HIDE DEF a
<1>4. Begun(<<t, "act">>, a) BY <1>1, <1>3 DEF Begun
<1>5. /\ Types' /\ Wellformed' /\ call'[<<t, "act">>] = a /\ Rest(<<t, "act">>)
      /\ ~disturbed' => ~disturbed /\ Quiet
  BY <1>1, <1>2, <1>4, ActWell
<1> QED BY <1>3, <1>5

LEMMA LogoutWell ==
  ASSUME Types, Wellformed, NEW t \in Tabs, Logout(t)
  PROVE  LET c == <<t, "act">> IN
         /\ Types' /\ Wellformed' /\ Rest(c)
         /\ call'[c].op = "logout" /\ call'[c].pc = "authenticate"
         /\ call'[c].device = pairs'[tab'[t].access].device
         /\ ~disturbed' => ~disturbed /\ Quiet
<1> DEFINE d == pairs[tab[t].access].device
           a == [NoCall EXCEPT !.op = "logout", !.pc = "authenticate", !.device = d]
<1>1. tab[t].status = "in" /\ Act(t, a) /\ UNCHANGED <<server, browser, amiss>>
  BY DEF Logout
<1>2. amiss' \in BOOLEAN BY <1>1, TypesAreParts DEF Parts, FlagsTyped
<1>3. tab[t].access \in 1 .. Len(pairs) BY <1>1, TabTypes, TableTypes
<1>4. d # 0 /\ d \in 0 .. Len(devices) BY <1>3, TableTypes
<1>5. NoCall \in Calls BY NoCallIs
<1>6. a \in Calls /\ a.op = "logout" /\ a.pc = "authenticate" /\ a.device = d
  BY <1>4, <1>5 DEF Calls, Stages
<1> HIDE DEF a
<1>7. <<t, "act">>[2] # "restore" OBVIOUS
<1>8. Begun(<<t, "act">>, a) BY <1>4, <1>6, <1>7 DEF Begun
<1>9. /\ Types' /\ Wellformed' /\ call'[<<t, "act">>] = a /\ Rest(<<t, "act">>)
      /\ ~disturbed' => ~disturbed /\ Quiet
  BY <1>1, <1>2, <1>8, ActWell
<1> QED BY <1>1, <1>6, <1>9

LEMMA VerifyIs ==
  ASSUME Types, NEW l \in Links
  PROVE  Verify(l) \in Calls /\ Verify(l).op = "link" /\ Verify(l).pc = "take"
         /\ Verify(l).link = l
<1> DEFINE a == SignIn("link", "take", None, 0)
<1>1. NoCall \in Calls /\ 0 \in 0 .. Len(devices) BY NoCallIs, TableTypes
<1>2. a \in Calls /\ a.op = "link" /\ a.pc = "take" BY <1>1 DEF SignIn, Calls, SignIns, Stages
<1>3. Verify(l) = [a EXCEPT !.link = l] BY DEF Verify
<1> HIDE DEF a
<1> QED BY <1>2, <1>3 DEF Calls

\* The two calls of a page are not alone, so what is left undisturbed is one or none.
LEMMA LoadWell ==
  ASSUME Types, Wellformed, NEW t \in Tabs, NEW l \in Links \cup {None}, Load(t, l)
  PROVE  /\ Types' /\ Wellformed'
         /\ ~disturbed' =>
              /\ ~disturbed /\ Quiet
              /\ \/ UNCHANGED call
                 \/ \E c \in Callers : Rest(c) /\
                      \/ call'[c].op = "link" /\ call'[c].pc = "take"
                      \/ call'[c].op = "refresh" /\ call'[c].pc = "find"
                         /\ call'[c].pair = stored
<1> DEFINE S == Verifying(t, l) \cup Restoring(t)
           new == [c \in S |-> IF c[2] = "act" THEN Verify(l) ELSE Refresh(stored)]
           x == [Out(deviceId) EXCEPT !.status = IF stored = 0 THEN "out" ELSE "loading"]
<1>1. /\ tab' = [tab EXCEPT ![t] = x] /\ Begin(new)
      /\ UNCHANGED <<server, stored, deviceId, amiss>>
  BY DEF Load
<1>2. amiss' \in BOOLEAN BY <1>1, TypesAreParts DEF Parts, FlagsTyped
<1>3. x \in Contexts /\ x.status # "in"
  <2>1. deviceId \in 0 .. Len(devices) BY TableTypes
  <2>2. CASE stored = 0 BY <2>1, <2>2, OutIs
  <2>3. CASE stored # 0 BY <2>1, <2>3, OutIs
  <2> QED BY <2>2, <2>3
<1> HIDE DEF x
<1>4. TabsTyped' BY <1>1, <1>3, TabSets
<1>5. S \subseteq Callers
  <2>1. Verifying(t, l) \subseteq {<<t, "act">>} BY DEF Verifying
  <2>2. Restoring(t) \subseteq {<<t, "restore">>} BY DEF Restoring
  <2>3. <<t, "act">> \in Callers /\ <<t, "restore">> \in Callers BY CallersAre
  <2> QED BY <2>1, <2>2, <2>3
<1>6. ASSUME NEW c \in S
      PROVE  /\ Begun(c, new[c])
             /\ \/ new[c].op = "link" /\ new[c].pc = "take"
                \/ new[c].op = "refresh" /\ new[c].pc = "find" /\ new[c].pair = stored
  <2>1. CASE c \in Verifying(t, l)
    <3>1. c[2] = "act" /\ l \in Links BY <2>1 DEF Verifying
    <3>2. new[c] = Verify(l) BY <3>1
    <3> HIDE DEF new
    <3>3. c[2] # "restore" BY <3>1
    <3>4. Begun(c, new[c]) BY <3>1, <3>2, <3>3, VerifyIs DEF Begun, SignIns
    <3>5. new[c].op = "link" /\ new[c].pc = "take" BY <3>1, <3>2, VerifyIs
    <3> QED BY <3>4, <3>5
  <2>2. CASE c \in Restoring(t)
    <3>1. c[2] # "act" /\ stored # 0 BY <2>2 DEF Restoring
    <3>2. new[c] = Refresh(stored) BY <3>1
    <3> HIDE DEF new
    <3>3. /\ new[c] \in Calls /\ new[c].op = "refresh" /\ new[c].pc = "find"
          /\ new[c].pair = stored
      BY <3>2, TableTypes, RefreshIs
    <3> QED BY <3>1, <3>3 DEF Begun
  <2> QED BY <2>1, <2>2
<1>7. DOMAIN new = S OBVIOUS
<1> HIDE DEF new
<1>8. /\ Types' /\ Wellformed'
      /\ \A c \in Callers : call'[c] = IF c \in S THEN new[c] ELSE call[c]
      /\ ~disturbed' => ~disturbed /\ Quiet /\ \A c, d \in S : c = d
  BY <1>1, <1>2, <1>4, <1>5, <1>6, <1>7, BeginWell
<1>9. CASE S = {}
  <2>1. CallsTyped /\ CallsTyped' BY <1>8, TypesAreParts, PTL DEF Parts
  <2>2. \A c \in Callers : call'[c] = call[c] BY <1>8, <1>9
  <2>3. UNCHANGED call BY <2>1, <2>2 DEF CallsTyped
  <2> QED BY <1>8, <2>3
<1>10. CASE S # {}
  <2>1. PICK c \in S : TRUE BY <1>10
  <2>2. ASSUME ~disturbed' PROVE Rest(c)
    <3>1. \A d \in S : d = c BY <1>8, <2>1, <2>2
    <3> QED BY <1>8, <3>1 DEF Rest
  <2>3. call'[c] = new[c] /\ c \in Callers BY <1>5, <1>8, <2>1
  <2> QED BY <1>6, <1>8, <2>1, <2>2, <2>3
<1> QED BY <1>9, <1>10

LEMMA MakeLinkWell ==
  ASSUME Types, Wellformed, NEW t \in Tabs, NEW l \in Links, NEW u \in Users, MakeLink(t, l, u)
  PROVE  Types' /\ Wellformed'
<1> DEFINE x == [state |-> "made", user |-> u, device |-> tab[t].device]
<1>1. links' = [links EXCEPT ![l] = x]
      /\ UNCHANGED <<accounts, devices, pairs, browser, call, history>>
  BY DEF MakeLink
<1>2. tab[t].device \in 0 .. Len(devices) BY TabTypes
<1>3. x \in Holds /\ x.user = u BY <1>2 DEF Holds
<1> HIDE DEF x
<1>4. LinksTyped /\ CallsTyped BY TypesAreParts DEF Parts
<1>5. /\ DevicesTyped' /\ PairsTyped' /\ TabsTyped' /\ BrowserTyped' /\ FlagsTyped'
      /\ Calls = Calls' /\ Holds = Holds'
  BY <1>1, SameTables, FlagsStay
<1>6. LinksTyped' BY <1>1, <1>3, <1>4, <1>5 DEF LinksTyped
<1>7. CallsTyped' BY <1>1, <1>4, <1>5 DEF CallsTyped
<1>8. Types' BY <1>5, <1>6, <1>7, PartsMake
<1>9. \A m \in Links : m # l => links'[m] = links[m] BY <1>1, <1>4 DEF LinksTyped
<1>10. links'[l].user = u BY <1>1, <1>3, <1>4 DEF LinksTyped
<1>11. LinksKnow' BY <1>9, <1>10 DEF Wellformed, LinksKnow
<1>12. \A c \in Callers : Follows(c)' BY <1>1, CallsStay
<1>13. HashesKnow' BY <1>1 DEF Wellformed, HashesKnow
<1> QED BY <1>8, <1>11, <1>12, <1>13 DEF Wellformed

LEMMA ExpireWell ==
  ASSUME Types, Wellformed, NEW t \in Tabs, Expire(t)
  PROVE  Types' /\ Wellformed' /\ \A s \in Tabs : tab'[s].access = tab[s].access
<1> DEFINE x == [tab[t] EXCEPT !.fresh = FALSE]
<1>1. tab' = [tab EXCEPT ![t] = x]
      /\ UNCHANGED <<server, stored, deviceId, call, history>>
  BY DEF Expire
<1>2. tab[t] \in Contexts /\ (tab[t].status = "in" => tab[t].access # 0) BY TabTypes
<1>3. x \in Contexts /\ x.access = tab[t].access /\ x.status = tab[t].status
  BY <1>2 DEF Contexts
<1> HIDE DEF x
<1>4. TabsTyped' /\ tab'[t] = x /\ \A s \in Tabs : s # t => tab'[s] = tab[s]
  BY <1>1, <1>2, <1>3, TabSets
<1>5. CallsTyped BY TypesAreParts DEF Parts
<1>6. /\ DevicesTyped' /\ PairsTyped' /\ LinksTyped' /\ BrowserTyped' /\ FlagsTyped'
      /\ Calls = Calls'
  BY <1>1, SameTables, FlagsStay
<1>7. CallsTyped' BY <1>1, <1>5, <1>6 DEF CallsTyped
<1>8. Types' BY <1>4, <1>6, <1>7, PartsMake
<1>9. \A c \in Callers : Follows(c)' BY <1>1, CallsStay
<1>10. Wellformed' BY <1>1, <1>9 DEF Wellformed, LinksKnow, HashesKnow
<1> QED BY <1>3, <1>4, <1>8, <1>10

-----------------------------------------------------------------------------
(* Calls that are alone                                                     *)

Sound  == Alone /\ StoredKept /\ \A c \in Callers : Kept(c)
Single == OneRow /\ NoneLeft /\ \A c \in Callers : Own(c)

LEMMA InvIs ==
  Inv <=> /\ Types /\ Wellformed /\ (~disturbed => Sound)
          /\ (~disturbed /\ ~amiss => Single)
BY DEF Inv, IInv, Sound, Single

\* Nothing is under way there, or only what completeOAuthCallback still asks.
Idle(c) == (call[c].op = "none" /\ call[c].pc = "none") \/ Aside(c)

\* Which is nothing that anybody's session depends on.
LEMMA IdleIs ==
  \A c \in Callers : Idle(c) =>
    /\ Kept(c) /\ Own(c) /\ ~Placed(c) /\ ~At(c, "answered") /\ (~Busy(c) \/ Aside(c))
    /\ call[c].op \notin {"refresh", "logout"}
<1> SUFFICES ASSUME NEW c \in Callers, Idle(c)
             PROVE  /\ Kept(c) /\ Own(c) /\ ~Placed(c) /\ ~At(c, "answered")
                    /\ (~Busy(c) \/ Aside(c))
                    /\ call[c].op \notin {"refresh", "logout"}
  OBVIOUS
<1>1. /\ call[c].op \notin {"refresh", "logout"}
      /\ call[c].op \in SignIns => call[c].pc \in {"me", "failed"}
      /\ ~Busy(c) \/ Aside(c)
      /\ call[c].pc \in {"none", "me", "failed"}
  BY DEF Idle, Aside, Busy, SignIns
<1>2. ~Placed(c) /\ ~At(c, "answered") BY <1>1 DEF Placed, At
<1>3. Kept(c) BY <1>1 DEF Kept
<1>4. Own(c) BY <1>1, <1>2 DEF Own
<1> QED BY <1>1, <1>2, <1>3, <1>4

LEMMA OthersIdle ==
  ASSUME Types, Wellformed, Alone, NEW c \in Callers, Busy(c), ~Aside(c)
  PROVE  \A d \in Callers : d # c => Idle(d)
<1> SUFFICES ASSUME NEW d \in Callers, d # c PROVE Idle(d) OBVIOUS
<1>1. ~Busy(d) \/ Aside(d) BY DEF Alone
<1>2. ~Busy(d) => call[d].op = "none" /\ call[d].pc = "none"
  BY FollowsOf DEF Busy, Follows
<1> QED BY <1>1, <1>2 DEF Idle

\* All that is to be known is what the one call does.
OneMatters ==
  \A c \in Callers : (\A d \in Callers : d # c => Idle(d)) =>
    /\ Alone /\ (Answered <=> At(c, "answered"))
    /\ (\A d \in Callers : ~Placed(d)) <=> ~Placed(c)
    /\ Kept(c) => \A d \in Callers : Kept(d)
    /\ Own(c) => \A d \in Callers : Own(d)

LEMMA OneMattersAlways == OneMatters
<1> SUFFICES ASSUME NEW c \in Callers, \A d \in Callers : d # c => Idle(d)
             PROVE  /\ Alone /\ (Answered <=> At(c, "answered"))
                    /\ (\A d \in Callers : ~Placed(d)) <=> ~Placed(c)
                    /\ Kept(c) => \A d \in Callers : Kept(d)
                    /\ Own(c) => \A d \in Callers : Own(d)
  BY DEF OneMatters
<1>1. \A d \in Callers : d # c => /\ Kept(d) /\ Own(d) /\ ~Placed(d) /\ ~At(d, "answered")
                                  /\ (~Busy(d) \/ Aside(d))
  BY IdleIs
<1>2. Alone BY <1>1 DEF Alone
<1>3. Answered <=> At(c, "answered") BY <1>1 DEF Answered
<1>4. (\A d \in Callers : ~Placed(d)) <=> ~Placed(c) BY <1>1
<1>5. Kept(c) => \A d \in Callers : Kept(d) BY <1>1
<1>6. Own(c) => \A d \in Callers : Own(d) BY <1>1
<1> QED BY <1>2, <1>3, <1>4, <1>5, <1>6

\* Before a step of a call that is alone.
LEMMA Before ==
  ASSUME Inv, ~disturbed, NEW c \in Callers, Busy(c), ~Aside(c)
  PROVE  /\ \A d \in Callers : d # c => Idle(d)
         /\ Kept(c)
         /\ stored # 0 =>
              pairs[stored].device = deviceId /\ (At(c, "answered") \/ Current(stored))
         /\ ~amiss => /\ Own(c) /\ (~Placed(c) => Only(deviceId))
                      /\ stored = 0 /\ ~At(c, "answered") => \A d \in DOMAIN devices : ~Live(d)
<1>1. Types /\ Wellformed /\ Sound /\ (~amiss => Single) BY InvIs
<1>2. \A d \in Callers : d # c => Idle(d) BY <1>1, OthersIdle DEF Sound
<1>3. /\ Answered <=> At(c, "answered")
      /\ (\A d \in Callers : ~Placed(d)) <=> ~Placed(c)
  BY <1>2, OneMattersAlways DEF OneMatters
<1> QED BY <1>1, <1>2, <1>3 DEF Sound, Single, StoredKept, OneRow, NoneLeft

\* And after it.
LEMMA After ==
  ASSUME Types', Wellformed', NEW b \in Callers, \A d \in Callers : d # b => Idle(d)',
         Kept(b)',
         stored' # 0 =>
           pairs'[stored'].device = deviceId' /\ (At(b, "answered")' \/ Current(stored)'),
         ~amiss' => /\ Own(b)' /\ (~Placed(b)' => Only(deviceId)')
                    /\ stored' = 0 /\ ~At(b, "answered")' => \A d \in DOMAIN devices' : ~Live(d)'
  PROVE  Inv'
<1>1. OneMatters' BY OneMattersAlways, PTL
<1>2. /\ Alone' /\ (Answered' <=> At(b, "answered")')
      /\ (\A d \in Callers : ~Placed(d)') <=> ~Placed(b)'
      /\ \A d \in Callers : Kept(d)'
      /\ Own(b)' => \A d \in Callers : Own(d)'
  BY <1>1 DEF OneMatters
<1>3. StoredKept' BY <1>2 DEF StoredKept
<1>4. Sound' BY <1>2, <1>3 DEF Sound
<1>5. ~amiss' => Single' BY <1>2 DEF Single, OneRow, NoneLeft
<1>6. Inv' <=> /\ Types' /\ Wellformed' /\ (~disturbed' => Sound')
               /\ (~disturbed' /\ ~amiss' => Single')
  BY InvIs, PTL
<1> QED BY <1>4, <1>5, <1>6

LEMMA IdleStays ==
  ASSUME NEW c \in Callers, \A d \in Callers : d # c => Idle(d), Rest(c)
  PROVE  \A d \in Callers : d # c => Idle(d)'
BY DEF Idle, Aside, Rest

\* Once disturbed, there is no more to it.
LEMMA Disturbed ==
  ASSUME Types', Wellformed', disturbed'
  PROVE  Inv'
<1>1. Inv' <=> /\ Types' /\ Wellformed' /\ (~disturbed' => Sound')
               /\ (~disturbed' /\ ~amiss' => Single')
  BY InvIs, PTL
<1> QED BY <1>1

\* A step of a call that is alone, of which neither the tables nor the browser keep anything.
LEMMA CallOnly ==
  ASSUME Inv, ~disturbed, NEW c \in Callers, Busy(c), ~Aside(c), ~At(c, "answered"),
         ~Placed(c), Rest(c), Types', Wellformed',
         UNCHANGED <<devices, pairs, stored, deviceId>>, amiss => amiss',
         call'[c].pc # "answered", Kept(c)', ~amiss' => Own(c)'
  PROVE  Inv'
<1>1. /\ \A d \in Callers : d # c => Idle(d)
      /\ stored # 0 => pairs[stored].device = deviceId /\ Current(stored)
      /\ ~amiss => /\ Only(deviceId)
                   /\ stored = 0 => \A d \in DOMAIN devices : ~Live(d)
  BY Before
<1>2. \A d \in Callers : d # c => Idle(d)' BY <1>1, IdleStays
<1>3. stored' # 0 => pairs'[stored'].device = deviceId' /\ Current(stored)'
  BY <1>1 DEF Current, RowOf
<1>4. ~amiss' => Only(deviceId)' BY <1>1 DEF Only
<1>5. ~amiss' => (stored' = 0 => \A d \in DOMAIN devices' : ~Live(d)') BY <1>1 DEF Live
<1> QED BY <1>2, <1>3, <1>4, <1>5, After

\* A step that nothing depends on: each call stays as it is, or was aside and still is.
LEMMA Untouched ==
  ASSUME Inv, Types', Wellformed',
         UNCHANGED <<devices, pairs, stored, deviceId, disturbed, amiss>>,
         \A c \in Callers :
           \/ /\ call'[c] = call[c]
              /\ call[c].op = "logout" => tab'[c[1]].access = tab[c[1]].access
           \/ Idle(c) /\ Idle(c)'
  PROVE  Inv'
<1>1. ~disturbed => Sound' /\ (~amiss => Single')
  <2> SUFFICES ASSUME ~disturbed PROVE Sound' /\ (~amiss => Single') OBVIOUS
  <2>1. Sound /\ (~amiss => Single) BY InvIs
  <2>2. (\A c \in Callers : Idle(c) =>
           /\ Kept(c) /\ Own(c) /\ ~Placed(c) /\ ~At(c, "answered") /\ (~Busy(c) \/ Aside(c))
           /\ call[c].op \notin {"refresh", "logout"})'
    BY IdleIs, PTL
  <2>3. ASSUME NEW c \in Callers
        PROVE  /\ At(c, "answered")' <=> At(c, "answered")
               /\ Placed(c)' <=> Placed(c)
               /\ Busy(c)' /\ ~Aside(c)' => Busy(c) /\ ~Aside(c)
               /\ Kept(c)'
               /\ ~amiss => Own(c)'
    <3>1. CASE Idle(c) /\ Idle(c)' BY <2>2, <3>1, IdleIs
    <3>2. CASE /\ call'[c] = call[c]
               /\ call[c].op = "logout" => tab'[c[1]].access = tab[c[1]].access
      <4>1. /\ At(c, "answered")' <=> At(c, "answered")
            /\ Placed(c)' <=> Placed(c)
            /\ Busy(c)' /\ ~Aside(c)' => Busy(c) /\ ~Aside(c)
        BY <3>2 DEF At, Placed, Busy, Aside
      <4>2. Kept(c)'
        <5>1. Kept(c) BY <2>1 DEF Sound
        <5> QED BY <3>2, <5>1 DEF Kept, Current, RowOf
      <4>3. ~amiss => Own(c)'
        <5>1. ~amiss => Own(c) BY <2>1 DEF Single
        <5> QED BY <3>2, <5>1 DEF Own, Only, Live, Placed
      <4> QED BY <4>1, <4>2, <4>3
    <3> QED BY <3>1, <3>2
  <2>4. Alone' BY <2>1, <2>3 DEF Sound, Alone
  <2>5. Answered' <=> Answered BY <2>3 DEF Answered
  <2>6. StoredKept' BY <2>1, <2>5 DEF Sound, StoredKept, Current, RowOf
  <2>7. ~amiss => OneRow' BY <2>1, <2>3 DEF Single, OneRow, Only
  <2>8. ~amiss => NoneLeft' BY <2>1, <2>5 DEF Single, NoneLeft, Live
  <2> QED BY <2>3, <2>4, <2>6, <2>7, <2>8 DEF Sound, Single
<1>2. Inv' <=> /\ Types' /\ Wellformed' /\ (~disturbed' => Sound')
               /\ (~disturbed' /\ ~amiss' => Single')
  BY InvIs, PTL
<1> QED BY <1>1, <1>2

-----------------------------------------------------------------------------
(* The invariant, step by step: the server                                  *)

\* What the steps of one call share.
LEMMA Known ==
  ASSUME Inv
  PROVE  Types /\ Wellformed
BY InvIs

LEMMA FindKeeps ==
  ASSUME Inv, NEW c \in Callers, Find(c)
  PROVE  Inv'
<1>1. Types /\ Wellformed BY Known
<1>2. /\ At(c, "find") /\ UNCHANGED <<server, browser, history>>
      /\ call[c].op = "refresh" /\ call[c].pair \in 1 .. Len(pairs)
  BY <1>1, PcIs DEF Find
<1>3. /\ Types' /\ Wellformed' /\ Rest(c)
      /\ \/ Goes(c, "failed") /\ Holders(call[c].pair) = {}
         \/ /\ call'[c].op = "refresh" /\ call'[c].pc = "issue"
            /\ call'[c].pair = call[c].pair /\ call'[c].device \in Holders(call[c].pair)
  BY <1>1, FindWell
<1>4. CASE disturbed BY <1>2, <1>3, <1>4, Disturbed
<1>5. CASE ~disturbed
  <2>1. Busy(c) /\ ~Aside(c) /\ ~At(c, "answered") /\ ~Placed(c)
    BY <1>2 DEF Busy, Aside, At, Placed, SignIns
  <2>2. /\ call[c].pair = stored /\ stored # 0
        /\ pairs[stored].device = deviceId /\ Current(stored)
    BY <1>2, <1>5, <2>1, Before DEF Kept, At
  <2>3. stored \in 1 .. Len(pairs) /\ pairs[stored].device \in DOMAIN devices
    BY <1>1, <1>2, <2>2, TableTypes
  <2>4. CASE Goes(c, "failed") /\ Holders(call[c].pair) = {}
    <3>1. RowOf(stored).revoked BY <2>2, <2>3, <2>4 DEF Holders, Current, RowOf
    <3>2. call'[c].op = "refresh" /\ call'[c].pc = "failed" /\ call'[c].pair = stored
      BY <1>2, <2>2, <2>4 DEF Goes
    <3>3. Kept(c)' BY <1>2, <3>1, <3>2 DEF Kept, RowOf, SignIns
    <3>4. Own(c)' BY <3>2 DEF Own, Placed, SignIns
    <3> QED BY <1>2, <1>3, <1>5, <2>1, <3>2, <3>3, <3>4, CallOnly
  <2>5. CASE /\ call'[c].op = "refresh" /\ call'[c].pc = "issue"
             /\ call'[c].pair = call[c].pair /\ call'[c].device \in Holders(call[c].pair)
    <3>1. call'[c].device = deviceId
      <4> DEFINE d == call'[c].device
      <4>1. d \in DOMAIN devices /\ devices[d].hash = stored BY <2>2, <2>5 DEF Holders
      <4>2. pairs[stored].device = d BY <1>1, <2>2, <4>1 DEF Wellformed, HashesKnow
      <4> QED BY <2>2, <4>2
    <3>2. Kept(c)' BY <1>2, <2>2, <2>5, <3>1 DEF Kept, SignIns
    <3>3. Own(c)' BY <2>5 DEF Own, Placed, SignIns
    <3> QED BY <1>2, <1>3, <1>5, <2>1, <2>5, <3>2, <3>3, CallOnly
  <2> QED BY <1>3, <2>4, <2>5
<1> QED BY <1>4, <1>5

LEMMA LookUpKeeps ==
  ASSUME Inv, NEW c \in Callers, LookUp(c) \/ CreateUser(c)
  PROVE  Inv'
<1>1. Types /\ Wellformed BY Known
<1>2. /\ call[c].pc \in {"account", "create"}
      /\ UNCHANGED <<devices, pairs, stored, deviceId, history>>
  BY DEF LookUp, CreateUser, At
<1>3. /\ Types' /\ Wellformed' /\ Rest(c) /\ call[c].op \in SignIns
      /\ \E pc \in {"failed", "upsert", "create"} : Goes(c, pc)
  <2>1. CASE LookUp(c) BY <1>1, <2>1, LookUpWell
  <2>2. CASE CreateUser(c) BY <1>1, <2>2, CreateUserWell
  <2> QED BY <2>1, <2>2
<1>4. CASE disturbed BY <1>2, <1>3, <1>4, Disturbed
<1>5. CASE ~disturbed
  <2>1. Busy(c) /\ ~Aside(c) /\ ~At(c, "answered") /\ ~Placed(c)
    BY <1>2, <1>3 DEF Busy, Aside, At, Placed, SignIns
  <2>2. ~amiss => call[c].device = deviceId
                  /\ (call[c].device # 0 => devices[call[c].device].user = call[c].user)
    BY <1>2, <1>3, <1>5, <2>1, Before DEF Own
  <2>3. /\ call'[c].op \in SignIns /\ call'[c].pc \in {"failed", "upsert", "create"}
        /\ call'[c].device = call[c].device /\ call'[c].user = call[c].user
    BY <1>3 DEF Goes
  <2>4. Kept(c)' BY <2>3 DEF Kept, SignIns
  <2>5. ~amiss' => Own(c)' BY <1>2, <2>2, <2>3 DEF Own, Placed, SignIns
  <2> QED BY <1>2, <1>3, <1>5, <2>1, <2>3, <2>4, <2>5, CallOnly
<1> QED BY <1>4, <1>5

LEMMA TakeKeeps ==
  ASSUME Inv, NEW c \in Callers, Take(c)
  PROVE  Inv'
<1>1. Types /\ Wellformed BY Known
<1>2. At(c, "take") /\ UNCHANGED <<devices, pairs, stored, deviceId, disturbed>> BY DEF Take
<1>3. /\ Types' /\ Wellformed' /\ Rest(c) /\ call[c].op \in SignIns
      /\ \/ Goes(c, "failed") /\ UNCHANGED amiss
         \/ /\ call'[c].op = call[c].op /\ call'[c].pc = "upsert"
            /\ Names(call'[c].user, call'[c].device)
  BY <1>1, TakeWell
<1>4. CASE disturbed BY <1>2, <1>3, <1>4, Disturbed
<1>5. CASE ~disturbed
  <2>1. Busy(c) /\ ~Aside(c) /\ ~At(c, "answered") /\ ~Placed(c)
    BY <1>2, <1>3 DEF Busy, Aside, At, Placed, SignIns
  <2>2. call'[c].op \in SignIns /\ call'[c].pc \in {"failed", "upsert"} BY <1>3 DEF Goes
  <2>3. Kept(c)' BY <2>2 DEF Kept, SignIns
  <2>4. amiss => amiss' BY <1>3 DEF Names
  <2>5. ~amiss' => Own(c)'
    <3>1. CASE Goes(c, "failed") BY <2>2, <3>1 DEF Own, Placed, Goes, SignIns
    <3>2. CASE call'[c].pc = "upsert" /\ Names(call'[c].user, call'[c].device)
      BY <1>2, <2>2, <3>2 DEF Own, Placed, Names, SignIns
    <3> QED BY <1>3, <3>1, <3>2
  <2> QED BY <1>2, <1>3, <1>5, <2>1, <2>2, <2>3, <2>4, <2>5, CallOnly
<1> QED BY <1>4, <1>5

LEMMA UpsertKeeps ==
  ASSUME Inv, NEW c \in Callers, Upsert(c)
  PROVE  Inv'
<1> DEFINE u == call[c].user  e == call[c].device  N == Len(devices)
<1>1. Types /\ Wellformed BY Known
<1>2. At(c, "upsert") /\ UNCHANGED <<pairs, stored, deviceId, history>> BY DEF Upsert
<1>3. /\ Types' /\ Wellformed' /\ Rest(c) /\ call[c].op \in SignIns
      /\ \/ /\ Reusable(u, e) /\ UNCHANGED devices /\ Goes(c, "issue")
         \/ /\ ~Reusable(u, e)
            /\ call'[c].op = call[c].op /\ call'[c].pc = "issue"
            /\ call'[c].device = N + 1 /\ Len(devices') = N + 1
            /\ \A d \in 1 .. N : devices'[d] = devices[d]
            /\ devices'[N + 1].hash = 0
  BY <1>1, UpsertWell
<1>4. CASE disturbed BY <1>2, <1>3, <1>4, Disturbed
<1>5. CASE ~disturbed
  <2>1. Busy(c) /\ ~Aside(c) /\ ~At(c, "answered") /\ ~Placed(c)
    BY <1>2, <1>3 DEF Busy, Aside, At, Placed, SignIns
  <2>2. /\ \A d \in Callers : d # c => Idle(d)
        /\ stored # 0 => pairs[stored].device = deviceId /\ Current(stored)
        /\ ~amiss => /\ e = deviceId /\ (e # 0 => devices[e].user = u)
                     /\ Only(deviceId)
                     /\ stored = 0 => \A d \in DOMAIN devices : ~Live(d)
    BY <1>2, <1>3, <1>5, <2>1, Before DEF Own, At
  <2>3. call'[c].op \in SignIns /\ call'[c].pc = "issue" BY <1>3 DEF Goes
  <2>4. Kept(c)' BY <2>3 DEF Kept, SignIns
  <2>5. CASE Reusable(u, e) /\ UNCHANGED devices /\ Goes(c, "issue")
    <3>1. Placed(c)' /\ call'[c].device = e BY <2>3, <2>5 DEF Placed, Goes
    <3>2. ~amiss => Own(c)' BY <2>2, <2>3, <2>5, <3>1 DEF Own, Only, SignIns
    <3>3. stored' # 0 => pairs'[stored'].device = deviceId' /\ Current(stored)'
      BY <1>2, <2>2, <2>5 DEF Current, RowOf
    <3>4. ~amiss' => (stored' = 0 => \A d \in DOMAIN devices' : ~Live(d)')
      BY <1>2, <2>2, <2>5 DEF Live
    <3>5. \A d \in Callers : d # c => Idle(d)' BY <1>3, <2>2, IdleStays
    <3> QED BY <1>2, <1>3, <2>4, <3>1, <3>2, <3>3, <3>4, <3>5, After
  <2>6. CASE /\ ~Reusable(u, e)
             /\ call'[c].device = N + 1 /\ Len(devices') = N + 1
             /\ \A d \in 1 .. N : devices'[d] = devices[d]
             /\ devices'[N + 1].hash = 0
    <3>1. /\ N \in Nat /\ DOMAIN devices = 1 .. N /\ DOMAIN devices' = 1 .. N + 1
          /\ stored \in 0 .. Len(pairs) /\ deviceId \in 0 .. N
          /\ \A n \in 1 .. Len(pairs) : pairs[n].device \in 1 .. N
      <4>1. DevicesTyped' BY <1>3, TypesAreParts, PTL DEF Parts
      <4>2. DOMAIN devices' = 1 .. N + 1 BY <2>6, <4>1, LenProperties DEF DevicesTyped
      <4> QED BY <1>1, <4>2, TableTypes
    <3>2. Placed(c)' BY <2>3 DEF Placed
    <3>3. ~amiss => Only(call[c].device)'
      <4>1. ~amiss => \A d \in 1 .. N : devices[d].revoked
        BY <2>2, <2>6, <3>1 DEF Only, Reusable
      <4> QED BY <2>6, <3>1, <4>1 DEF Only
    <3>4. ~amiss => Own(c)' BY <2>3, <3>2, <3>3 DEF Own, SignIns
    <3>5. stored' # 0 => pairs'[stored'].device = deviceId' /\ Current(stored)'
      <4> SUFFICES ASSUME stored # 0
                   PROVE  pairs[stored].device = deviceId /\ Current(stored)'
        BY <1>2
      <4>1. pairs[stored].device \in 1 .. N BY <3>1
      <4>2. devices'[pairs[stored].device] = devices[pairs[stored].device] BY <2>6, <4>1
      <4> QED BY <1>2, <2>2, <4>2 DEF Current, RowOf
    <3>6. ~amiss' => (stored' = 0 => \A d \in DOMAIN devices' : ~Live(d)')
      <4> SUFFICES ASSUME ~amiss, stored = 0, NEW d \in 1 .. N + 1 PROVE ~Live(d)'
        BY <1>2, <3>1
      <4>1. CASE d = N + 1 BY <2>6, <4>1 DEF Live
      <4>2. CASE d # N + 1
        <5>1. d \in 1 .. N BY <3>1, <4>2
        <5> QED BY <2>2, <2>6, <3>1, <5>1 DEF Live
      <4> QED BY <4>1, <4>2
    <3>7. \A d \in Callers : d # c => Idle(d)' BY <1>3, <2>2, IdleStays
    <3> QED BY <1>2, <1>3, <2>4, <3>2, <3>4, <3>5, <3>6, <3>7, After
  <2> QED BY <1>3, <2>5, <2>6
<1> QED BY <1>4, <1>5

LEMMA IssueKeeps ==
  ASSUME Inv, NEW c \in Callers, Issue(c)
  PROVE  Inv'
<1> DEFINE n == Len(pairs) + 1  d == call[c].device
<1>1. Types /\ Wellformed BY Known
<1>2. At(c, "issue") /\ UNCHANGED <<stored, deviceId, history>> BY DEF Issue
<1>3. /\ Types' /\ Wellformed' /\ Rest(c) /\ d \in 1 .. Len(devices)
      /\ call'[c].op = call[c].op /\ call'[c].pc = "answered" /\ call'[c].pair = n
      /\ call'[c].device = d
      /\ \A m \in 1 .. Len(pairs) : pairs'[m] = pairs[m]
      /\ pairs'[n].device = d
      /\ DOMAIN devices' = DOMAIN devices
      /\ \A e \in 1 .. Len(devices) : devices'[e].revoked = devices[e].revoked
      /\ devices'[d].hash = n
  BY <1>1, IssueWell
<1>4. CASE disturbed BY <1>2, <1>3, <1>4, Disturbed
<1>5. CASE ~disturbed
  <2>1. call[c].op \in SignIns \cup {"refresh"} BY <1>1, <1>2, PcIs
  <2>2. Busy(c) /\ ~Aside(c) /\ ~At(c, "answered")
    BY <1>2, <2>1 DEF Busy, Aside, At, SignIns
  <2>3. /\ \A b \in Callers : b # c => Idle(b)
        /\ Kept(c)
        /\ stored # 0 => pairs[stored].device = deviceId
        /\ ~amiss => Own(c) /\ (~Placed(c) => Only(deviceId))
    BY <1>5, <2>2, Before
  <2>4. stored \in 0 .. Len(pairs) /\ DOMAIN devices = 1 .. Len(devices) BY <1>1, TableTypes
  <2>5. stored' # 0 => pairs'[stored'].device = deviceId' BY <1>2, <1>3, <2>3, <2>4
  <2>6. Current(call[c].pair)' BY <1>3 DEF Current, RowOf
  <2>7. Kept(c)'
    <3>1. CASE call[c].op = "refresh"
      <4>1. call[c].pair # 0 BY <1>1, <3>1, FollowsOf DEF Follows
      <4>2. stored # 0 /\ d = deviceId BY <1>2, <2>3, <3>1, <4>1 DEF Kept, At
      <4> QED BY <1>2, <1>3, <2>6, <3>1, <4>2 DEF Kept, SignIns
    <3>2. CASE call[c].op \in SignIns BY <1>3, <2>6, <3>2 DEF Kept, SignIns
    <3> QED BY <2>1, <3>1, <3>2
  <2>8. At(c, "answered")' BY <1>3 DEF At
  <2>9. \A e : Only(e)' <=> Only(e) BY <1>3, <2>4 DEF Only
  <2>10. Placed(c)' <=> Placed(c) BY <1>2, <1>3 DEF Placed, At
  <2>11. ~amiss' => Own(c)' /\ (~Placed(c)' => Only(deviceId)')
    <3>1. ~amiss' => (Placed(c)' => Only(call[c].device)')
      BY <1>2, <1>3, <2>3, <2>9, <2>10 DEF Own
    <3>2. ~amiss' => Own(c)' BY <1>3, <2>1, <3>1 DEF Own, SignIns
    <3>3. ~amiss' => (~Placed(c)' => Only(deviceId)') BY <1>2, <2>3, <2>9, <2>10
    <3> QED BY <3>2, <3>3
  <2>12. \A b \in Callers : b # c => Idle(b)' BY <1>3, <2>3, IdleStays
  <2> QED BY <1>3, <2>5, <2>7, <2>8, <2>11, <2>12, After
<1> QED BY <1>4, <1>5

LEMMA AuthenticateKeeps ==
  ASSUME Inv, NEW t \in Tabs, Authenticate(t)
  PROVE  Inv'
<1> DEFINE c == <<t, "act">>
<1>1. Types /\ Wellformed BY Known
<1>2. /\ At(c, "authenticate") /\ UNCHANGED <<devices, pairs, stored, deviceId, disturbed>>
      /\ amiss => amiss'
  BY DEF Authenticate
<1>3. /\ Types' /\ Wellformed' /\ Rest(c) /\ call[c].op = "logout"
      /\ \/ Goes(c, "clear") /\ Accepts(t)
         \/ Goes(c, "failed") /\ amiss'
  BY <1>1, AuthenticateWell
<1>4. c \in Callers /\ c[1] = t BY CallersAre DEF Kinds
<1> HIDE DEF c
<1>5. CASE disturbed BY <1>2, <1>3, <1>5, Disturbed
<1>6. CASE ~disturbed
  <2>1. Busy(c) /\ ~Aside(c) /\ ~At(c, "answered") /\ ~Placed(c)
    BY <1>2, <1>3 DEF Busy, Aside, At, Placed, SignIns
  <2>2. Kept(c) /\ (~amiss => Only(deviceId)) BY <1>4, <1>6, <2>1, Before
  <2>3. call[c].device = pairs[tab[t].access].device /\ call[c].device \in DOMAIN devices
    BY <1>1, <1>2, <1>3, <1>4, <2>2, PcIs, TableTypes DEF Kept, At
  <2>4. call'[c].op = "logout" /\ call'[c].pc \in {"clear", "failed"} BY <1>3 DEF Goes
  <2>5. Kept(c)' BY <2>4 DEF Kept, SignIns
  <2>6. ~amiss' => Own(c)'
    <3>1. ~amiss' => Goes(c, "clear") /\ ~devices[call[c].device].revoked
      BY <1>3, <2>3 DEF Accepts
    <3>2. ~amiss' => call'[c].device = deviceId /\ call'[c].pc = "clear"
      BY <1>2, <2>2, <2>3, <3>1 DEF Only, Goes
    <3> QED BY <1>2, <2>4, <3>2 DEF Own, Placed, SignIns
  <2> QED BY <1>2, <1>3, <1>4, <1>6, <2>1, <2>4, <2>5, <2>6, CallOnly
<1> QED BY <1>5, <1>6

LEMMA ClearKeeps ==
  ASSUME Inv, NEW c \in Callers, Clear(c)
  PROVE  Inv'
<1> DEFINE d == call[c].device
<1>1. Types /\ Wellformed BY Known
<1>2. At(c, "clear") /\ UNCHANGED <<pairs, stored, deviceId, history>> BY DEF Clear
<1>3. /\ Types' /\ Wellformed' /\ Rest(c) /\ call[c].op = "logout"
      /\ Goes(c, "answered") /\ d \in 1 .. Len(devices)
      /\ DOMAIN devices' = DOMAIN devices
      /\ \A e \in 1 .. Len(devices) : e # d => devices'[e] = devices[e]
      /\ devices'[d].hash = 0 /\ devices'[d].revoked = devices[d].revoked
  BY <1>1, ClearWell
<1>4. CASE disturbed BY <1>2, <1>3, <1>4, Disturbed
<1>5. CASE ~disturbed
  <2>1. Busy(c) /\ ~Aside(c) /\ ~At(c, "answered") /\ ~Placed(c)
    BY <1>2, <1>3 DEF Busy, Aside, At, Placed, SignIns
  <2>2. /\ \A b \in Callers : b # c => Idle(b)
        /\ stored # 0 => pairs[stored].device = deviceId
        /\ ~amiss => Only(deviceId) /\ d = deviceId
    BY <1>2, <1>3, <1>5, <2>1, Before DEF Own, At
  <2>3. /\ call'[c].op = "logout" /\ call'[c].pc = "answered" /\ call'[c].device = d
    BY <1>3 DEF Goes
  <2>4. Kept(c)' /\ At(c, "answered")' /\ ~Placed(c)'
    BY <2>3 DEF Kept, At, Placed, SignIns
  <2>5. ~Live(call[c].device)' BY <1>3, <2>3 DEF Live
  <2>6. ~amiss' => Own(c)' BY <1>2, <2>2, <2>3, <2>4, <2>5 DEF Own, SignIns
  <2>7. ~amiss' => Only(deviceId)'
    <3>1. DOMAIN devices = 1 .. Len(devices) BY <1>1, TableTypes
    <3> QED BY <1>2, <1>3, <2>2, <3>1 DEF Only
  <2>8. \A b \in Callers : b # c => Idle(b)' BY <1>3, <2>2, IdleStays
  <2> QED BY <1>2, <1>3, <2>2, <2>4, <2>6, <2>7, <2>8, After
<1> QED BY <1>4, <1>5

LEMMA RevokeKeeps ==
  ASSUME Inv, NEW d \in DOMAIN devices, Revoke(d)
  PROVE  Inv'
<1>1. Types /\ Wellformed BY Known
<1>2. UNCHANGED <<pairs, browser, call, history>> BY DEF Revoke
<1>3. /\ Types' /\ Wellformed'
      /\ DOMAIN devices' = DOMAIN devices
      /\ \A e \in 1 .. Len(devices) : e # d => devices'[e] = devices[e]
      /\ devices'[d].hash = 0 /\ devices'[d].revoked /\ devices'[d].user = devices[d].user
  BY <1>1, RevokeWell
<1>4. CASE disturbed BY <1>2, <1>3, <1>4, Disturbed
<1>5. CASE ~disturbed
  <2>1. Sound /\ (~amiss => Single) BY <1>5, InvIs
  <2>2. DOMAIN devices = 1 .. Len(devices) BY <1>1, TableTypes
  <2>3. \A e \in DOMAIN devices :
          /\ devices[e].revoked => devices'[e].revoked
          /\ devices'[e].revoked \/ devices'[e] = devices[e]
          /\ devices'[e].user = devices[e].user
    BY <1>3, <2>2
  <2>4. \A n \in 1 .. Len(pairs) :
          /\ RowOf(n).revoked => RowOf(n)'.revoked
          /\ Current(n) => Current(n)'
    <3> SUFFICES ASSUME NEW n \in 1 .. Len(pairs)
                 PROVE  /\ RowOf(n).revoked => RowOf(n)'.revoked
                        /\ Current(n) => Current(n)'
      OBVIOUS
    <3>1. pairs'[n].device = pairs[n].device /\ pairs[n].device \in DOMAIN devices
      BY <1>1, <1>2, <2>2, TableTypes
    <3> QED BY <2>3, <3>1 DEF RowOf, Current
  <2>5. \A e : (Only(e) => Only(e)') BY <1>3, <2>3 DEF Only
  <2>6. \A e \in DOMAIN devices : ~Live(e) => ~Live(e)' BY <2>3 DEF Live
  <2>7. Alone' BY <1>2, <2>1 DEF Sound, Alone, Busy, Aside
  <2>8. Answered' <=> Answered BY <1>2 DEF Answered, At
  <2>9. StoredKept'
    <3>1. stored # 0 => stored \in 1 .. Len(pairs) BY <1>1, TableTypes
    <3>2. stored # 0 => (Current(stored) => Current(stored)') BY <1>2, <2>4, <3>1
    <3> QED BY <1>2, <2>1, <2>8, <3>2 DEF Sound, StoredKept
  <2>10. ASSUME NEW c \in Callers PROVE Kept(c)' /\ (~amiss => Own(c)')
    <3>1. Kept(c) /\ (~amiss => Own(c)) BY <2>1 DEF Sound, Single
    <3>2. call'[c] = call[c] /\ tab' = tab BY <1>2
    <3>3. call[c].pc = "answered" /\ call[c].op # "logout" => call[c].pair \in 1 .. Len(pairs)
      BY <1>1, PcIs DEF At
    <3>4. call[c].op = "refresh" => call[c].pair \in 1 .. Len(pairs)
      BY <1>1, FollowsOf, CallTypes, TableTypes DEF Follows
    <3>5. call[c].op \in SignIns => call[c].op # "logout" BY DEF SignIns
    <3>6. /\ call[c].op = "refresh" =>
               /\ Current(call[c].pair) => Current(call[c].pair)'
               /\ RowOf(call[c].pair).revoked => RowOf(call[c].pair)'.revoked
          /\ call[c].op \in SignIns /\ call[c].pc = "answered" =>
               (Current(call[c].pair) => Current(call[c].pair)')
      BY <2>4, <3>2, <3>3, <3>4, <3>5
    <3>7. Kept(c)' BY <1>2, <3>1, <3>2, <3>6 DEF Kept
    <3>8. call[c].device # 0 => call[c].device \in DOMAIN devices
      BY <1>1, <2>2, CallTypes, TableTypes
    <3>9. call[c].op = "logout" => call[c].device # 0 BY <1>1, FollowsOf DEF Follows
    <3>10. Placed(c)' <=> Placed(c) BY <3>2 DEF Placed
    <3>11. ~amiss => Own(c)'
      <4>1. ~amiss => (Placed(c)' => Only(call[c].device)')
        BY <2>5, <3>1, <3>2, <3>10 DEF Own
      <4>2. ~amiss => (call[c].op = "logout" /\ call[c].pc = "answered" => ~Live(call[c].device)')
        BY <2>6, <3>1, <3>2, <3>8, <3>9 DEF Own
      <4>3. call[c].device # 0 =>
              devices'[call[c].device].user = devices[call[c].device].user
        BY <2>3, <3>8
      <4> QED BY <1>2, <3>1, <3>2, <4>1, <4>2, <4>3 DEF Own
    <3> QED BY <3>7, <3>11
  <2>11. ~amiss => OneRow' BY <1>2, <2>1, <2>5 DEF Single, OneRow, Placed
  <2>12. ~amiss => NoneLeft' BY <1>2, <1>3, <2>1, <2>6, <2>8 DEF Single, NoneLeft
  <2>13. Sound' /\ (~amiss' => Single')
    BY <1>2, <2>7, <2>9, <2>10, <2>11, <2>12 DEF Sound, Single
  <2>14. Inv' <=> /\ Types' /\ Wellformed' /\ (~disturbed' => Sound')
                  /\ (~disturbed' /\ ~amiss' => Single')
    BY InvIs, PTL
  <2> QED BY <1>3, <2>13, <2>14
<1> QED BY <1>4, <1>5

LEMMA LoseKeeps == ASSUME Inv, NEW c \in Callers, Lose(c) PROVE Inv'
BY Known, LoseWell, Disturbed

-----------------------------------------------------------------------------
(* The invariant, step by step: the auth context                            *)

LEMMA SignedInKeeps ==
  ASSUME Inv, NEW t \in Tabs, SignedIn(t)
  PROVE  Inv'
<1> DEFINE c == <<t, "act">>  n == call[c].pair
<1>1. Types /\ Wellformed BY Known
<1>2. UNCHANGED <<devices, pairs, history>> BY DEF SignedIn
<1>3. /\ Types' /\ Wellformed' /\ Rest(c) /\ call'[c].op = "none" /\ call'[c].pc = "none"
      /\ call[c].op \in SignIns /\ At(c, "answered")
      /\ n \in 1 .. Len(pairs) /\ pairs[n].device = call[c].device
      /\ stored' = n /\ deviceId' = call[c].device
  BY <1>1, SignedInWell
<1>4. c \in Callers BY CallersAre
<1> HIDE DEF c
<1>5. CASE disturbed BY <1>2, <1>3, <1>5, Disturbed
<1>6. CASE ~disturbed
  <2>1. Busy(c) /\ ~Aside(c) /\ Placed(c) BY <1>3 DEF Busy, Aside, At, Placed, SignIns
  <2>2. (\A b \in Callers : b # c => Idle(b)) /\ Kept(c) /\ (~amiss => Own(c))
    BY <1>4, <1>6, <2>1, Before
  <2>3. Current(n) /\ (~amiss => Only(call[c].device))
    BY <1>3, <2>1, <2>2 DEF Kept, Own, At
  <2>4. pairs'[stored'].device = deviceId' /\ Current(stored)'
    BY <1>2, <1>3, <2>3 DEF Current, RowOf
  <2>5. stored' # 0 BY <1>3
  <2>6. ~amiss' => Only(deviceId)' BY <1>2, <1>3, <2>3 DEF Only
  <2>7. Kept(c)' /\ Own(c)' BY <1>3 DEF Kept, Own, Placed, SignIns
  <2>8. \A b \in Callers : b # c => Idle(b)' BY <1>3, <1>4, <2>2, IdleStays
  <2> QED BY <1>3, <1>4, <2>4, <2>5, <2>6, <2>7, <2>8, After
<1> QED BY <1>5, <1>6

LEMMA CallbackLoadedKeeps ==
  ASSUME Inv, NEW t \in Tabs, CallbackLoaded(t)
  PROVE  Inv'
<1> DEFINE c == <<t, "act">>  n == call[c].pair  r == <<t, "restore">>
<1>1. Types /\ Wellformed BY Known
<1>2. UNCHANGED <<devices, pairs, history>> BY DEF CallbackLoaded
<1>3. /\ Types' /\ Wellformed'
      /\ call[c].op = "oauth" /\ At(c, "answered")
      /\ n \in 1 .. Len(pairs) /\ pairs[n].device = call[c].device
      /\ stored' = n /\ deviceId' = call[c].device
      /\ call'[c].op = "oauth" /\ call'[c].pc = "me"
      /\ call'[r].op = "refresh" /\ call'[r].pc = "find" /\ call'[r].pair = n
      /\ \A d \in Callers : d # c /\ d # r => call'[d] = call[d]
  BY <1>1, CallbackLoadedWell
<1>4. c \in Callers /\ r \in Callers /\ c # r BY CallersAre
<1> HIDE DEF c, r
<1>5. CASE disturbed BY <1>2, <1>3, <1>5, Disturbed
<1>6. CASE ~disturbed
  <2>1. Busy(c) /\ ~Aside(c) /\ Placed(c) BY <1>3 DEF Busy, Aside, At, Placed, SignIns
  <2>2. (\A b \in Callers : b # c => Idle(b)) /\ Kept(c) /\ (~amiss => Own(c))
    BY <1>4, <1>6, <2>1, Before
  <2>3. Current(n) /\ (~amiss => Only(call[c].device))
    BY <1>3, <2>1, <2>2 DEF Kept, Own, At, SignIns
  <2>4. pairs'[stored'].device = deviceId' /\ Current(stored)'
    BY <1>2, <1>3, <2>3 DEF Current, RowOf
  <2>5. stored' # 0 BY <1>3
  <2>6. ~amiss' => Only(deviceId)' BY <1>2, <1>3, <2>3 DEF Only
  <2>7. Kept(r)' /\ Own(r)' BY <1>3 DEF Kept, Own, Placed, SignIns
  <2>8. \A b \in Callers : b # r => Idle(b)'
    <3> SUFFICES ASSUME NEW b \in Callers, b # r PROVE Idle(b)' OBVIOUS
    <3>1. CASE b = c BY <1>3, <3>1 DEF Idle, Aside
    <3>2. CASE b # c
      <4>1. Idle(b) /\ call'[b] = call[b] BY <1>3, <2>2, <3>2
      <4> QED BY <4>1 DEF Idle, Aside
    <3> QED BY <3>1, <3>2
  <2> QED BY <1>3, <1>4, <2>4, <2>5, <2>6, <2>7, <2>8, After
<1> QED BY <1>5, <1>6

LEMMA RefreshedKeeps ==
  ASSUME Inv, NEW t \in Tabs, NEW k \in Kinds, Refreshed(t, k)
  PROVE  Inv'
<1> DEFINE c == <<t, k>>  n == call[c].pair
<1>1. Types /\ Wellformed BY Known
<1>2. UNCHANGED <<devices, pairs, deviceId, history>> BY DEF Refreshed
<1>3. /\ Types' /\ Wellformed' /\ Rest(c) /\ call[c].op = "refresh" /\ At(c, "answered")
      /\ n \in 1 .. Len(pairs) /\ pairs[n].device = call[c].device
      /\ stored' = n
      /\ \/ Goes(c, "me")
         \/ call'[c].op = "none" /\ call'[c].pc = "none"
  BY <1>1, RefreshedWell
<1>4. c \in Callers BY CallersAre
<1> HIDE DEF c
<1>5. CASE disturbed BY <1>2, <1>3, <1>5, Disturbed
<1>6. CASE ~disturbed
  <2>1. Busy(c) /\ ~Aside(c) /\ ~Placed(c)
    BY <1>3 DEF Busy, Aside, At, Placed, SignIns
  <2>2. (\A b \in Callers : b # c => Idle(b)) /\ Kept(c) /\ (~amiss => Only(deviceId))
    BY <1>4, <1>6, <2>1, Before
  <2>3. Current(n) /\ call[c].device = deviceId BY <1>3, <2>2 DEF Kept, At
  <2>4. pairs'[stored'].device = deviceId' /\ Current(stored)'
    BY <1>2, <1>3, <2>3 DEF Current, RowOf
  <2>5. stored' # 0 BY <1>3
  <2>6. ~amiss' => Only(deviceId)' BY <1>2, <2>2 DEF Only
  <2>7. Kept(c)' /\ Own(c)'
    <3>1. CASE Goes(c, "me") BY <1>3, <3>1 DEF Kept, Own, Placed, Goes, SignIns
    <3>2. CASE call'[c].op = "none" BY <3>2 DEF Kept, Own, Placed, SignIns
    <3> QED BY <1>3, <3>1, <3>2
  <2>8. \A b \in Callers : b # c => Idle(b)' BY <1>3, <1>4, <2>2, IdleStays
  <2> QED BY <1>3, <1>4, <2>4, <2>5, <2>6, <2>7, <2>8, After
<1> QED BY <1>5, <1>6

\* Who is asked for by completeOAuthCallback is nobody's session.
LEMMA AsideMoves ==
  ASSUME Inv, ~disturbed, NEW c \in Callers, Aside(c), Rest(c), Types', Wellformed',
         UNCHANGED <<devices, pairs, stored, deviceId, disturbed, amiss>>, Idle(c)',
         \A s \in Tabs : s # c[1] => tab'[s] = tab[s]
  PROVE  Inv'
<1>1. \A d \in Callers : d # c /\ call[d].op = "logout" => tab'[d[1]].access = tab[d[1]].access
  <2> SUFFICES ASSUME NEW d \in Callers, d # c, call[d].op = "logout"
               PROVE  tab'[d[1]].access = tab[d[1]].access
    OBVIOUS
  <2>1. Types /\ Wellformed BY Known
  <2>2. d[2] # "restore" /\ c[2] # "restore"
    <3>1. call[c].op = "oauth" BY DEF Aside
    <3> QED BY <2>1, <3>1, FollowsOf DEF Follows
  <2>3. d[2] = "act" /\ c[2] = "act" BY <2>2, CallersAre DEF Kinds
  <2>4. d[1] # c[1] /\ d[1] \in Tabs BY <2>3, CallersAre
  <2> QED BY <2>4
<1>2. Idle(c) BY DEF Idle
<1>3. \A d \in Callers :
        \/ /\ call'[d] = call[d]
           /\ call[d].op = "logout" => tab'[d[1]].access = tab[d[1]].access
        \/ Idle(d) /\ Idle(d)'
  BY <1>1, <1>2 DEF Rest
<1> QED BY <1>3, Untouched

LEMMA MeKeeps ==
  ASSUME Inv, NEW t \in Tabs, NEW k \in Kinds, Me(t, k)
  PROVE  Inv'
<1> DEFINE c == <<t, k>>
<1>1. Types /\ Wellformed BY Known
<1>2. UNCHANGED <<devices, pairs, stored, deviceId, history>> BY DEF Me
<1>3. /\ Types' /\ Wellformed' /\ Rest(c) /\ At(c, "me")
      /\ call'[c].op = "none" /\ call'[c].pc = "none"
      /\ \A s \in Tabs : s # t => tab'[s] = tab[s]
  BY <1>1, MeWell
<1>4. c \in Callers /\ c[1] = t BY CallersAre
<1> HIDE DEF c
<1>5. CASE disturbed BY <1>2, <1>3, <1>5, Disturbed
<1>6. CASE ~disturbed /\ Aside(c)
  <2>1. Idle(c)' BY <1>3 DEF Idle
  <2> QED BY <1>2, <1>3, <1>4, <1>6, <2>1, AsideMoves
<1>7. CASE ~disturbed /\ ~Aside(c)
  <2>1. Busy(c) /\ ~At(c, "answered") /\ ~Placed(c)
    BY <1>1, <1>3, <1>4, PcIs DEF Busy, At, Placed
  <2>2. Kept(c)' /\ Own(c)' BY <1>3 DEF Kept, Own, Placed, SignIns
  <2> QED BY <1>2, <1>3, <1>4, <1>7, <2>1, <2>2, CallOnly
<1> QED BY <1>5, <1>6, <1>7

LEMMA MeRefusedKeeps ==
  ASSUME Inv, NEW t \in Tabs, NEW k \in Kinds, MeRefused(t, k)
  PROVE  Inv'
<1> DEFINE c == <<t, k>>
<1>1. Types /\ Wellformed BY Known
<1>2. UNCHANGED <<devices, pairs, browser, history>> BY DEF MeRefused
<1>3. /\ Types' /\ Wellformed' /\ Rest(c) /\ At(c, "me") /\ Goes(c, "failed")
      /\ RowOf(call[c].pair).revoked
  BY <1>1, MeRefusedWell
<1>4. c \in Callers BY CallersAre
<1> HIDE DEF c
<1>5. CASE disturbed BY <1>2, <1>3, <1>5, Disturbed
<1>6. CASE ~disturbed /\ Aside(c)
  <2>1. Idle(c)' BY <1>3, <1>6 DEF Idle, Aside, Goes
  <2> QED BY <1>2, <1>3, <1>4, <1>6, <2>1, AsideMoves
<1>7. CASE ~disturbed /\ ~Aside(c)
  <2>1. Busy(c) /\ ~At(c, "answered") /\ ~Placed(c)
    BY <1>1, <1>3, <1>4, PcIs DEF Busy, At, Placed
  <2>2. Kept(c) BY <1>4, <1>7, <2>1, Before
  <2>3. /\ call'[c].op = call[c].op /\ call'[c].pc = "failed" /\ call'[c].pair = call[c].pair
        /\ call[c].op # "logout"
    BY <1>1, <1>3, <1>4, PcIs DEF Goes, SignIns
  <2>4. Kept(c)' BY <1>2, <1>3, <2>2, <2>3 DEF Kept, At, RowOf
  <2>5. Own(c)' BY <2>3 DEF Own, Placed
  <2> QED BY <1>2, <1>3, <1>4, <1>7, <2>1, <2>3, <2>4, <2>5, CallOnly
<1> QED BY <1>5, <1>6, <1>7

LEMMA FailedKeeps ==
  ASSUME Inv, NEW t \in Tabs, Failed(t)
  PROVE  Inv'
<1> DEFINE c == <<t, "act">>
<1>1. Types /\ Wellformed BY Known
<1>2. UNCHANGED <<devices, pairs, browser, history>> BY DEF Failed
<1>3. /\ Types' /\ Wellformed' /\ Rest(c) /\ At(c, "failed")
      /\ call'[c].op = "none" /\ call'[c].pc = "none"
  BY <1>1, FailedWell
<1>4. c \in Callers BY CallersAre
<1> HIDE DEF c
<1>5. CASE disturbed BY <1>2, <1>3, <1>5, Disturbed
<1>6. CASE ~disturbed /\ Aside(c)
  <2>1. Idle(c)' BY <1>3 DEF Idle
  <2> QED BY <1>2, <1>3, <1>4, <1>6, <2>1, AsideMoves
<1>7. CASE ~disturbed /\ ~Aside(c)
  <2>1. Busy(c) /\ ~At(c, "answered") /\ ~Placed(c)
    BY <1>1, <1>3, <1>4, PcIs DEF Busy, At, Placed
  <2>2. Kept(c)' /\ Own(c)' BY <1>3 DEF Kept, Own, Placed, SignIns
  <2> QED BY <1>2, <1>3, <1>4, <1>7, <2>1, <2>2, CallOnly
<1> QED BY <1>5, <1>6, <1>7

\* The refresh token goes: nothing is left of the session by then.
LEMMA Forgotten ==
  ASSUME Inv, ~disturbed, NEW c \in Callers, Busy(c), ~Aside(c), Rest(c), Types', Wellformed',
         UNCHANGED <<devices, pairs, deviceId, disturbed, amiss>>, stored' = 0,
         call'[c].op = "none", call'[c].pc = "none", ~Placed(c),
         ~amiss => (deviceId \in DOMAIN devices => ~Live(deviceId))
  PROVE  Inv'
<1>1. (\A d \in Callers : d # c => Idle(d)) /\ (~amiss => Only(deviceId)) BY Before
<1>2. \A d \in Callers : d # c => Idle(d)' BY <1>1, IdleStays
<1>3. Kept(c)' /\ Own(c)' BY DEF Kept, Own, Placed, SignIns
<1>4. ~amiss' => Only(deviceId)' BY <1>1 DEF Only
<1>5. ~amiss' => \A d \in DOMAIN devices' : ~Live(d)' BY <1>1 DEF Only, Live
<1> QED BY <1>2, <1>3, <1>4, <1>5, After

LEMMA NotRestoredKeeps ==
  ASSUME Inv, NEW t \in Tabs, NotRestored(t)
  PROVE  Inv'
<1> DEFINE c == <<t, "restore">>
<1>1. Types /\ Wellformed BY Known
<1>2. UNCHANGED <<devices, pairs, deviceId, history>> BY DEF NotRestored
<1>3. /\ Types' /\ Wellformed' /\ Rest(c) /\ At(c, "failed") /\ call[c].op = "refresh"
      /\ call'[c].op = "none" /\ call'[c].pc = "none"
      /\ stored' = 0
  BY <1>1, NotRestoredWell
<1>4. c \in Callers BY CallersAre
<1> HIDE DEF c
<1>5. CASE disturbed BY <1>2, <1>3, <1>5, Disturbed
<1>6. CASE ~disturbed
  <2>1. Busy(c) /\ ~Aside(c) /\ ~Placed(c) /\ ~At(c, "answered")
    BY <1>3 DEF Busy, Aside, At, Placed, SignIns
  <2>2. call[c].pair # 0 BY <1>1, <1>3, <1>4, FollowsOf DEF Follows
  <2>3. Kept(c) /\ (stored # 0 => pairs[stored].device = deviceId) BY <1>4, <1>6, <2>1, Before
  <2>4. call[c].pair = stored /\ RowOf(stored).revoked BY <1>3, <2>3 DEF Kept, At
  <2>5. ~Live(deviceId) BY <2>2, <2>3, <2>4 DEF RowOf, Live
  <2> QED BY <1>2, <1>3, <1>4, <1>6, <2>1, <2>5, Forgotten
<1> QED BY <1>5, <1>6

LEMMA LoggedOutKeeps ==
  ASSUME Inv, NEW t \in Tabs, LoggedOut(t)
  PROVE  Inv'
<1> DEFINE c == <<t, "act">>
<1>1. Types /\ Wellformed BY Known
<1>2. UNCHANGED <<devices, pairs, deviceId, history>> BY DEF LoggedOut
<1>3. /\ Types' /\ Wellformed' /\ Rest(c) /\ call[c].op = "logout"
      /\ call[c].pc \in {"answered", "failed"}
      /\ call'[c].op = "none" /\ call'[c].pc = "none"
      /\ stored' = 0
  BY <1>1, LoggedOutWell
<1>4. c \in Callers BY CallersAre
<1> HIDE DEF c
<1>5. CASE disturbed BY <1>2, <1>3, <1>5, Disturbed
<1>6. CASE ~disturbed
  <2>1. Busy(c) /\ ~Aside(c) /\ ~Placed(c)
    BY <1>3 DEF Busy, Aside, Placed, SignIns
  <2>2. ~amiss => Own(c) BY <1>4, <1>6, <2>1, Before
  <2>3. ~amiss => ~Live(deviceId) BY <1>3, <2>2 DEF Own
  <2> QED BY <1>2, <1>3, <1>4, <1>6, <2>1, <2>3, Forgotten
<1> QED BY <1>5, <1>6

-----------------------------------------------------------------------------
(* The invariant, step by step: the user                                    *)

\* One call begins, when there was none.
LEMMA Starts ==
  ASSUME Inv, ~disturbed, Quiet, NEW c \in Callers, Rest(c), Types', Wellformed',
         UNCHANGED <<devices, pairs, stored, deviceId>>, amiss => amiss',
         call'[c].pc \in {"account", "find", "take", "authenticate"},
         Kept(c)', ~amiss' => Own(c)'
  PROVE  Inv'
<1>1. Types /\ Wellformed /\ Sound /\ (~amiss => Single) BY InvIs
<1>2. \A d \in Callers : Idle(d)
  BY <1>1, FollowsOf DEF Quiet, Busy, Follows, Idle
<1>3. \A d \in Callers : ~At(d, "answered") /\ ~Placed(d) BY <1>2, IdleIs
<1>4. /\ stored # 0 => pairs[stored].device = deviceId /\ Current(stored)
      /\ ~amiss => /\ Only(deviceId)
                   /\ stored = 0 => \A d \in DOMAIN devices : ~Live(d)
  BY <1>1, <1>3 DEF Sound, Single, StoredKept, OneRow, NoneLeft, Answered
<1>5. \A d \in Callers : d # c => Idle(d)' BY <1>2, IdleStays
<1>6. stored' # 0 => pairs'[stored'].device = deviceId' /\ Current(stored)'
  BY <1>4 DEF Current, RowOf
<1>7. ~amiss' => Only(deviceId)' BY <1>4 DEF Only
<1>8. ~amiss' => (stored' = 0 => \A d \in DOMAIN devices' : ~Live(d)') BY <1>4 DEF Live
<1> QED BY <1>5, <1>6, <1>7, <1>8, After

LEMMA SubmitKeeps ==
  ASSUME Inv, NEW t \in Tabs, NEW u \in Users, NEW op \in {"login", "register", "oauth"},
         Submit(t, op, u)
  PROVE  Inv'
<1> DEFINE c == <<t, "act">>
<1>1. Types /\ Wellformed BY Known
<1>2. UNCHANGED <<devices, pairs, stored, deviceId>> /\ (amiss => amiss')
  BY DEF Submit, Names
<1>3. /\ Types' /\ Wellformed' /\ Rest(c)
      /\ call'[c].op \in SignIns /\ call'[c].pc = "account"
      /\ Names(call'[c].user, call'[c].device)
      /\ ~disturbed' => ~disturbed /\ Quiet
  BY <1>1, SubmitWell
<1>4. c \in Callers BY CallersAre
<1> HIDE DEF c
<1>5. CASE disturbed' BY <1>3, <1>5, Disturbed
<1>6. CASE ~disturbed'
  <2>1. Kept(c)' BY <1>3 DEF Kept, SignIns
  <2>2. ~amiss' => Own(c)' BY <1>2, <1>3 DEF Own, Placed, Names, SignIns
  <2> QED BY <1>2, <1>3, <1>4, <1>6, <2>1, <2>2, Starts
<1> QED BY <1>5, <1>6

LEMMA CallRefusedKeeps ==
  ASSUME Inv, NEW t \in Tabs, CallRefused(t)
  PROVE  Inv'
<1> DEFINE c == <<t, "act">>
<1>1. Types /\ Wellformed BY Known
<1>2. UNCHANGED <<devices, pairs, stored, deviceId, amiss>> BY DEF CallRefused
<1>3. /\ Types' /\ Wellformed' /\ Rest(c)
      /\ call'[c].op = "refresh" /\ call'[c].pc = "find" /\ call'[c].pair = stored
      /\ ~disturbed' => ~disturbed /\ Quiet
  BY <1>1, CallRefusedWell
<1>4. c \in Callers BY CallersAre
<1> HIDE DEF c
<1>5. CASE disturbed' BY <1>3, <1>5, Disturbed
<1>6. CASE ~disturbed'
  <2>1. Kept(c)' /\ Own(c)' BY <1>2, <1>3 DEF Kept, Own, Placed, SignIns
  <2> QED BY <1>2, <1>3, <1>4, <1>6, <2>1, Starts
<1> QED BY <1>5, <1>6

LEMMA LogoutKeeps ==
  ASSUME Inv, NEW t \in Tabs, Logout(t)
  PROVE  Inv'
<1> DEFINE c == <<t, "act">>
<1>1. Types /\ Wellformed BY Known
<1>2. UNCHANGED <<devices, pairs, stored, deviceId, amiss>> BY DEF Logout
<1>3. /\ Types' /\ Wellformed' /\ Rest(c)
      /\ call'[c].op = "logout" /\ call'[c].pc = "authenticate"
      /\ call'[c].device = pairs'[tab'[t].access].device
      /\ ~disturbed' => ~disturbed /\ Quiet
  BY <1>1, LogoutWell
<1>4. c \in Callers /\ c[1] = t BY CallersAre
<1> HIDE DEF c
<1>5. CASE disturbed' BY <1>3, <1>5, Disturbed
<1>6. CASE ~disturbed'
  <2>1. Kept(c)' BY <1>3, <1>4 DEF Kept, SignIns
  <2>2. Own(c)' BY <1>3 DEF Own, Placed, SignIns
  <2> QED BY <1>2, <1>3, <1>4, <1>6, <2>1, <2>2, Starts
<1> QED BY <1>5, <1>6

LEMMA LoadKeeps ==
  ASSUME Inv, NEW t \in Tabs, NEW l \in Links \cup {None}, Load(t, l)
  PROVE  Inv'
<1>1. Types /\ Wellformed BY Known
<1>2. UNCHANGED <<devices, pairs, stored, deviceId, amiss>> BY DEF Load
<1>3. /\ Types' /\ Wellformed'
      /\ ~disturbed' =>
           /\ ~disturbed /\ Quiet
           /\ \/ UNCHANGED call
              \/ \E c \in Callers : Rest(c) /\
                   \/ call'[c].op = "link" /\ call'[c].pc = "take"
                   \/ call'[c].op = "refresh" /\ call'[c].pc = "find"
                      /\ call'[c].pair = stored
  BY <1>1, LoadWell
<1>4. CASE disturbed' BY <1>3, <1>4, Disturbed
<1>5. CASE ~disturbed'
  <2>1. CASE UNCHANGED call
    <3>1. \A c \in Callers : call[c].op # "logout" BY <1>3, <1>5 DEF Quiet, Busy
    <3>2. UNCHANGED disturbed
      <4>1. FlagsTyped /\ FlagsTyped' BY <1>1, <1>3, TypesAreParts, PTL DEF Parts
      <4> QED BY <1>3, <1>5, <4>1, Zenon DEF FlagsTyped
    <3> QED BY <1>2, <1>3, <2>1, <3>1, <3>2, Untouched
  <2>2. ASSUME NEW c \in Callers, Rest(c),
               \/ call'[c].op = "link" /\ call'[c].pc = "take"
               \/ call'[c].op = "refresh" /\ call'[c].pc = "find" /\ call'[c].pair = stored
        PROVE  Inv'
    <3>1. Kept(c)' /\ Own(c)' BY <1>2, <2>2 DEF Kept, Own, Placed, SignIns
    <3> QED BY <1>2, <1>3, <1>5, <2>2, <3>1, Starts
  <2> QED BY <1>3, <1>5, <2>1, <2>2
<1> QED BY <1>4, <1>5

LEMMA MakeLinkKeeps ==
  ASSUME Inv, NEW t \in Tabs, NEW l \in Links, NEW u \in Users, MakeLink(t, l, u)
  PROVE  Inv'
<1>1. Types /\ Wellformed BY Known
<1>2. UNCHANGED <<devices, pairs, browser, call, history>> BY DEF MakeLink
<1>3. Types' /\ Wellformed' BY <1>1, MakeLinkWell
<1> QED BY <1>2, <1>3, Untouched

LEMMA ExpireKeeps ==
  ASSUME Inv, NEW t \in Tabs, Expire(t)
  PROVE  Inv'
<1>1. Types /\ Wellformed BY Known
<1>2. UNCHANGED <<devices, pairs, stored, deviceId, call, history>> BY DEF Expire
<1>3. Types' /\ Wellformed' /\ \A s \in Tabs : tab'[s].access = tab[s].access
  BY <1>1, ExpireWell
<1>4. \A c \in Callers : tab'[c[1]].access = tab[c[1]].access BY <1>3, CallersAre
<1> QED BY <1>2, <1>3, <1>4, Untouched

-----------------------------------------------------------------------------
(* The invariant                                                            *)

LEMMA InvInit == Init => Inv
<1> SUFFICES ASSUME Init PROVE Inv OBVIOUS
<1>1. /\ accounts = {} /\ devices = <<>> /\ pairs = <<>>
      /\ links = [l \in Links |-> NotMade] /\ stored = 0 /\ deviceId = 0
      /\ tab = [t \in Tabs |-> Out(0)] /\ call = [c \in Callers |-> NoCall]
      /\ disturbed = FALSE /\ amiss = FALSE
  BY DEF Init
<1>2. Len(devices) = 0 /\ Len(pairs) = 0 /\ DOMAIN devices = {} /\ DOMAIN pairs = {}
  BY <1>1
<1>3. DevicesTyped BY <1>1, <1>2, Limits, EmptySeq DEF DevicesTyped
<1>4. PairsTyped BY <1>1, <1>2, Limits, EmptySeq DEF PairsTyped
<1>5. CallsTyped BY <1>1, NoCallIs DEF CallsTyped
<1>6. LinksTyped
  <2>1. NotMade \in Holds BY <1>2 DEF NotMade, Holds
  <2> QED BY <1>1, <2>1 DEF LinksTyped
<1>7. TabsTyped
  <2>1. Out(0) \in Contexts /\ Out(0).status = "out" BY <1>2 DEF Out, Contexts
  <2> QED BY <1>1, <2>1 DEF TabsTyped
<1>8. BrowserTyped /\ FlagsTyped
  <2>1. BrowserTyped BY <1>1, <1>2 DEF BrowserTyped
  <2>2. FlagsTyped BY <1>1, Zenon DEF FlagsTyped
  <2> QED BY <2>1, <2>2
<1>9. Types BY <1>3, <1>4, <1>5, <1>6, <1>7, <1>8, TypesAreParts DEF Parts
<1>10. \A c \in Callers : call[c].op = "none" /\ call[c].pc = "none" BY <1>1, NoCallIs
<1>11. \A c \in Callers : Follows(c) BY <1>10 DEF Follows, SignIns
<1>12. LinksKnow
  <2>1. NotMade.state # "made" BY DEF NotMade
  <2> QED BY <1>1, <2>1 DEF LinksKnow
<1>13. Wellformed BY <1>2, <1>11, <1>12 DEF Wellformed, HashesKnow
<1>14. \A c \in Callers : Idle(c) BY <1>10 DEF Idle
<1>15. \A c \in Callers : Kept(c) /\ Own(c) /\ ~Placed(c) /\ ~Busy(c)
  BY <1>10, <1>14, IdleIs DEF Busy
<1>16. Sound BY <1>1, <1>15 DEF Sound, Alone, StoredKept
<1>17. Single BY <1>2, <1>15 DEF Single, OneRow, NoneLeft, Only
<1> QED BY <1>9, <1>13, <1>16, <1>17, InvIs

LEMMA InvStep == Inv /\ [Next]_vars => Inv'
<1> SUFFICES ASSUME Inv, [Next]_vars PROVE Inv' OBVIOUS
<1>1. ASSUME NEW c \in Callers, ServerStep(c) \/ Lose(c) PROVE Inv'
  BY <1>1, FindKeeps, LookUpKeeps, TakeKeeps, UpsertKeeps, IssueKeeps, ClearKeeps, LoseKeeps
  DEF ServerStep
<1>2. ASSUME NEW t \in Tabs, Authenticate(t) \/ TabStep(t) \/ Expire(t) PROVE Inv'
  BY <1>2, AuthenticateKeeps, SignedInKeeps, CallbackLoadedKeeps, NotRestoredKeeps,
     LoggedOutKeeps, FailedKeeps, RefreshedKeeps, MeKeeps, MeRefusedKeeps, ExpireKeeps
  DEF TabStep
<1>3. ASSUME NEW t \in Tabs, User(t) PROVE Inv'
  BY <1>3, LoadKeeps, CallRefusedKeeps, LogoutKeeps, SubmitKeeps, MakeLinkKeeps
  DEF User, SubmitForm, ContinueWithGithub
<1>4. ASSUME NEW d \in DOMAIN devices, Revoke(d) PROVE Inv' BY <1>4, RevokeKeeps
<1>5. CASE UNCHANGED vars
  <2>1. Types /\ Wellformed BY Known
  <2>2. UNCHANGED <<accounts, devices, pairs, links, stored, deviceId, tab, call, history>>
    BY <1>5
  <2>3. Types'
    <3>1. CallsTyped BY <2>1, TypesAreParts DEF Parts
    <3>2. /\ DevicesTyped' /\ PairsTyped' /\ LinksTyped' /\ TabsTyped' /\ BrowserTyped'
          /\ FlagsTyped' /\ Calls = Calls'
      BY <2>1, <2>2, SameTables
    <3>3. CallsTyped' BY <2>2, <3>1, <3>2 DEF CallsTyped
    <3> QED BY <3>2, <3>3, PartsMake
  <2>4. \A c \in Callers : Follows(c)' BY <2>1, <2>2, CallsStay
  <2>5. Wellformed' BY <2>1, <2>2, <2>4 DEF Wellformed, LinksKnow, HashesKnow
  <2> QED BY <2>2, <2>3, <2>5, Untouched
<1> QED BY <1>1, <1>2, <1>3, <1>4, <1>5 DEF Next

(* Whatever is signed in, refreshed, signed out, revoked, expired or lost,  *)
(* in whatever order: every call knows what it is waiting for, a row holds  *)
(* the hash of a pair that was issued for it, and as long as one call is    *)
(* made at a time, the browser's pair is the one its row holds.             *)
THEOREM Invariant == Spec => [](Types /\ IInv)
<1>1. Inv <=> Types /\ IInv BY DEF Inv
<1> QED BY <1>1, InvInit, InvStep, PTL DEF Spec

(* The tables, the calls and the contexts of the tabs keep their types.     *)
THEOREM TypeCorrect == Spec => []TypeOK
<1>1. Types /\ IInv => TypeOK BY DEF Types
<1> QED BY <1>1, Invariant, PTL

\* What there is when nothing is under way and nothing was ever disturbed.
LEMMA InCalm ==
  ASSUME Inv, Calm
  PROVE  /\ stored # 0 => Current(stored)
         /\ ~amiss => Only(deviceId) /\ (stored = 0 => \A d \in DOMAIN devices : ~Live(d))
<1>1. Types /\ Wellformed /\ Sound /\ (~amiss => Single) BY InvIs DEF Calm
<1>2. \A c \in Callers : Idle(c)
  BY <1>1, FollowsOf DEF Calm, Quiet, Busy, Follows, Idle
<1>3. \A c \in Callers : ~At(c, "answered") /\ ~Placed(c) BY <1>2, IdleIs
<1>4. ~Answered BY <1>3 DEF Answered
<1> QED BY <1>1, <1>3, <1>4 DEF Sound, Single, StoredKept, OneRow, NoneLeft

(* refreshTokens rotates the hash before the answer is stored, and another  *)
(* tab may read the token meanwhile: one call at a time, what localStorage  *)
(* holds is what the row holds, unless the device was revoked.              *)
THEOREM TheTokenIsCurrent == Spec => []StoredIsCurrent
<1>1. Inv => StoredIsCurrent
  BY InCalm DEF StoredIsCurrent, Current, RowOf
<1> QED BY <1>1, InvInit, InvStep, PTL DEF Spec

(* logout forgets the token whether or not logoutDevice cleared the hash,   *)
(* and a restore that failed forgets it too: one call at a time, no row is  *)
(* left that would still accept the token that is gone.                     *)
THEOREM NothingIsLeftBehind == Spec => []NoSessionLeft
<1>1. Inv => NoSessionLeft BY InCalm DEF NoSessionLeft
<1> QED BY <1>1, InvInit, InvStep, PTL DEF Spec

(* upsertDevice finds the row by the id that the browser names: however     *)
(* often it signs in, it has one row that is not revoked.                   *)
THEOREM ABrowserIsOneDevice == Spec => []OneDevice
<1>1. Inv => OneDevice
  <2> SUFFICES ASSUME Inv, Calm, ~amiss, NEW d \in DOMAIN devices, NEW e \in DOMAIN devices,
                      d # e
               PROVE  devices[d].revoked \/ devices[e].revoked
    BY DEF OneDevice
  <2>1. Only(deviceId) BY InCalm
  <2> QED BY <2>1 DEF Only
<1> QED BY <1>1, InvInit, InvStep, PTL DEF Spec

(* A token that is rotated away is refused: one call at a time, a refresh   *)
(* is refused for a revoked device and for nothing else.                    *)
THEOREM RefreshesAreHonoured == Spec => []RefreshHonoured
<1>1. Inv => RefreshHonoured BY InvIs DEF Sound, Kept, RefreshHonoured, RowOf
<1> QED BY <1>1, InvInit, InvStep, PTL DEF Spec
=============================================================================
