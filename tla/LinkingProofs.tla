---------------------------- MODULE LinkingProofs ----------------------------
(***************************************************************************)
(* Proofs about Linking, for any devices and codes, any number of joins    *)
(* and chunks, and any number of cancellations, pages left, disconnections *)
(* and replaced sockets.                                                   *)
(***************************************************************************)
EXTENDS Linking, SequenceTheorems, TLAPS

-----------------------------------------------------------------------------
(* Sequences                                                                *)

\* What is left of a queue once something was taken from it, or everything lost.
Fewer(q, r) == r = q \/ (q # <<>> /\ r = Tail(q)) \/ r = <<>>

LEMMA RangeAppend ==
  ASSUME NEW S, NEW q \in Seq(S), NEW e \in S
  PROVE  /\ Append(q, e) \in Seq(S) /\ Len(Append(q, e)) = Len(q) + 1
         /\ DOMAIN Append(q, e) = 1 .. Len(q) + 1
         /\ \A k \in 1 .. Len(q) : Append(q, e)[k] = q[k]
         /\ Append(q, e)[Len(q) + 1] = e
         /\ Range(Append(q, e)) = Range(q) \cup {e}
<1>1. /\ Append(q, e) \in Seq(S) /\ Len(Append(q, e)) = Len(q) + 1
      /\ \A k \in 1 .. Len(q) : Append(q, e)[k] = q[k]
      /\ Append(q, e)[Len(q) + 1] = e
  BY AppendProperties
<1>2. DOMAIN Append(q, e) = 1 .. Len(q) + 1 /\ DOMAIN q = 1 .. Len(q) /\ Len(q) \in Nat
  BY <1>1, LenProperties
<1>3. Range(Append(q, e)) = Range(q) \cup {e}
  <2>1. ASSUME NEW x \in Range(Append(q, e)) PROVE x \in Range(q) \cup {e}
    <3>1. PICK k \in 1 .. Len(q) + 1 : x = Append(q, e)[k] BY <1>2 DEF Range
    <3>2. CASE k \in 1 .. Len(q) BY <3>1, <3>2, <1>1, <1>2 DEF Range
    <3>3. CASE k = Len(q) + 1 BY <3>1, <3>3, <1>1
    <3> QED BY <3>2, <3>3, <1>2
  <2>2. ASSUME NEW x \in Range(q) PROVE x \in Range(Append(q, e))
    <3>1. PICK k \in 1 .. Len(q) : x = q[k] BY <1>2 DEF Range
    <3>2. k \in 1 .. Len(q) + 1 /\ Append(q, e)[k] = x BY <3>1, <1>1, <1>2
    <3> QED BY <3>2, <1>2 DEF Range
  <2>3. e \in Range(Append(q, e))
    <3>1. Len(q) + 1 \in 1 .. Len(q) + 1 BY <1>2
    <3> QED BY <3>1, <1>1, <1>2 DEF Range
  <2> QED BY <2>1, <2>2, <2>3
<1> QED BY <1>1, <1>2, <1>3

LEMMA HeadAndTail ==
  ASSUME NEW S, NEW q \in Seq(S), q # <<>>
  PROVE  /\ Head(q) \in S /\ Tail(q) \in Seq(S) /\ Len(Tail(q)) + 1 = Len(q)
         /\ Head(q) = q[1] /\ 1 \in DOMAIN q
         /\ DOMAIN Tail(q) = 1 .. Len(q) - 1 /\ DOMAIN q = 1 .. Len(q) /\ Len(q) \in Nat
         /\ \A k \in DOMAIN Tail(q) : k + 1 \in DOMAIN q /\ Tail(q)[k] = q[k + 1]
         /\ Range(q) = {Head(q)} \cup Range(Tail(q))
<1>1. DOMAIN q = 1 .. Len(q) /\ Len(q) \in Nat \ {0} BY LenProperties, EmptySeq
<1>2. /\ Head(q) \in S /\ Tail(q) \in Seq(S) /\ Len(Tail(q)) = Len(q) - 1
      /\ \A k \in 1 .. Len(q) - 1 : Tail(q)[k] = q[k + 1]
      /\ Head(q) = q[1]
  BY <1>1, HeadTailProperties
<1>3. DOMAIN Tail(q) = 1 .. Len(q) - 1 BY <1>2, LenProperties
<1>4. \A k \in DOMAIN Tail(q) : k + 1 \in DOMAIN q /\ Tail(q)[k] = q[k + 1] BY <1>1, <1>2, <1>3
<1>5. Range(q) = {Head(q)} \cup Range(Tail(q))
  <2>1. ASSUME NEW x \in Range(q) PROVE x \in {Head(q)} \cup Range(Tail(q))
    <3>1. PICK k \in 1 .. Len(q) : x = q[k] BY <1>1 DEF Range
    <3>2. CASE k = 1 BY <3>1, <3>2, <1>2
    <3>3. CASE k # 1
      <4>1. k - 1 \in 1 .. Len(q) - 1 /\ Tail(q)[k - 1] = x BY <3>1, <3>3, <1>1, <1>2
      <4> QED BY <4>1, <1>3 DEF Range
    <3> QED BY <3>2, <3>3
  <2>2. Head(q) \in Range(q) BY <1>1, <1>2 DEF Range
  <2>3. Range(Tail(q)) \subseteq Range(q) BY <1>4 DEF Range
  <2> QED BY <2>1, <2>2, <2>3
<1> QED BY <1>1, <1>2, <1>3, <1>4, <1>5

\* No two places of what is left were one.
LEMMA FewerIs ==
  ASSUME NEW S, NEW q \in Seq(S), NEW r, Fewer(q, r)
  PROVE  /\ r \in Seq(S) /\ Range(r) \subseteq Range(q)
         /\ \A j, k \in DOMAIN r : \E m, n \in DOMAIN q :
              q[m] = r[j] /\ q[n] = r[k] /\ (m = n => j = k)
<1>1. CASE r = q BY <1>1
<1>2. CASE q # <<>> /\ r = Tail(q)
  <2>1. r \in Seq(S) /\ Range(r) \subseteq Range(q) BY <1>2, HeadAndTail
  <2>2. ASSUME NEW j \in DOMAIN r, NEW k \in DOMAIN r
        PROVE  \E m, n \in DOMAIN q : q[m] = r[j] /\ q[n] = r[k] /\ (m = n => j = k)
    <3>1. /\ j + 1 \in DOMAIN q /\ q[j + 1] = r[j] /\ k + 1 \in DOMAIN q /\ q[k + 1] = r[k]
          /\ j \in Nat /\ k \in Nat
      BY <1>2, <2>2, HeadAndTail
    <3>2. j + 1 = k + 1 => j = k BY <3>1
    <3> HIDE DEF Fewer
    <3> QED BY <3>1, <3>2
  <2> QED BY <2>1, <2>2
<1>3. CASE r = <<>>
  <2>1. r \in Seq(S) /\ DOMAIN r = {} BY <1>3
  <2> QED BY <2>1 DEF Range
<1> QED BY <1>1, <1>2, <1>3 DEF Fewer

\* A prefix of the pipe.
LEMMA CutIs ==
  ASSUME NEW S, NEW q \in Seq(S), NEW n \in 0 .. Len(q)
  PROVE  /\ SubSeq(q, 1, n) \in Seq(S) /\ Len(SubSeq(q, 1, n)) = n
         /\ DOMAIN SubSeq(q, 1, n) = 1 .. n
         /\ \A k \in 1 .. n : k \in DOMAIN q /\ SubSeq(q, 1, n)[k] = q[k]
         /\ Range(SubSeq(q, 1, n)) \subseteq Range(q)
<1> DEFINE r == SubSeq(q, 1, n)
<1>1. DOMAIN q = 1 .. Len(q) /\ Len(q) \in Nat BY LenProperties
<1>2. r \in Seq(S) /\ Len(r) = n /\ \A k \in 1 .. n : r[k] = q[k] BY <1>1, SubSeqProperties
<1> HIDE DEF r
<1>3. DOMAIN r = 1 .. n BY <1>2, LenProperties
<1>4. \A k \in 1 .. n : k \in DOMAIN q BY <1>1
<1>5. Range(r) \subseteq Range(q) BY <1>2, <1>3, <1>4 DEF Range
<1> QED BY <1>2, <1>3, <1>4, <1>5 DEF r

-----------------------------------------------------------------------------
(* Types, part by part                                                      *)

Pairings == [host : Devices, attempts : 0 .. 0, source : Devices \cup {None}]

ServerTypes ==
  /\ session \in [Codes -> Pairings \cup {None}] /\ used \subseteq Codes
  /\ \A c \in Codes : session[c] # None =>
       c \in used /\ session[c].host = Host /\ session[c].source \in {Source, None}
  /\ asked \in Codes \cup {None}
  /\ cancel \in [Ends -> [code : Codes \cup {None}, other : Ends \cup {None}]]
  /\ \A d \in Ends : cancel[d].other \in {Other(d), None}
MailTypes ==
  /\ inbox \in [Ends -> Seq(Events)]
  /\ \A d \in Ends : \A e \in Range(inbox[d]) : e.type \in Signals \cup {"ack"} => e.code \in Codes
PageTypes == page \in [Ends -> Phases] /\ code \in [Ends -> Codes \cup {None}]
LinkTypes ==
  /\ link \in [Ends -> Links]
  /\ \A d \in Ends : /\ link[d].open => link[d].code \in Codes
                     /\ link[d].remote # "no" => link[d].peer \in Codes
WireTypes == channel \in {"none", "open", "broken"} /\ pipe \in Seq(0 .. Done)
             /\ received \subseteq 1 .. MaxChunks
JobTypes == job \in [code : Codes \cup {None}, left : Seq(0 .. Collect)]
            /\ (job.left # <<>> => job.code \in Codes)
StoreTypes ==
  /\ applying \in [pc : {"no", "yes", "detached", "shown"}, of : Codes \cup {None},
                   items : SUBSET (1 .. MaxChunks)]
  /\ applying.pc # "no" => applying.of \in Codes
  /\ collected \in [Codes -> 0 .. MaxChunks \cup {None}]
  /\ imported \subseteq Codes \X (1 .. MaxChunks)
CountTypes == joins \in 0 .. MaxJoins /\ upsets \in 0 .. MaxUpsets /\ lost \in BOOLEAN
              /\ orphan \in {"none", "armed", "past"}

Types == TypeOK /\ Shapes
Parts == ServerTypes /\ MailTypes /\ PageTypes /\ LinkTypes /\ WireTypes /\ JobTypes
         /\ StoreTypes /\ CountTypes

LEMMA TypesAreParts == Types <=> Parts
<1> USE DEF Parts, Types, TypeOK, Shapes, Pairings
<1>1. Types => Parts
  BY DEF ServerTypes, MailTypes, PageTypes, LinkTypes, WireTypes, JobTypes, StoreTypes, CountTypes
<1>2. Parts => Types
  BY DEF ServerTypes, MailTypes, PageTypes, LinkTypes, WireTypes, JobTypes, StoreTypes, CountTypes
<1> QED BY <1>1, <1>2

LEMMA PartsMake == Types' <=> Parts' BY TypesAreParts, PTL

LEMMA PartsOf ==
  ASSUME Types
  PROVE  ServerTypes /\ MailTypes /\ PageTypes /\ LinkTypes /\ WireTypes /\ JobTypes
         /\ StoreTypes /\ CountTypes
BY TypesAreParts DEF Parts

LEMMA TypesFrom ==
  ASSUME ServerTypes', MailTypes', PageTypes', LinkTypes', WireTypes', JobTypes', StoreTypes',
         CountTypes'
  PROVE  Types'
BY PartsMake DEF Parts

\* What stays keeps its types.
LEMMA Frames ==
  ASSUME Types
  PROVE  /\ UNCHANGED server => ServerTypes'
         /\ UNCHANGED inbox => MailTypes'
         /\ UNCHANGED <<page, code>> => PageTypes'
         /\ UNCHANGED link => LinkTypes'
         /\ UNCHANGED <<channel, pipe, received>> => WireTypes'
         /\ UNCHANGED job => JobTypes'
         /\ UNCHANGED <<applying, collected, imported>> => StoreTypes'
         /\ UNCHANGED <<joins, upsets, lost, orphan>> => CountTypes'
<1> USE PartsOf
<1>1. UNCHANGED server => ServerTypes' BY DEF server, rendezvous, ServerTypes
<1>2. UNCHANGED inbox => MailTypes' BY DEF MailTypes
<1>3. UNCHANGED <<page, code>> => PageTypes' BY DEF PageTypes
<1>4. UNCHANGED link => LinkTypes' BY DEF LinkTypes
<1>5. UNCHANGED <<channel, pipe, received>> => WireTypes' BY DEF WireTypes
<1>6. UNCHANGED job => JobTypes' BY DEF JobTypes
<1>7. UNCHANGED <<applying, collected, imported>> => StoreTypes' BY DEF StoreTypes
<1>8. UNCHANGED <<joins, upsets, lost, orphan>> => CountTypes' BY DEF CountTypes
<1> QED BY <1>1, <1>2, <1>3, <1>4, <1>5, <1>6, <1>7, <1>8

LEMMA TheEnds ==
  /\ Host \in Ends /\ Source \in Ends /\ Host # Source
  /\ Other(Host) = Source /\ Other(Source) = Host
  /\ \A d \in Ends : d = Host \/ d = Source
  /\ None \notin Codes /\ None \notin Ends
BY Pair, NoneAssumption DEF Ends, Other

LEMMA Numbers ==
  /\ MaxChunks \in Nat /\ Done = MaxChunks + 1 /\ Collect = MaxChunks + 2 /\ Start = 0
  /\ MaxJoins \in Nat /\ MaxUpsets \in Nat
BY LinkBounds DEF Done, Collect, Start

\* One end's link is another record.
LEMMA Relinked ==
  ASSUME Types, NEW d \in Ends, NEW r \in Links, link' = [link EXCEPT ![d] = r],
         r.open => r.code \in Codes, r.remote # "no" => r.peer \in Codes
  PROVE  LinkTypes' /\ link'[d] = r /\ \A e \in Ends \ {d} : link'[e] = link[e]
<1>1. LinkTypes BY PartsOf
<1>2. link' \in [Ends -> Links] BY <1>1 DEF LinkTypes
<1>3. link'[d] = r /\ \A e \in Ends \ {d} : link'[e] = link[e] BY <1>1 DEF LinkTypes
<1>4. \A e \in Ends : /\ link'[e].open => link'[e].code \in Codes
                      /\ link'[e].remote # "no" => link'[e].peer \in Codes
  BY <1>1, <1>3 DEF LinkTypes
<1> QED BY <1>2, <1>3, <1>4 DEF LinkTypes

\* A link of the same code, open only if it was, whose description stays once it is there.
Dims(l, m) == /\ m.code = l.code /\ (m.open => l.open)
              /\ (l.remote = "yes" => m.remote = "yes" /\ m.peer = l.peer)
Fading == \A d \in Ends : Dims(link[d], link'[d])

LEMMA ClosedIs ==
  ASSUME Types, NEW d \in Ends, link' = [link EXCEPT ![d].open = FALSE, ![d].armed = FALSE]
  PROVE  /\ LinkTypes' /\ Fading
         /\ ~link'[d].open /\ ~link'[d].armed /\ link'[d].peer = link[d].peer
         /\ \A e \in Ends \ {d} : link'[e] = link[e]
<1>1. LinkTypes BY PartsOf
<1>2. link[d] \in Links BY <1>1 DEF LinkTypes
<1> DEFINE r == [link[d] EXCEPT !.open = FALSE, !.armed = FALSE]
<1>3. r \in Links BY <1>2 DEF Links
<1>4. ~r.open /\ ~r.armed /\ r.code = link[d].code /\ r.peer = link[d].peer
      /\ r.remote = link[d].remote
  BY <1>2 DEF Links
<1>5. link' = [link EXCEPT ![d] = r] BY <1>1 DEF LinkTypes
<1>6. r.remote # "no" => r.peer \in Codes BY <1>1, <1>4 DEF LinkTypes
<1> HIDE DEF r
<1>7. LinkTypes' /\ link'[d] = r /\ \A e \in Ends \ {d} : link'[e] = link[e]
  BY <1>3, <1>4, <1>5, <1>6, Relinked
<1>8. \A e \in Ends : Dims(link[e], link'[e]) BY <1>4, <1>7 DEF Dims
<1> QED BY <1>4, <1>7, <1>8 DEF Fading

\* Closing cuts the pipe, and empties it for the host.
LEMMA CloseIs ==
  ASSUME Types, Conduit, NEW d \in Ends, Close(d)
  PROVE  /\ LinkTypes' /\ Fading /\ Cut
         /\ ~link'[d].open /\ ~link'[d].armed /\ link'[d].peer = link[d].peer
         /\ \A e \in Ends \ {d} : link'[e] = link[e]
         /\ d = Host => pipe' = <<>>
         /\ pipe' = pipe \/ link[d].open
<1>1. pipe \in Seq(0 .. Done) BY PartsOf DEF WireTypes
<1>2. Len(pipe) \in Nat /\ pipe = SubSeq(pipe, 1, Len(pipe)) /\ SubSeq(pipe, 1, 0) = <<>>
  BY <1>1, LenProperties, SubSeqFull, SubSeqEmpty
<1>3. (pipe' = pipe \/ pipe' = <<>>) => Cut
  <2>1. Len(pipe) \in 0 .. Len(pipe) /\ 0 \in 0 .. Len(pipe) BY <1>2
  <2> QED BY <2>1, <1>2 DEF Cut
<1>4. Cut BY <1>3 DEF Close
<1>5. d = Host => pipe' = <<>> BY DEF Close, Conduit
<1>6. pipe' = pipe \/ link[d].open BY DEF Close
<1>7. link' = [link EXCEPT ![d].open = FALSE, ![d].armed = FALSE] BY DEF Close
<1> QED BY <1>4, <1>5, <1>6, <1>7, ClosedIs


-----------------------------------------------------------------------------
(* The server's sockets                                                     *)

\* Nothing of type t is new in a queue that only lost something or got something else.
LEMMA NoneNew ==
  ASSUME NEW q \in Seq(Events), NEW r, NEW t,
         Fewer(q, r) \/ \E e \in Events : e.type # t /\ r = Append(q, e)
  PROVE  /\ \A x \in Range(r) : x.type = t => x \in Range(q)
         /\ \A j, k \in DOMAIN r : r[j].type = t /\ r[k].type = t =>
              \E m, n \in DOMAIN q : q[m] = r[j] /\ q[n] = r[k] /\ (m = n => j = k)
<1>1. CASE Fewer(q, r) BY <1>1, FewerIs
<1>2. CASE \E e \in Events : e.type # t /\ r = Append(q, e)
  <2>1. PICK e \in Events : e.type # t /\ r = Append(q, e) BY <1>2
  <2>2. /\ DOMAIN r = 1 .. Len(q) + 1 /\ (\A k \in 1 .. Len(q) : r[k] = q[k])
        /\ r[Len(q) + 1] = e /\ Range(r) = Range(q) \cup {e}
    BY <2>1, RangeAppend
  <2>3. DOMAIN q = 1 .. Len(q) /\ Len(q) \in Nat BY LenProperties
  <2>4. ASSUME NEW k \in DOMAIN r, r[k].type = t PROVE k \in DOMAIN q /\ q[k] = r[k]
    BY <2>1, <2>2, <2>3, <2>4
  <2>5. \A x \in Range(r) : x.type = t => x \in Range(q) BY <2>1, <2>2
  <2>6. ASSUME NEW j \in DOMAIN r, NEW k \in DOMAIN r, r[j].type = t, r[k].type = t
        PROVE  \E m, n \in DOMAIN q : q[m] = r[j] /\ q[n] = r[k] /\ (m = n => j = k)
    BY <2>4, <2>6
  <2> QED BY <2>5, <2>6
<1> QED BY <1>1, <1>2

\* Steps of the queues that bring no ack and no peer-joined.
ToSource ==
  Fewer(inbox[Source], inbox'[Source]) \/
  \E e \in Events : e.type # "ack" /\ inbox'[Source] = Append(inbox[Source], e)
ToHost ==
  Fewer(inbox[Host], inbox'[Host]) \/
  \E e \in Events : /\ inbox'[Host] = Append(inbox[Host], e)
                    /\ \/ e.type = "cancelled" /\ cancel[Source] # NoCancel
                       \/ e.type \in Signals /\ e.code = link[Source].code
Posts == MailTypes' /\ ToSource /\ ToHost

LEMMA TypesDiffer ==
  /\ "ack" \notin Signals /\ "peer-joined" \notin Signals /\ "cancelled" \notin Signals
  /\ "refused" \notin Signals
BY DEF Signals

LEMMA SourcePosts ==
  ASSUME Types, ToSource
  PROVE  /\ \A e \in Range(inbox'[Source]) : e.type = "ack" => e \in Range(inbox[Source])
         /\ Told(Source, "ack")' => Told(Source, "ack")
         /\ Alone(Source, "ack") => Alone(Source, "ack")'
         /\ \A j, k \in DOMAIN inbox'[Source] :
              inbox'[Source][j].type = "ack" /\ inbox'[Source][k].type = "ack" =>
                \E m, n \in DOMAIN inbox[Source] :
                  inbox[Source][m] = inbox'[Source][j] /\ inbox[Source][n] = inbox'[Source][k]
                  /\ (m = n => j = k)
<1> DEFINE q == inbox[Source]  r == inbox'[Source]
<1>1. q \in Seq(Events) BY PartsOf, TheEnds DEF MailTypes
<1>2. /\ \A x \in Range(r) : x.type = "ack" => x \in Range(q)
      /\ \A j, k \in DOMAIN r : r[j].type = "ack" /\ r[k].type = "ack" =>
           \E m, n \in DOMAIN q : q[m] = r[j] /\ q[n] = r[k] /\ (m = n => j = k)
  <2>1. Fewer(q, r) \/ \E e \in Events : e.type # "ack" /\ r = Append(q, e) BY DEF ToSource
  <2> HIDE DEF r, q
  <2> QED BY <1>1, <2>1, NoneNew
<1>3. Told(Source, "ack")' => Told(Source, "ack") BY <1>2 DEF Told
<1>4. Alone(Source, "ack") => Alone(Source, "ack")' BY <1>2 DEF Alone
<1> QED BY <1>2, <1>3, <1>4

LEMMA HostPosts ==
  ASSUME Types, ToHost
  PROVE  /\ \A e \in Range(inbox'[Host]) : e.type \in Signals =>
              e \in Range(inbox[Host]) \/ e.code = link[Source].code
         /\ Told(Host, "peer-joined")' => Told(Host, "peer-joined")
         /\ Alone(Host, "peer-joined") => Alone(Host, "peer-joined")'
         /\ Told(Host, "cancelled")' => Told(Host, "cancelled") \/ cancel[Source] # NoCancel
<1> DEFINE q == inbox[Host]  r == inbox'[Host]
<1>1. q \in Seq(Events) BY PartsOf, TheEnds DEF MailTypes
<1>2. Fewer(q, r) \/ \E e \in Events : e.type # "peer-joined" /\ r = Append(q, e)
  BY TypesDiffer DEF ToHost
<1>3. /\ \A x \in Range(r) : x.type = "peer-joined" => x \in Range(q)
      /\ \A j, k \in DOMAIN r : r[j].type = "peer-joined" /\ r[k].type = "peer-joined" =>
           \E m, n \in DOMAIN q : q[m] = r[j] /\ q[n] = r[k] /\ (m = n => j = k)
  <2> HIDE DEF r, q
  <2> QED BY <1>1, <1>2, NoneNew
<1>4. Told(Host, "peer-joined")' => Told(Host, "peer-joined") BY <1>3 DEF Told
<1>5. Alone(Host, "peer-joined") => Alone(Host, "peer-joined")' BY <1>3 DEF Alone
<1>6. ASSUME NEW e \in Range(r)
      PROVE  \/ e \in Range(q)
             \/ e.type = "cancelled" /\ cancel[Source] # NoCancel
             \/ e.type \in Signals /\ e.code = link[Source].code
  <2>1. CASE Fewer(q, r) BY <2>1, <1>1, <1>6, FewerIs
  <2>2. CASE ~Fewer(q, r)
    <3>1. PICK f \in Events : /\ r = Append(q, f)
                              /\ \/ f.type = "cancelled" /\ cancel[Source] # NoCancel
                                 \/ f.type \in Signals /\ f.code = link[Source].code
      BY <2>2 DEF ToHost
    <3>2. Range(r) = Range(q) \cup {f} BY <1>1, <3>1, RangeAppend
    <3> HIDE DEF r, q
    <3> QED BY <3>1, <3>2, <1>6
  <2> QED BY <2>1, <2>2
<1>7. \A e \in Range(r) : e.type \in Signals => e \in Range(q) \/ e.code = link[Source].code
  BY <1>6, TypesDiffer
<1>8. Told(Host, "cancelled")' => Told(Host, "cancelled") \/ cancel[Source] # NoCancel
  BY <1>6, TypesDiffer DEF Told
<1> QED BY <1>4, <1>5, <1>7, <1>8

LEMMA Unposted == ASSUME Types, UNCHANGED inbox PROVE Posts
BY Frames DEF Posts, ToSource, ToHost, Fewer

LEMMA LessPosted ==
  ASSUME Types, NEW d \in Ends, NEW r, Fewer(inbox[d], r), inbox' = [inbox EXCEPT ![d] = r]
  PROVE  /\ Posts /\ inbox'[d] = r
         /\ \A e \in Ends \ {d} : inbox'[e] = inbox[e]
<1>1. MailTypes BY PartsOf
<1>2. inbox'[d] = r /\ \A e \in Ends \ {d} : inbox'[e] = inbox[e] BY <1>1 DEF MailTypes
<1>3. inbox[d] \in Seq(Events) BY <1>1 DEF MailTypes
<1>4. r \in Seq(Events) /\ Range(r) \subseteq Range(inbox[d]) BY <1>3, FewerIs
<1>5. MailTypes' BY <1>1, <1>2, <1>4 DEF MailTypes
<1>6. \A e \in Ends : Fewer(inbox[e], inbox'[e]) BY <1>2 DEF Fewer
<1> QED BY <1>2, <1>5, <1>6, TheEnds DEF Posts, ToSource, ToHost

LEMMA Taken ==
  ASSUME Types, NEW d \in Ends, inbox[d] # <<>>, Handled(d)
  PROVE  /\ Posts /\ inbox'[d] = Tail(inbox[d]) /\ Head(inbox[d]) \in Events
         /\ Head(inbox[d]) \in Range(inbox[d])
         /\ \A e \in Ends \ {d} : inbox'[e] = inbox[e]
<1>1. inbox[d] \in Seq(Events) BY PartsOf DEF MailTypes
<1>2. inbox' = [inbox EXCEPT ![d] = Tail(inbox[d])] BY PartsOf DEF Handled, MailTypes
<1>3. Fewer(inbox[d], Tail(inbox[d])) BY DEF Fewer
<1>4. /\ Posts /\ inbox'[d] = Tail(inbox[d])
      /\ \A e \in Ends \ {d} : inbox'[e] = inbox[e]
  BY <1>2, <1>3, LessPosted
<1>5. Head(inbox[d]) \in Events /\ Head(inbox[d]) \in Range(inbox[d]) BY <1>1, HeadAndTail
<1> QED BY <1>4, <1>5

LEMMA Cleared ==
  ASSUME Types, NEW d \in Ends, inbox' = [inbox EXCEPT ![d] = <<>>]
  PROVE  Posts /\ inbox'[d] = <<>> /\ \A e \in Ends \ {d} : inbox'[e] = inbox[e]
<1>1. Fewer(inbox[d], <<>>) BY DEF Fewer
<1> QED BY <1>1, LessPosted

LEMMA Posted ==
  ASSUME Types, NEW d \in Ends, NEW e \in Events, Emit(d, e),
         e.type \in Signals \cup {"ack"} => e.code \in Codes
  PROVE  /\ MailTypes' /\ inbox'[d] = Append(inbox[d], e)
         /\ \A f \in Ends \ {d} : inbox'[f] = inbox[f]
         /\ d = Source /\ e.type # "ack" => Posts
         /\ d = Host /\ e.type = "cancelled" /\ cancel[Source] # NoCancel => Posts
         /\ d = Host /\ e.type \in Signals /\ e.code = link[Source].code => Posts
<1>1. MailTypes BY PartsOf
<1>2. inbox'[d] = Append(inbox[d], e) /\ \A f \in Ends \ {d} : inbox'[f] = inbox[f]
  BY <1>1 DEF MailTypes, Emit
<1>3. inbox[d] \in Seq(Events) BY <1>1 DEF MailTypes
<1>4. inbox'[d] \in Seq(Events) /\ Range(inbox'[d]) = Range(inbox[d]) \cup {e}
  BY <1>2, <1>3, RangeAppend
<1>5. inbox' \in [Ends -> Seq(Events)] BY <1>1, <1>2, <1>4 DEF MailTypes, Emit
<1>6. ASSUME NEW f \in Ends, NEW x \in Range(inbox'[f]), x.type \in Signals \cup {"ack"}
      PROVE  x.code \in Codes
  <2>1. CASE f = d BY <2>1, <1>1, <1>4, <1>6 DEF MailTypes
  <2>2. CASE f # d BY <2>2, <1>1, <1>2, <1>6 DEF MailTypes
  <2> QED BY <2>1, <2>2
<1>7. MailTypes' BY <1>5, <1>6 DEF MailTypes
<1>8. \A f \in Ends \ {d} : Fewer(inbox[f], inbox'[f]) BY <1>2 DEF Fewer
<1>9. d = Source /\ e.type # "ack" => Posts
  BY <1>2, <1>7, <1>8, TheEnds DEF Posts, ToSource, ToHost
<1>10. d = Host /\ e.type = "cancelled" /\ cancel[Source] # NoCancel => Posts
  BY <1>2, <1>7, <1>8, TheEnds DEF Posts, ToSource, ToHost
<1>11. d = Host /\ e.type \in Signals /\ e.code = link[Source].code => Posts
  BY <1>2, <1>7, <1>8, TheEnds DEF Posts, ToSource, ToHost
<1> QED BY <1>2, <1>7, <1>9, <1>10, <1>11


-----------------------------------------------------------------------------
(* What most steps leave as it is                                           *)

\* No code becomes one that may still be joined.
Unspent(c) == c \notin used \/ Waiting(c)
Ages == \A c \in Codes : Unspent(c)' => Unspent(c)

\* Codes go only where the source's link, a signal to the host, or the host's link had them.
Traces ==
  /\ link'[Source].code = link[Source].code
  /\ \/ link'[Host].peer \in {link[Host].peer, None}
     \/ \E e \in Range(inbox[Host]) : e.type \in Signals /\ link'[Host].peer = e.code
  /\ job'.code \in {job.code, None, link[Source].code}
  /\ applying'.of \in {applying.of, None, link[Host].peer}

LEMMA AcksKept ==
  ASSUME Types, AckedOnce, Posts, Ages, Traces
  PROVE  AckedOnce'
<1>1. ToSource /\ ToHost BY DEF Posts
<1>2. ASSUME NEW j \in DOMAIN inbox'[Source], NEW k \in DOMAIN inbox'[Source],
             inbox'[Source][j] = inbox'[Source][k], inbox'[Source][j].type = "ack"
      PROVE  j = k
  <2>1. PICK m, n \in DOMAIN inbox[Source] :
          inbox[Source][m] = inbox'[Source][j] /\ inbox[Source][n] = inbox'[Source][k]
          /\ (m = n => j = k)
    BY <1>1, <1>2, SourcePosts
  <2>2. m = n BY <2>1, <1>2 DEF AckedOnce
  <2> QED BY <2>1, <2>2
<1>3. ASSUME NEW c \in Codes, Event("ack", c) \in Range(inbox'[Source])
      PROVE  Event("ack", c) \in Range(inbox[Source])
  BY <1>1, <1>3, SourcePosts DEF Event
<1>4. ASSUME NEW c \in Codes, Unspent(c)' PROVE Event("ack", c) \notin Range(inbox'[Source])
  BY <1>3, <1>4 DEF Ages, AckedOnce, Unspent
<1>5. ASSUME NEW c \in Codes, Untold(c)' PROVE Traceless(c)'
  <2>1. Untold(c) BY <1>3, <1>5 DEF Untold, Ages, Unspent
  <2>2. Traceless(c) BY <2>1 DEF AckedOnce
  <2>3. c # None BY TheEnds
  <2>4. c \notin {link'[Source].code, link'[Host].peer, job'.code, applying'.of}
    BY <2>2, <2>3 DEF Traceless, Traces
  <2>5. \A e \in Range(inbox'[Host]) : e.type \in Signals => e.code # c
    BY <2>2, <1>1, HostPosts DEF Traceless
  <2> QED BY <2>4, <2>5 DEF Traceless
<1> QED BY <1>2, <1>4, <1>5 DEF AckedOnce, Unspent

\* The transfer goes no further: what was on its way is cut, if at all.
Stands ==
  /\ Fading /\ Cut
  /\ channel' = channel \/ (channel = "open" /\ channel' = "broken")
  /\ link[Host].open /\ ~link'[Host].open => pipe' = <<>>
  /\ pipe' = pipe \/ channel' # "open" \/ ~link'[Host].open \/ ~link'[Source].open
  /\ job' \in {job, NoJob}
  /\ received' = received /\ collected' = collected
  /\ \/ applying' = NotApplying
     \/ /\ applying'.of = applying.of /\ applying'.items = applying.items
        /\ applying'.pc = "no" <=> applying.pc = "no"

LEMMA CutPipe ==
  ASSUME Types, Cut
  PROVE  /\ pipe \in Seq(0 .. Done) /\ pipe' \in Seq(0 .. Done)
         /\ \A k \in DOMAIN pipe' : k \in DOMAIN pipe /\ k \in Nat /\ pipe'[k] = pipe[k]
         /\ \A k \in DOMAIN pipe' : \A i \in 1 .. k - 1 : i \in DOMAIN pipe'
         /\ Range(pipe') \subseteq Range(pipe)
         /\ pipe = <<>> => pipe' = <<>>
<1>1. pipe \in Seq(0 .. Done) BY PartsOf DEF WireTypes
<1>2. PICK n \in 0 .. Len(pipe) : pipe' = SubSeq(pipe, 1, n) BY DEF Cut
<1>3. /\ pipe' \in Seq(0 .. Done) /\ Len(pipe') = n /\ DOMAIN pipe' = 1 .. n
      /\ \A k \in 1 .. n : k \in DOMAIN pipe /\ pipe'[k] = pipe[k]
      /\ Range(pipe') \subseteq Range(pipe)
  <2> DEFINE S == 0 .. Done  q == pipe  r == pipe'
  <2>1. q \in Seq(S) /\ n \in 0 .. Len(q) /\ r = SubSeq(q, 1, n) BY <1>1, <1>2
  <2> HIDE DEF S, q, r
  <2>2. /\ r \in Seq(S) /\ Len(r) = n /\ DOMAIN r = 1 .. n
        /\ \A k \in 1 .. n : k \in DOMAIN q /\ r[k] = q[k]
        /\ Range(r) \subseteq Range(q)
    BY <2>1, CutIs
  <2> QED BY <2>2 DEF S, q, r
<1>4. n \in Nat /\ Len(pipe) \in Nat BY <1>1, LenProperties
<1>5. pipe = <<>> => pipe' = <<>>
  <2>1. pipe = <<>> => n = 0 BY <1>2
  <2>2. Len(pipe') = 0 => pipe' = <<>> BY <1>3, EmptySeq
  <2> QED BY <2>1, <2>2, <1>3
<1>6. \A k \in DOMAIN pipe' : k \in DOMAIN pipe /\ k \in Nat /\ pipe'[k] = pipe[k]
  BY <1>3, <1>4
<1>7. \A k \in DOMAIN pipe' : \A i \in 1 .. k - 1 : i \in DOMAIN pipe' BY <1>3, <1>4
<1> QED BY <1>1, <1>3, <1>5, <1>6, <1>7

\* What is on the channel is for a link that has its description.
LEMMA PipeIs ==
  ASSUME Types, Conduit, pipe # <<>>
  PROVE  /\ channel # "none" /\ link[Host].open /\ link[Host].remote = "yes"
         /\ link[Host].peer \in Codes
BY PartsOf, TheEnds DEF Conduit, LinkTypes

LEMMA InPipe ==
  ASSUME Types, Done \in Range(pipe)
  PROVE  pipe # <<>> /\ \E k \in DOMAIN pipe : pipe[k] = Done
<1>1. PICK k \in DOMAIN pipe : pipe[k] = Done BY DEF Range
<1>2. pipe # <<>>
  <2>1. DOMAIN pipe = 1 .. Len(pipe) BY PartsOf, LenProperties DEF WireTypes
  <2> QED BY <1>1, <2>1
<1> QED BY <1>1, <1>2

LEMMA TransferStands ==
  ASSUME Types, Conduit, Ending, Finished, Complete, Stands
  PROVE  Conduit' /\ Ending' /\ Finished' /\ Complete'
<1>1. Dims(link[Host], link'[Host]) /\ Dims(link[Source], link'[Source]) /\ Cut
  BY TheEnds DEF Stands, Fading
<1>2. /\ \A k \in DOMAIN pipe' : k \in DOMAIN pipe /\ pipe'[k] = pipe[k]
      /\ \A k \in DOMAIN pipe' : \A i \in 1 .. k - 1 : i \in DOMAIN pipe'
      /\ Range(pipe') \subseteq Range(pipe)
      /\ pipe = <<>> => pipe' = <<>>
  BY <1>1, CutPipe
<1>3. Conduit'
  <2>1. channel' = "none" => channel = "none" BY DEF Stands
  <2>2. ~link'[Host].open => pipe' = <<>>
    BY <1>2 DEF Conduit, Stands
  <2>3. channel' # "none" => channel # "none" BY DEF Stands
  <2>4. channel' # "none" => link'[Host].remote = "yes" BY <2>3, <1>1 DEF Conduit, Dims
  <2> QED BY <2>1, <2>2, <2>4, <1>2 DEF Conduit
<1>4. Ending'
  <2>1. CASE job' = job BY <2>1 DEF Ending
  <2>2. CASE job' = NoJob
    <3>1. DOMAIN job'.left = {} BY <2>2 DEF NoJob
    <3> QED BY <3>1 DEF Ending
  <2> QED BY <2>1, <2>2 DEF Stands
<1>5. Done \in Range(pipe') => /\ Done \in Range(pipe) /\ pipe # <<>>
                               /\ link'[Host].peer = link[Host].peer
                               /\ link[Host].peer \in Codes
  BY <1>1, <1>2, PipeIs, InPipe DEF Dims
<1>6. ASSUME NEW c \in Codes, Final(c)'
      PROVE  job'.code # c /\ ~(link'[Source].open /\ link'[Source].code = c)
  <2>1. c # None BY TheEnds
  <2>2. Final(c)
    <3>1. CASE Done \in Range(pipe') /\ link'[Host].peer = c BY <3>1, <1>5 DEF Final
    <3>2. CASE applying'.of = c BY <3>2, <2>1 DEF Final, Stands, NotApplying
    <3> QED BY <3>1, <3>2, <1>6 DEF Final
  <2>3. job.code # c /\ ~(link[Source].open /\ link[Source].code = c)
    BY <2>2 DEF Finished
  <2> QED BY <2>1, <2>3, <1>1 DEF Stands, Dims, NoJob
<1>7. ASSUME channel' = "open", Sending', SourceLive', HostLive'
      PROVE  AllIn(job.code, received \cup Range(pipe) \cup Range(job.left))'
  <2>1. job' = job
    <3>1. NoJob.left = <<>> BY DEF NoJob
    <3> QED BY <3>1, <1>7 DEF Stands, Sending
  <2>2. channel = "open" /\ link[Host].remote = "yes" BY <1>7 DEF Stands, Conduit
  <2>3. Sending /\ SourceLive /\ HostLive
    BY <1>1, <1>7, <2>1, <2>2 DEF Sending, SourceLive, HostLive, Dims
  <2>4. pipe' = pipe BY <1>7 DEF Stands, SourceLive, HostLive
  <2> QED BY <2>1, <2>2, <2>3, <2>4 DEF Complete, AllIn, Stands
<1>8. ASSUME NEW k \in DOMAIN pipe', pipe'[k] = Done
      PROVE  AllIn(link[Host].peer, received \cup {pipe[i] : i \in 1 .. k - 1})'
  <2>1. Done \in Range(pipe') BY <1>8 DEF Range
  <2>2. link'[Host].peer = link[Host].peer BY <2>1, <1>5
  <2>3. {pipe'[i] : i \in 1 .. k - 1} = {pipe[i] : i \in 1 .. k - 1} BY <1>2, <1>8
  <2>4. AllIn(link[Host].peer, received \cup {pipe[i] : i \in 1 .. k - 1})
    BY <1>2, <1>8 DEF Complete
  <2> QED BY <2>2, <2>3, <2>4 DEF AllIn, Stands
<1>9. /\ applying'.pc # "no" => AllIn(applying.of, applying.items)'
      /\ applying'.pc = "no" => applying'.of = None
  BY DEF Complete, AllIn, Stands, NotApplying
<1> QED BY <1>3, <1>4, <1>6, <1>7, <1>8, <1>9 DEF Finished, Complete

\* Nothing that came before the first join comes after it.
Settles ==
  /\ joins' = joins /\ asked' \in {asked, None} /\ (orphan = "none" => orphan' = "none")
  /\ Posts
  /\ cancel'[Source] \in {cancel[Source], NoCancel} \/ (Sourcing /\ ~link'[Source].open)
  /\ link'[Host].open => link[Host].open
  /\ link'[Source].open => link[Source].open
  /\ Done \in Range(pipe') => Done \in Range(pipe)
  /\ Applying' => Applying
  /\ page'[Host] = "done" => page[Host] = "done" \/ Applying
  /\ page'[Source] \in {"connecting", "sending"} \/ job'.left # <<>> => Sourcing

LEMMA JoinSettles ==
  ASSUME Types, OneJoin, Settles PROVE OneJoin'
<1> SUFFICES ASSUME joins' <= 1 PROVE OneJoin' BY DEF OneJoin
<1>1. joins <= 1 BY DEF Settles
<1>2. ToSource /\ ToHost BY DEF Settles, Posts
<1>3. /\ Told(Source, "ack")' => Told(Source, "ack")
      /\ Told(Host, "peer-joined")' => Told(Host, "peer-joined")
      /\ Told(Host, "cancelled")' => Told(Host, "cancelled") \/ cancel[Source] # NoCancel
      /\ Alone(Source, "ack")' /\ Alone(Host, "peer-joined")'
  BY <1>1, <1>2, SourcePosts, HostPosts DEF OneJoin
<1>4. Unheard' => Unheard BY <1>3 DEF Unheard, Settles
<1>5. Unlinked' => Unlinked BY <1>3 DEF Unlinked, Settles
<1>6. CalledOff' => CalledOff \/ (Sourcing /\ ~link'[Source].open)
  BY <1>3 DEF CalledOff, Settles
<1>7. Ended' => Ended BY DEF Ended, Settles
<1>8. Sourcing' => Sourcing BY DEF Sourcing, Settles
<1>9. /\ orphan' = "none"
      /\ joins' = 0 => asked' = None
      /\ joins' = 0 \/ asked' # None => ~Told(Host, "peer-joined")' /\ ~Told(Source, "ack")'
  BY <1>1, <1>3 DEF OneJoin, Settles
<1>10. Unheard' => ~link'[Host].open /\ ~Applying' /\ page'[Host] # "done"
  BY <1>1, <1>4 DEF OneJoin, Settles
<1>11. CalledOff' => ~Unlinked' /\ ~link'[Source].open
  BY <1>1, <1>5, <1>6 DEF OneJoin, Settles
<1>12. Ended' => ~Unlinked' /\ ~Sourcing' /\ ~CalledOff'
  BY <1>1, <1>5, <1>6, <1>7, <1>8 DEF OneJoin
<1>13. Unlinked' => ~Sourcing' BY <1>1, <1>5, <1>8 DEF OneJoin
<1> QED BY <1>3, <1>9, <1>10, <1>11, <1>12, <1>13 DEF OneJoin


-----------------------------------------------------------------------------
(* The invariant through a step that leaves most of it as it is             *)

Inv == Types /\ IInv

LEMMA InvIs ==
  ASSUME Inv
  PROVE  /\ Types /\ Conduit /\ Ending /\ Timed /\ AckedOnce /\ Finished /\ Complete /\ OneJoin
         /\ RestoredIsComplete /\ StallTimerRuns
BY DEF Inv, IInv

LEMMA InvFrom ==
  ASSUME Types', Conduit', Ending', Timed', AckedOnce', Finished', Complete', OneJoin',
         RestoredIsComplete', StallTimerRuns'
  PROVE  Inv'
BY DEF Inv, IInv

Peering ==
  \/ link'[Host].peer = link[Host].peer
  \/ \E e \in Range(inbox[Host]) : e.type \in Signals /\ link'[Host].peer = e.code

\* The host's timer goes on, or its link is over and so is what the page shows of it.
Ticks ==
  \/ /\ link'[Host].open = link[Host].open /\ link'[Host].armed = link[Host].armed
     /\ \/ page'[Host] = page[Host] /\ (lost => lost')
        \/ page'[Host] \notin {"connecting", "transferring", "done"}
  \/ /\ ~link'[Host].open /\ ~link'[Host].armed
     /\ page'[Host] \notin {"connecting", "transferring"} \/ lost'

LEMMA TimerTicks ==
  ASSUME Inv, Ticks PROVE Timed' /\ StallTimerRuns'
<1>1. Timed /\ StallTimerRuns BY InvIs
<1>2. CASE /\ link'[Host].open = link[Host].open /\ link'[Host].armed = link[Host].armed
           /\ \/ page'[Host] = page[Host] /\ (lost => lost')
              \/ page'[Host] \notin {"connecting", "transferring", "done"}
  BY <1>1, <1>2 DEF Timed, StallTimerRuns
<1>3. CASE /\ ~link'[Host].open /\ ~link'[Host].armed
           /\ page'[Host] \notin {"connecting", "transferring"} \/ lost'
  BY <1>1, <1>3 DEF Timed, StallTimerRuns
<1> QED BY <1>2, <1>3 DEF Ticks

\* What the pages may come to show.
Settling ==
  /\ joins' = joins /\ asked' \in {asked, None} /\ (orphan = "none" => orphan' = "none")
  /\ cancel'[Source] \in {cancel[Source], NoCancel} \/ (Sourcing /\ ~link'[Source].open)
  /\ Applying' => Applying
  /\ page'[Host] = "done" => page[Host] = "done" \/ Applying
  /\ page'[Source] \in {"connecting", "sending"} => Sourcing

LEMMA StandsSettles ==
  ASSUME Inv, Posts, Stands, Settling PROVE OneJoin'
<1>1. Types /\ OneJoin BY InvIs
<1>2. Dims(link[Host], link'[Host]) /\ Dims(link[Source], link'[Source])
  BY TheEnds DEF Stands, Fading
<1>3. Range(pipe') \subseteq Range(pipe) BY <1>1, CutPipe DEF Stands
<1>4. job'.left # <<>> => Sourcing BY DEF Stands, NoJob, Sourcing
<1>5. Settles BY <1>2, <1>3, <1>4 DEF Settles, Settling, Dims
<1> QED BY <1>1, <1>5, JoinSettles

LEMMA StandsTraces ==
  ASSUME Inv, Stands, Peering PROVE Traces
<1>1. Dims(link[Source], link'[Source]) BY TheEnds DEF Stands, Fading
<1> QED BY <1>1 DEF Traces, Peering, Stands, Dims, NoJob, NotApplying

\* A page that is done stays, with what was imported, or its step is the import's.
Restored ==
  page'[Host] = "done" => page[Host] = "done" /\ applying' = applying /\ imported \subseteq imported'

LEMMA StandsRestored ==
  ASSUME Inv, collected' = collected, Restored PROVE RestoredIsComplete'
<1>1. RestoredIsComplete BY InvIs
<1> QED BY <1>1 DEF RestoredIsComplete, Restored

LEMMA Steady ==
  ASSUME Inv, Types', Ages, Posts, Stands, Peering, Ticks, OneJoin', RestoredIsComplete'
  PROVE  Inv'
<1>1. Conduit' /\ Ending' /\ Finished' /\ Complete' BY InvIs, TransferStands
<1>2. Timed' /\ StallTimerRuns' BY TimerTicks
<1>3. AckedOnce' BY InvIs, StandsTraces, AcksKept
<1> QED BY <1>1, <1>2, <1>3, InvFrom

\* The same, where nothing of the first join comes.
LEMMA SteadyAll ==
  ASSUME Inv, Types', Ages, Posts, Stands, Peering, Ticks, Settling, Restored
  PROVE  Inv'
<1>1. OneJoin' BY StandsSettles
<1>2. RestoredIsComplete' BY StandsRestored DEF Stands
<1> QED BY <1>1, <1>2, Steady

-----------------------------------------------------------------------------
(* The parts of a step                                                      *)

LEMMA Uncut == ASSUME Types, UNCHANGED pipe PROVE Cut
<1>1. pipe \in Seq(0 .. Done) BY PartsOf DEF WireTypes
<1>2. Len(pipe) \in 0 .. Len(pipe) /\ SubSeq(pipe, 1, Len(pipe)) = pipe
  BY <1>1, LenProperties, SubSeqFull
<1> QED BY <1>2 DEF Cut

LEMMA Unfaded == ASSUME UNCHANGED link PROVE Fading
BY DEF Fading, Dims

LEMMA Apart ==
  ASSUME Types, UNCHANGED <<link, transfer>>
  PROVE  /\ Stands /\ Peering
         /\ LinkTypes' /\ WireTypes' /\ JobTypes' /\ StoreTypes'
         /\ (Applying' => Applying) /\ applying' = applying /\ imported' = imported
<1>1. Cut /\ Fading BY Uncut, Unfaded DEF transfer
<1>2. Stands /\ Peering BY <1>1 DEF Stands, Peering, transfer
<1> QED BY <1>2, Frames DEF transfer, Applying

LEMMA Unaged == ASSUME UNCHANGED rendezvous PROVE Ages
BY DEF Ages, Unspent, Waiting, rendezvous

\* Closing a link, whatever becomes of the page and of the payload's import.
LEMMA Closes ==
  ASSUME Inv, NEW d \in Ends, Close(d), UNCHANGED <<channel, job, received, collected>>,
         \/ applying' = NotApplying
         \/ /\ applying'.of = applying.of /\ applying'.items = applying.items
            /\ applying'.pc = "no" <=> applying.pc = "no"
  PROVE  /\ Stands /\ Peering /\ LinkTypes' /\ WireTypes' /\ JobTypes'
         /\ ~link'[d].open /\ ~link'[d].armed
         /\ \A e \in Ends \ {d} : link'[e] = link[e]
<1>1. Types /\ Conduit BY InvIs
<1>2. /\ LinkTypes' /\ Fading /\ Cut
      /\ ~link'[d].open /\ ~link'[d].armed /\ link'[d].peer = link[d].peer
      /\ \A e \in Ends \ {d} : link'[e] = link[e]
      /\ d = Host => pipe' = <<>>
      /\ pipe' = pipe \/ link[d].open
  BY <1>1, CloseIs
<1>3. link[Host].open /\ ~link'[Host].open => pipe' = <<>> BY <1>2, TheEnds
<1>4. pipe' = pipe \/ ~link'[Host].open \/ ~link'[Source].open BY <1>2, TheEnds
<1>5. Stands BY <1>2, <1>3, <1>4 DEF Stands
<1>6. Peering BY <1>2, TheEnds DEF Peering
<1>7. pipe' \in Seq(0 .. Done) BY <1>1, <1>2, CutPipe
<1>8. WireTypes' BY <1>1, <1>7, PartsOf DEF WireTypes
<1>9. JobTypes' BY <1>1, Frames
<1> QED BY <1>2, <1>5, <1>6, <1>8, <1>9


-----------------------------------------------------------------------------
(* Steps of the server and of the network                                   *)

LEMMA ServerKept ==
  ASSUME Types, UNCHANGED rendezvous \/ \E c \in Codes : Vanish(c),
         asked' \in Codes \cup {None},
         cancel' \in [Ends -> [code : Codes \cup {None}, other : Ends \cup {None}]],
         \A d \in Ends : cancel'[d].other \in {Other(d), None}
  PROVE  Ages /\ ServerTypes'
<1>1. ServerTypes BY PartsOf
<1>2. CASE UNCHANGED rendezvous
  <2>1. ServerTypes' BY <1>1, <1>2 DEF ServerTypes, rendezvous
  <2> QED BY <1>2, <2>1, Unaged
<1>3. CASE \E c \in Codes : Vanish(c)
  <2>1. PICK c \in Codes : Vanish(c) BY <1>3
  <2>2. \A e \in Codes : session'[e] = session[e] \/ session'[e] = None
    BY <1>1, <2>1 DEF ServerTypes, Vanish
  <2>3. session' \in [Codes -> Pairings \cup {None}] BY <1>1, <2>1 DEF ServerTypes, Vanish
  <2>4. used' = used BY <2>1 DEF Vanish
  <2>5. ServerTypes' BY <1>1, <2>2, <2>3, <2>4 DEF ServerTypes
  <2>6. Ages BY <2>2, <2>4 DEF Ages, Unspent, Waiting
  <2> QED BY <2>5, <2>6
<1> QED BY <1>2, <1>3

\* The pages, the links and the transfer stand still.
LEMMA Offstage ==
  ASSUME Inv, ServerTypes', Ages, Posts, UNCHANGED <<peers, transfer>>, CountTypes',
         joins' = joins, orphan' = orphan, lost => lost',
         asked' \in {asked, None}, cancel'[Source] \in {cancel[Source], NoCancel}
  PROVE  Inv'
<1>1. Types BY InvIs
<1>2. UNCHANGED <<link, transfer>> /\ UNCHANGED <<page, code>> BY DEF peers
<1>3. Stands /\ Peering /\ LinkTypes' /\ WireTypes' /\ JobTypes' /\ StoreTypes'
      /\ (Applying' => Applying) /\ applying' = applying /\ imported' = imported
  BY <1>1, <1>2, Apart
<1>4. PageTypes' BY <1>1, <1>2, Frames
<1>5. Types' BY <1>3, <1>4, TypesFrom DEF Posts
<1>6. Ticks BY <1>2 DEF Ticks
<1>7. Settling BY <1>2, <1>3 DEF Settling, Sourcing
<1>8. Restored BY <1>2, <1>3 DEF Restored
<1> QED BY <1>3, <1>5, <1>6, <1>7, <1>8, SteadyAll

LEMMA JoinRefusedStep ==
  ASSUME Inv, JoinRefused PROVE Inv'
<1>1. Types BY InvIs
<1>2. Event("refused", None) \in Events /\ Event("refused", None).type = "refused"
  BY DEF Events, Event
<1>3. Posts BY <1>1, <1>2, Posted, TheEnds, TypesDiffer DEF JoinRefused
<1>4. Ages /\ ServerTypes'
  BY <1>1, PartsOf, ServerKept DEF JoinRefused, ServerTypes
<1>5. CountTypes' BY <1>1, Frames DEF JoinRefused, history
<1> QED BY <1>3, <1>4, <1>5, Offstage DEF JoinRefused, history

LEMMA ExpireStep ==
  ASSUME Inv, NEW c \in Codes, Expire(c) PROVE Inv'
<1>1. Types BY InvIs
<1>2. Posts BY <1>1, Unposted DEF Expire
<1>3. Ages /\ ServerTypes'
  BY <1>1, PartsOf, ServerKept DEF Expire, ServerTypes
<1>4. CountTypes' BY <1>1, Frames DEF Expire, history
<1> QED BY <1>2, <1>3, <1>4, Offstage DEF Expire, history

LEMMA CancelledStep ==
  ASSUME Inv, NEW d \in Ends, Cancelled(d) PROVE Inv'
<1>1. Types /\ ServerTypes BY InvIs, PartsOf
<1> DEFINE c == cancel[d].code  o == cancel[d].other
<1>2. c \in Codes /\ o \in {Other(d), None} BY <1>1 DEF ServerTypes, Cancelled
<1>3. UNCHANGED rendezvous \/ \E e \in Codes : Vanish(e) BY <1>2 DEF Cancelled
<1>4. /\ cancel' \in [Ends -> [code : Codes \cup {None}, other : Ends \cup {None}]]
      /\ \A e \in Ends : cancel'[e] \in {cancel[e], NoCancel}
  BY <1>1 DEF ServerTypes, Cancelled, NoCancel
<1>5. \A e \in Ends : cancel'[e].other \in {Other(e), None}
  BY <1>1, <1>4 DEF ServerTypes, NoCancel
<1>6. asked' = asked BY DEF Cancelled
<1>7. Ages /\ ServerTypes' BY <1>1, <1>3, <1>4, <1>5, <1>6, ServerKept DEF ServerTypes
<1>8. Posts
  <2>1. CASE o = None BY <2>1, <1>1, Unposted DEF Cancelled
  <2>2. CASE o # None
    <3>1. o = Other(d) /\ o \in Ends /\ Emit(o, Event("cancelled", c))
      BY <2>2, <1>2, TheEnds DEF Cancelled
    <3>2. Event("cancelled", c) \in Events /\ Event("cancelled", c).type = "cancelled"
      BY <1>2 DEF Events, Event
    <3>3. d = Source => cancel[Source] # NoCancel BY <1>2, TheEnds DEF NoCancel
    <3>4. (o = Host => d = Source) /\ (o = Host \/ o = Source) BY <3>1, TheEnds
    <3> HIDE DEF c, o
    <3> QED BY <3>1, <3>2, <3>3, <3>4, <1>1, Posted, TypesDiffer
  <2> QED BY <2>1, <2>2
<1>9. CountTypes' BY <1>1, Frames DEF Cancelled, history
<1> QED BY <1>4, <1>7, <1>8, <1>9, TheEnds, Offstage DEF Cancelled, history

LEMMA Upsets == ASSUME Types, Upset PROVE upsets' \in 0 .. MaxUpsets
BY PartsOf, Numbers DEF Upset, CountTypes

LEMMA DisconnectStep ==
  ASSUME Inv, NEW d \in Ends, Disconnect(d) PROVE Inv'
<1>1. Types BY InvIs
<1>2. Drop(d) BY DEF Disconnect
<1>3. Posts BY <1>1, <1>2, Cleared DEF Drop
<1>4. Ages BY Unaged DEF Disconnect, server
<1>5. ServerTypes' BY <1>1, Frames DEF Disconnect
<1>6. CountTypes' BY <1>1, <1>2, Upsets, PartsOf DEF Disconnect, Drop, CountTypes
<1>7. asked' = asked /\ cancel' = cancel BY DEF Disconnect, server
<1> QED BY <1>2, <1>3, <1>4, <1>5, <1>6, <1>7, Offstage DEF Disconnect, Drop

LEMMA BreakStep ==
  ASSUME Inv, Break PROVE Inv'
<1>1. Types BY InvIs
<1>2. Posts BY <1>1, Unposted DEF Break
<1>3. Ages BY Unaged DEF Break, server
<1>4. Fading BY Unfaded DEF Break, peers
<1>5. Stands BY <1>4 DEF Break, Stands, peers
<1>6. Peering BY DEF Peering, Break, peers
<1>7. WireTypes' BY <1>1, CutPipe, PartsOf DEF Break, WireTypes
<1>8. CountTypes' BY <1>1, Upsets, PartsOf DEF Break, CountTypes
<1>9. /\ ServerTypes' /\ MailTypes' /\ PageTypes' /\ LinkTypes' /\ JobTypes' /\ StoreTypes'
  BY <1>1, Frames DEF Break, peers
<1>10. Types' BY <1>7, <1>8, <1>9, TypesFrom
<1>11. Ticks BY DEF Ticks, Break, peers
<1>12. Settling BY DEF Settling, Break, peers, server, Applying, Sourcing
<1>13. Restored BY DEF Restored, Break, peers
<1> QED BY <1>2, <1>3, <1>5, <1>6, <1>10, <1>11, <1>12, <1>13, SteadyAll

\* A new socket under a page: the link is closed, the page shows what it did.
LEMMA RewireStep ==
  ASSUME Inv, NEW d \in Ends, Rewire(d) PROVE Inv'
<1>1. Types BY InvIs
<1>2. Drop(d) /\ Close(d) BY DEF Rewire
<1>3. Posts BY <1>1, <1>2, Cleared DEF Drop
<1>4. Ages BY Unaged DEF Rewire, server
<1>5. /\ Stands /\ Peering /\ LinkTypes' /\ WireTypes' /\ JobTypes'
      /\ ~link'[d].open /\ ~link'[d].armed
      /\ \A e \in Ends \ {d} : link'[e] = link[e]
  BY <1>2, Closes DEF Rewire
<1>6. CountTypes' BY <1>1, <1>2, Upsets, PartsOf DEF Rewire, Drop, CountTypes
<1>7. ServerTypes' /\ PageTypes' /\ StoreTypes' BY <1>1, Frames DEF Rewire
<1>8. Types' BY <1>3, <1>5, <1>6, <1>7, TypesFrom DEF Posts
<1>9. lost' BY <1>2 DEF Drop
<1>10. Ticks
  <2>1. CASE d = Host BY <2>1, <1>5, <1>9 DEF Ticks
  <2>2. CASE d # Host
    <3>1. link'[Host] = link[Host] BY <2>2, <1>5, TheEnds
    <3> QED BY <3>1, <1>9 DEF Ticks, Rewire
  <2> QED BY <2>1, <2>2
<1>11. Settling BY DEF Settling, Rewire, server, Applying, Sourcing
<1>12. Restored BY DEF Restored, Rewire
<1> QED BY <1>3, <1>4, <1>5, <1>8, <1>10, <1>11, <1>12, SteadyAll


-----------------------------------------------------------------------------
(* Steps of a page that begin or end what it does                           *)

LEMMA Shown ==
  ASSUME Types, NEW d \in Ends, NEW phase \in Phases, Show(d, phase)
  PROVE  /\ page' \in [Ends -> Phases] /\ page'[d] = phase
         /\ \A e \in Ends \ {d} : page'[e] = page[e]
BY PartsOf DEF PageTypes, Show

LEMMA Opens ==
  ASSUME Types, NEW c \in Codes, Open(Host, c), UNCHANGED <<asked, cancel>>
  PROVE  Ages /\ ServerTypes'
<1>1. ServerTypes BY PartsOf
<1> DEFINE r == [host |-> Host, attempts |-> 0, source |-> None]
<1>2. Host \in Devices BY Pair
<1>3. r \in Pairings /\ r.host = Host /\ r.source = None BY <1>2 DEF Pairings
<1>4. session' = [session EXCEPT ![c] = r] /\ used' = used \cup {c} BY DEF Open
<1>5. c \notin used BY DEF Open
<1> HIDE DEF r
<1>6. session'[c] = r /\ \A e \in Codes \ {c} : session'[e] = session[e]
  BY <1>1, <1>4 DEF ServerTypes
<1>7. session' \in [Codes -> Pairings \cup {None}] BY <1>1, <1>3, <1>4 DEF ServerTypes
<1>8. ServerTypes' BY <1>1, <1>3, <1>4, <1>6, <1>7 DEF ServerTypes
<1>9. Ages BY <1>4, <1>5, <1>6 DEF Ages, Unspent, Waiting
<1> QED BY <1>8, <1>9

LEMMA HostStartStep ==
  ASSUME Inv, HostStart PROVE Inv'
<1>1. Types BY InvIs
<1>2. Posts BY <1>1, Unposted DEF HostStart
<1>3. Ages BY Unaged DEF HostStart, server
<1>4. /\ page' \in [Ends -> Phases] /\ page'[Host] = "starting" /\ page'[Source] = page[Source]
  BY <1>1, Shown, TheEnds DEF HostStart, Phases
<1>5. Stands /\ Peering /\ LinkTypes' /\ WireTypes' /\ JobTypes' /\ StoreTypes'
      /\ (Applying' => Applying)
  BY <1>1, Apart DEF HostStart
<1>6. ServerTypes' /\ CountTypes' BY <1>1, Frames DEF HostStart, history
<1>7. PageTypes' BY <1>1, <1>4, PartsOf DEF HostStart, PageTypes
<1>8. Types' BY <1>2, <1>5, <1>6, <1>7, TypesFrom DEF Posts
<1>9. Ticks BY <1>4 DEF Ticks, HostStart
<1>10. Settling BY <1>4, <1>5 DEF Settling, HostStart, server, history, Sourcing
<1>11. Restored BY <1>4 DEF Restored
<1> QED BY <1>2, <1>3, <1>5, <1>8, <1>9, <1>10, <1>11, SteadyAll

LEMMA HostStartedStep ==
  ASSUME Inv, HostStarted PROVE Inv'
<1>1. Types /\ ServerTypes /\ PageTypes BY InvIs, PartsOf
<1>2. Posts BY <1>1, Unposted DEF HostStarted
<1>3. \/ used # Codes /\ Open(Host, FreshCode) /\ Show(Host, "waiting")
         /\ code' = [code EXCEPT ![Host] = FreshCode]
      \/ Show(Host, "failed") /\ UNCHANGED <<rendezvous, code>>
  BY DEF HostStarted
<1>4. used # Codes => FreshCode \in Codes BY <1>1 DEF FreshCode, ServerTypes
<1>5. Ages /\ ServerTypes'
  <2>1. CASE used # Codes /\ Open(Host, FreshCode)
    BY <2>1, <1>1, <1>4, Opens DEF HostStarted
  <2>2. CASE UNCHANGED rendezvous
    BY <2>2, <1>1, Frames, Unaged DEF HostStarted, server
  <2> QED BY <1>3, <2>1, <2>2
<1>6. /\ page' \in [Ends -> Phases] /\ page'[Host] \in {"waiting", "failed"}
      /\ page'[Source] = page[Source]
  BY <1>1, <1>3, Shown, TheEnds DEF Phases
<1>7. PageTypes' BY <1>1, <1>3, <1>4, <1>6 DEF PageTypes
<1>8. Stands /\ Peering /\ LinkTypes' /\ WireTypes' /\ JobTypes' /\ StoreTypes'
      /\ (Applying' => Applying)
  BY <1>1, Apart DEF HostStarted
<1>9. CountTypes' BY <1>1, Frames DEF HostStarted, history
<1>10. Types' BY <1>2, <1>5, <1>7, <1>8, <1>9, TypesFrom DEF Posts
<1>11. Ticks BY <1>6 DEF Ticks, HostStarted
<1>12. Settling BY <1>6, <1>8 DEF Settling, HostStarted, history, Sourcing
<1>13. Restored BY <1>6 DEF Restored
<1> QED BY <1>2, <1>5, <1>8, <1>10, <1>11, <1>12, <1>13, SteadyAll

\* Whom a cancellation reads as the other one.
LEMMA CancelEmitted ==
  ASSUME Types, NEW d \in Ends, EmitCancel(d)
  PROVE  Ages /\ ServerTypes' /\ \A e \in Ends \ {d} : cancel'[e] = cancel[e]
<1>1. ServerTypes /\ PageTypes BY PartsOf
<1> DEFINE c == code[d]
           o == IF session[c].host = d THEN session[c].source ELSE session[c].host
           r == [code |-> c, other |-> o]
<1>2. \/ cancel' = cancel
      \/ c # None /\ d \in Paired(c) /\ cancel' = [cancel EXCEPT ![d] = r]
  BY DEF EmitCancel
<1>3. ASSUME c # None, d \in Paired(c)
      PROVE  r \in [code : Codes \cup {None}, other : Ends \cup {None}]
             /\ r.other \in {Other(d), None}
  <2>1. c \in Codes BY <1>1, <1>3 DEF PageTypes
  <2>2. session[c].host = Host /\ session[c].source \in {Source, None}
    BY <2>1, <1>1, <1>3 DEF ServerTypes, Paired
  <2>3. o \in {Other(d), None} BY <2>2, TheEnds
  <2>4. Other(d) \in Ends BY TheEnds
  <2> QED BY <2>1, <2>3, <2>4
<1> HIDE DEF r
<1>4. /\ cancel' \in [Ends -> [code : Codes \cup {None}, other : Ends \cup {None}]]
      /\ \A e \in Ends : cancel'[e].other \in {Other(e), None}
      /\ \A e \in Ends \ {d} : cancel'[e] = cancel[e]
  <2>1. CASE cancel' = cancel BY <2>1, <1>1 DEF ServerTypes
  <2>2. CASE c # None /\ d \in Paired(c) /\ cancel' = [cancel EXCEPT ![d] = r]
    BY <2>2, <1>1, <1>3 DEF ServerTypes
  <2> QED BY <1>2, <2>1, <2>2
<1>5. asked' = asked /\ UNCHANGED rendezvous BY DEF EmitCancel
<1> QED BY <1>1, <1>4, <1>5, ServerKept DEF ServerTypes

LEMMA PressCancelStep ==
  ASSUME Inv, NEW d \in Ends, PressCancel(d),
         d = Source => page[Source] \in {"connecting", "sending"}
  PROVE  Inv'
<1>1. Types BY InvIs
<1>2. Upset /\ EmitCancel(d) /\ Close(d) /\ code' = [code EXCEPT ![d] = None] /\ Show(d, "idle")
  BY DEF PressCancel
<1>3. Posts BY <1>1, Unposted DEF PressCancel
<1>4. Ages /\ ServerTypes' /\ \A e \in Ends \ {d} : cancel'[e] = cancel[e]
  BY <1>1, <1>2, CancelEmitted
<1>5. /\ Stands /\ Peering /\ LinkTypes' /\ WireTypes' /\ JobTypes'
      /\ ~link'[d].open /\ ~link'[d].armed
      /\ \A e \in Ends \ {d} : link'[e] = link[e]
  BY <1>2, Closes DEF PressCancel
<1>6. /\ page' \in [Ends -> Phases] /\ page'[d] = "idle"
      /\ \A e \in Ends \ {d} : page'[e] = page[e]
  BY <1>1, <1>2, Shown DEF Phases
<1>7. PageTypes' BY <1>1, <1>2, <1>6, PartsOf DEF PageTypes
<1>8. StoreTypes' BY <1>1, Frames DEF PressCancel
<1>9. CountTypes' BY <1>1, <1>2, Upsets, PartsOf DEF PressCancel, CountTypes
<1>10. Types' BY <1>3, <1>4, <1>5, <1>7, <1>8, <1>9, TypesFrom DEF Posts
<1>11. Ticks
  <2>1. CASE d = Host BY <2>1, <1>5, <1>6 DEF Ticks
  <2>2. CASE d # Host
    <3>1. link'[Host] = link[Host] /\ page'[Host] = page[Host] BY <2>2, <1>5, <1>6, TheEnds
    <3> QED BY <3>1 DEF Ticks, PressCancel
  <2> QED BY <2>1, <2>2
<1>12. page'[Host] = "done" => page[Host] = "done" BY <1>6, TheEnds
<1>13. Settling
  <2>1. page'[Source] \in {"connecting", "sending"} => Sourcing
    BY <1>6, TheEnds DEF Sourcing
  <2>2. cancel'[Source] = cancel[Source] \/ (Sourcing /\ ~link'[Source].open)
    BY <1>4, <1>5, TheEnds DEF Sourcing
  <2>3. asked' = asked BY <1>2 DEF EmitCancel
  <2> QED BY <2>1, <2>2, <2>3, <1>12 DEF Settling, PressCancel, Applying
<1>14. Restored BY <1>12 DEF Restored, PressCancel
<1> QED BY <1>3, <1>4, <1>5, <1>10, <1>11, <1>13, <1>14, SteadyAll

LEMMA CancelSteps ==
  ASSUME Inv, HostCancel \/ SourceCancel PROVE Inv'
BY PressCancelStep, TheEnds DEF HostCancel, SourceCancel

LEMMA HearCancelledStep ==
  ASSUME Inv, NEW d \in Ends, Heard(d, "cancelled"), Handled(d), Close(d), Show(d, "failed"),
         UNCHANGED <<server, code, channel, job, received, applying, collected, imported, history>>
  PROVE  Inv'
<1>1. Types BY InvIs
<1>2. Posts BY <1>1, Taken DEF Heard
<1>3. Ages BY Unaged DEF server
<1>4. /\ Stands /\ Peering /\ LinkTypes' /\ WireTypes' /\ JobTypes'
      /\ ~link'[d].open /\ ~link'[d].armed
      /\ \A e \in Ends \ {d} : link'[e] = link[e]
  BY Closes
<1>5. /\ page' \in [Ends -> Phases] /\ page'[d] = "failed"
      /\ \A e \in Ends \ {d} : page'[e] = page[e]
  BY <1>1, Shown DEF Phases
<1>6. PageTypes' BY <1>1, <1>5, PartsOf DEF PageTypes
<1>7. ServerTypes' /\ StoreTypes' /\ CountTypes' BY <1>1, Frames DEF history
<1>8. Types' BY <1>2, <1>4, <1>6, <1>7, TypesFrom DEF Posts
<1>9. Ticks
  <2>1. CASE d = Host BY <2>1, <1>4, <1>5 DEF Ticks
  <2>2. CASE d # Host
    <3>1. link'[Host] = link[Host] /\ page'[Host] = page[Host] BY <2>2, <1>4, <1>5, TheEnds
    <3> QED BY <3>1 DEF Ticks, history
  <2> QED BY <2>1, <2>2
<1>10. page'[Host] = "done" => page[Host] = "done" BY <1>5, TheEnds
<1>11. Settling
  <2>1. page'[Source] \in {"connecting", "sending"} => Sourcing
    BY <1>5, TheEnds DEF Sourcing
  <2> QED BY <2>1, <1>10 DEF Settling, Applying, server, history
<1>12. Restored BY <1>10 DEF Restored
<1> QED BY <1>2, <1>3, <1>4, <1>8, <1>9, <1>11, <1>12, SteadyAll

LEMMA CancelledHeard ==
  ASSUME Inv, HostHearCancelled \/ SourceHearCancelled PROVE Inv'
BY HearCancelledStep, TheEnds DEF HostHearCancelled, SourceHearCancelled


LEMMA LeaveStep ==
  ASSUME Inv, NEW d \in Ends, Leave(d) PROVE Inv'
<1>1. Types BY InvIs
<1>2. Upset /\ Close(d) /\ Show(d, "idle") /\ code' = [code EXCEPT ![d] = None] BY DEF Leave
<1>3. Posts BY <1>1, Unposted DEF Leave
<1>4. Ages BY Unaged DEF Leave, server
<1>5. applying \in [pc : {"no", "yes", "detached", "shown"}, of : Codes \cup {None},
                    items : SUBSET (1 .. MaxChunks)]
  BY <1>1, PartsOf DEF StoreTypes
<1>6. /\ \/ applying' = NotApplying
         \/ /\ applying'.of = applying.of /\ applying'.items = applying.items
            /\ applying'.pc = "no" <=> applying.pc = "no"
      /\ Applying' => Applying
      /\ d = Source => applying' = applying
      /\ StoreTypes'
  <2>1. CASE d = Source \/ applying' = applying
    <3>1. applying' = applying BY <2>1, TheEnds DEF Leave
    <3>2. StoreTypes' BY <3>1, <1>1, Frames DEF Leave
    <3> QED BY <3>1, <3>2 DEF Applying
  <2>2. CASE d = Host /\ Applying
    <3>1. applying' = [applying EXCEPT !.pc = "detached"] BY <2>2, TheEnds DEF Leave
    <3>2. StoreTypes' BY <3>1, <2>2, <1>1, <1>5, PartsOf DEF Leave, StoreTypes, Applying
    <3> QED BY <3>1, <3>2, <2>2, <1>5, TheEnds DEF Applying
  <2>3. CASE d = Host /\ ~Applying
    <3>1. applying' = NotApplying BY <2>3, TheEnds DEF Leave
    <3>2. StoreTypes' BY <3>1, <1>1, PartsOf DEF Leave, StoreTypes, NotApplying
    <3> QED BY <3>1, <3>2, <2>3, TheEnds DEF Applying, NotApplying
  <2> QED BY <2>1, <2>2, <2>3, TheEnds
<1>7. /\ Stands /\ Peering /\ LinkTypes' /\ WireTypes' /\ JobTypes'
      /\ ~link'[d].open /\ ~link'[d].armed
      /\ \A e \in Ends \ {d} : link'[e] = link[e]
  BY <1>2, <1>6, Closes DEF Leave
<1>8. /\ page' \in [Ends -> Phases] /\ page'[d] = "idle"
      /\ \A e \in Ends \ {d} : page'[e] = page[e]
  BY <1>1, <1>2, Shown DEF Phases
<1>9. PageTypes' BY <1>1, <1>2, <1>8, PartsOf DEF PageTypes
<1>10. ServerTypes' BY <1>1, Frames DEF Leave
<1>11. CountTypes' BY <1>1, <1>2, Upsets, PartsOf DEF Leave, CountTypes
<1>12. Types' BY <1>3, <1>6, <1>7, <1>9, <1>10, <1>11, TypesFrom DEF Posts
<1>13. Ticks
  <2>1. CASE d = Host BY <2>1, <1>7, <1>8 DEF Ticks
  <2>2. CASE d # Host
    <3>1. link'[Host] = link[Host] /\ page'[Host] = page[Host] BY <2>2, <1>7, <1>8, TheEnds
    <3> QED BY <3>1 DEF Ticks, Leave
  <2> QED BY <2>1, <2>2
<1>14. page'[Host] = "done" => page[Host] = "done" /\ applying' = applying
  BY <1>6, <1>8, TheEnds
<1>15. Settling
  <2>1. page'[Source] \in {"connecting", "sending"} => Sourcing
    BY <1>8, TheEnds DEF Sourcing
  <2>2. orphan = "none" => orphan' = "none" BY DEF Leave
  <2> QED BY <2>1, <2>2, <1>6, <1>14 DEF Settling, Leave, server
<1>16. Restored BY <1>14 DEF Restored, Leave
<1> QED BY <1>3, <1>4, <1>7, <1>12, <1>13, <1>15, <1>16, SteadyAll

LEMMA SendFailsStep ==
  ASSUME Inv, SourceSendFails PROVE Inv'
<1>1. Types BY InvIs
<1>2. Posts BY <1>1, Unposted DEF SourceSendFails
<1>3. Ages BY Unaged DEF SourceSendFails, server
<1>4. Fading /\ Cut BY <1>1, Unfaded, Uncut DEF SourceSendFails, peers
<1>5. Stands BY <1>4 DEF Stands, SourceSendFails, peers
<1>6. Peering BY DEF Peering, SourceSendFails, peers
<1>7. JobTypes'
  <2>1. <<>> \in Seq(0 .. Collect) BY EmptySeq
  <2> QED BY <2>1 DEF JobTypes, SourceSendFails, NoJob
<1>8. /\ ServerTypes' /\ MailTypes' /\ PageTypes' /\ LinkTypes' /\ WireTypes' /\ StoreTypes'
      /\ CountTypes'
  BY <1>1, Frames DEF SourceSendFails, peers, history
<1>9. Types' BY <1>7, <1>8, TypesFrom
<1>10. Ticks BY DEF Ticks, SourceSendFails, peers, history
<1>11. Settling BY DEF Settling, SourceSendFails, peers, server, history, Applying, Sourcing
<1>12. Restored BY DEF Restored, SourceSendFails, peers
<1> QED BY <1>2, <1>3, <1>5, <1>6, <1>9, <1>10, <1>11, <1>12, SteadyAll

LEMMA ApplyFailsStep ==
  ASSUME Inv, HostApplyFails PROVE Inv'
<1>1. Types BY InvIs
<1>2. Posts BY <1>1, Unposted DEF HostApplyFails
<1>3. Ages BY Unaged DEF HostApplyFails, server
<1>4. Fading /\ Cut BY <1>1, Unfaded, Uncut DEF HostApplyFails, peers
<1>5. Stands BY <1>4 DEF Stands, HostApplyFails, peers
<1>6. Peering BY DEF Peering, HostApplyFails, peers
<1>7. StoreTypes' BY <1>1, PartsOf DEF StoreTypes, HostApplyFails, NotApplying
<1>8. /\ ServerTypes' /\ MailTypes' /\ PageTypes' /\ LinkTypes' /\ WireTypes' /\ JobTypes'
      /\ CountTypes'
  BY <1>1, Frames DEF HostApplyFails, peers, history
<1>9. Types' BY <1>7, <1>8, TypesFrom
<1>10. Ticks BY DEF Ticks, HostApplyFails, peers, history
<1>11. ~Applying' BY DEF HostApplyFails, Applying, NotApplying
<1>12. Settling BY <1>11 DEF Settling, HostApplyFails, peers, server, history, Sourcing
<1>13. page[Host] # "done"
  BY InvIs DEF HostApplyFails, Applying, RestoredIsComplete
<1>14. Restored BY <1>13 DEF Restored, HostApplyFails, peers
<1> QED BY <1>2, <1>3, <1>5, <1>6, <1>9, <1>10, <1>12, <1>14, SteadyAll

\* The import commits: what it brings is everything that was collected.
LEMMA AppliedStep ==
  ASSUME Inv, HostApplied PROVE Inv'
<1>1. Types /\ Complete /\ StoreTypes BY InvIs, PartsOf
<1>2. Posts BY <1>1, Unposted DEF HostApplied
<1>3. Ages BY Unaged DEF HostApplied, server
<1>4. /\ applying.pc # "no" /\ applying.of \in Codes /\ Applying
      /\ applying.items \subseteq 1 .. MaxChunks
      /\ AllIn(applying.of, applying.items)
  BY <1>1 DEF HostApplied, Applying, StoreTypes, Complete
<1>5. imported' = imported \cup {<<applying.of, i>> : i \in applying.items} BY DEF HostApplied
<1>6. imported' \subseteq Codes \X (1 .. MaxChunks) BY <1>1, <1>4, <1>5 DEF StoreTypes
<1>7. CASE applying.pc = "yes"
  <2>1. /\ Close(Host) /\ Show(Host, "done")
        /\ applying' = [applying EXCEPT !.pc = "shown"]
    BY <1>7 DEF HostApplied
  <2>2. /\ applying'.of = applying.of /\ applying'.items = applying.items
        /\ applying'.pc = "shown"
    BY <2>1, <1>1 DEF StoreTypes
  <2>3. StoreTypes'
    BY <2>1, <1>1, <1>4, <1>6 DEF HostApplied, StoreTypes
  <2>4. /\ Stands /\ Peering /\ LinkTypes' /\ WireTypes' /\ JobTypes'
        /\ ~link'[Host].open /\ ~link'[Host].armed
        /\ \A e \in Ends \ {Host} : link'[e] = link[e]
    BY <2>1, <2>2, <1>4, TheEnds, Closes DEF HostApplied
  <2>5. /\ page' \in [Ends -> Phases] /\ page'[Host] = "done" /\ page'[Source] = page[Source]
    BY <1>1, <2>1, Shown, TheEnds DEF Phases
  <2>6. PageTypes' BY <1>1, <2>5, PartsOf DEF PageTypes, HostApplied
  <2>7. ServerTypes' /\ CountTypes' BY <1>1, Frames DEF HostApplied, history
  <2>8. Types' BY <1>2, <2>3, <2>4, <2>6, <2>7, TypesFrom DEF Posts
  <2>9. Ticks BY <2>4, <2>5 DEF Ticks
  <2>10. Settling
    BY <1>4, <2>5 DEF Settling, HostApplied, server, history, Sourcing
  <2>11. OneJoin' BY <1>2, <2>4, <2>10, StandsSettles
  <2>12. RestoredIsComplete'
    <3>1. collected' = collected BY DEF HostApplied
    <3>2. \A i \in 1 .. collected[applying.of] : <<applying.of, i>> \in imported'
      BY <1>4, <1>5 DEF AllIn
    <3> QED BY <3>1, <3>2, <2>2, <1>4 DEF RestoredIsComplete, AllIn
  <2> QED BY <1>2, <1>3, <2>4, <2>8, <2>9, <2>11, <2>12, Steady
<1>8. CASE applying.pc # "yes"
  <2>1. applying' = NotApplying /\ UNCHANGED <<link, pipe, page>> BY <1>8 DEF HostApplied
  <2>2. Fading /\ Cut BY <1>1, <2>1, Unfaded, Uncut
  <2>3. Stands BY <2>1, <2>2 DEF Stands, HostApplied
  <2>4. Peering BY <2>1 DEF Peering
  <2>5. StoreTypes' BY <2>1, <1>1, <1>6 DEF StoreTypes, HostApplied, NotApplying
  <2>6. /\ ServerTypes' /\ PageTypes' /\ LinkTypes' /\ WireTypes' /\ JobTypes' /\ CountTypes'
    BY <1>1, <2>1, Frames DEF HostApplied, history
  <2>7. Types' BY <1>2, <2>5, <2>6, TypesFrom DEF Posts
  <2>8. Ticks BY <2>1 DEF Ticks, HostApplied, history
  <2>9. ~Applying' BY <2>1 DEF Applying, NotApplying
  <2>10. Settling BY <2>1, <2>9 DEF Settling, HostApplied, server, history, Sourcing
  <2>11. page[Host] # "done" BY <1>4, InvIs DEF Applying, RestoredIsComplete
  <2>12. Restored BY <2>1, <2>11 DEF Restored
  <2> QED BY <1>2, <1>3, <2>3, <2>4, <2>7, <2>8, <2>10, <2>12, SteadyAll
<1> QED BY <1>7, <1>8


-----------------------------------------------------------------------------
(* Steps of a peer connection                                               *)

\* One end's link is described further; it was open or closed before as after.
LEMMA Redescribed ==
  ASSUME Inv, NEW d \in Ends, NEW r \in Links, link' = [link EXCEPT ![d] = r],
         Dims(link[d], r), r.open = link[d].open, r.remote # "no" => r.peer \in Codes,
         \/ r.peer = link[d].peer
         \/ \E e \in Range(inbox[d]) : e.type \in Signals /\ r.peer = e.code,
         r.open => r.armed = link[d].armed \/ r.armed,
         ~r.open => r.armed = link[d].armed \/ d = Source,
         UNCHANGED transfer
  PROVE  /\ LinkTypes' /\ Stands /\ Peering
         /\ link'[d] = r /\ \A e \in Ends \ {d} : link'[e] = link[e]
         /\ link'[Host].open = link[Host].open /\ link'[Host].armed = link[Host].armed
         /\ link'[Source].open = link[Source].open
<1>1. Types /\ LinkTypes /\ Timed BY InvIs, PartsOf
<1>2. r.open => r.code \in Codes BY <1>1 DEF LinkTypes, Dims
<1>3. LinkTypes' /\ link'[d] = r /\ \A e \in Ends \ {d} : link'[e] = link[e]
  BY <1>1, <1>2, Relinked
<1>4. Fading BY <1>3 DEF Fading, Dims
<1>5. Cut BY <1>1, Uncut DEF transfer
<1>6. link'[Host].open = link[Host].open /\ link'[Source].open = link[Source].open
  BY <1>3, TheEnds
<1>7. Stands BY <1>4, <1>5, <1>6 DEF Stands, transfer
<1>8. Peering BY <1>3, TheEnds DEF Peering
<1>9. link'[Host].armed = link[Host].armed
  <2>1. CASE d = Host
    <3>1. r.armed \in BOOLEAN /\ link[Host].armed \in BOOLEAN
      BY <1>1, TheEnds DEF LinkTypes, Links
    <3>2. CASE r.open
      <4>1. link[Host].armed BY <2>1, <3>2, <1>1 DEF Timed
      <4> QED BY <2>1, <3>1, <3>2, <4>1, <1>3
    <3>3. CASE ~r.open BY <2>1, <3>3, <1>3, TheEnds
    <3> QED BY <3>2, <3>3
  <2>2. CASE d # Host BY <2>2, <1>3, TheEnds
  <2> QED BY <2>1, <2>2
<1> QED BY <1>3, <1>6, <1>7, <1>8, <1>9

\* Such a step keeps the invariant if the page stays, or the source's fails.
LEMMA RedescribedKeeps ==
  ASSUME Inv, LinkTypes', Stands, Peering, Posts, UNCHANGED <<server, transfer, history, code>>,
         link'[Host].open = link[Host].open, link'[Host].armed = link[Host].armed,
         page' = page \/ Show(Source, "failed")
  PROVE  Inv'
<1>1. Types BY InvIs
<1>2. Ages BY Unaged DEF server
<1>3. /\ page' \in [Ends -> Phases] /\ page'[Host] = page[Host]
      /\ page'[Source] \in {page[Source], "failed"}
  <2>1. CASE page' = page BY <2>1, <1>1, PartsOf DEF PageTypes
  <2>2. CASE Show(Source, "failed") BY <2>2, <1>1, Shown, TheEnds DEF Phases
  <2> QED BY <2>1, <2>2
<1>4. PageTypes' BY <1>1, <1>3, PartsOf DEF PageTypes
<1>5. ServerTypes' /\ WireTypes' /\ JobTypes' /\ StoreTypes' /\ CountTypes'
  BY <1>1, Frames DEF history, transfer
<1>6. Types' BY <1>4, <1>5, TypesFrom DEF Posts
<1>7. Ticks BY <1>3 DEF Ticks, history
<1>8. Settling BY <1>3 DEF Settling, server, history, transfer, Applying, Sourcing
<1>9. Restored BY <1>3 DEF Restored, transfer
<1> QED BY <1>2, <1>6, <1>7, <1>8, <1>9, SteadyAll

LEMMA SetRemoteStep ==
  ASSUME Inv, NEW d \in Ends, SetRemote(d) PROVE Inv'
<1>1. Types /\ LinkTypes BY InvIs, PartsOf
<1> DEFINE r == Described(link[d])
<1>2. link[d] \in Links BY <1>1 DEF LinkTypes
<1>3. r \in Links BY <1>2 DEF Links, Described
<1>4. /\ Dims(link[d], r) /\ r.open = link[d].open /\ r.peer = link[d].peer
      /\ r.armed = link[d].armed /\ r.remote = "yes"
  BY <1>2 DEF Links, Described, Dims
<1>5. r.peer \in Codes BY <1>1, <1>4 DEF LinkTypes, SetRemote
<1>6. link' = [link EXCEPT ![d] = r] BY <1>1 DEF SetRemote, LinkTypes
<1>7. UNCHANGED <<server, transfer, history, code>> /\ page' = page /\ UNCHANGED inbox
  BY DEF SetRemote
<1> HIDE DEF r
<1>8. /\ LinkTypes' /\ Stands /\ Peering
      /\ link'[Host].open = link[Host].open /\ link'[Host].armed = link[Host].armed
  BY <1>3, <1>4, <1>5, <1>6, <1>7, Redescribed
<1>9. Posts BY <1>1, <1>7, Unposted
<1> QED BY <1>7, <1>8, <1>9, RedescribedKeeps

\* A signal is relayed to the other one, or to nobody.
LEMMA SignalPosted ==
  ASSUME Types, NEW d \in Ends, NEW type \in Signals, link[d].open,
         EmitSignal(d, type, link[d].code)
  PROVE  Posts
<1>1. link[d].code \in Codes BY PartsOf DEF LinkTypes
<1> DEFINE e == Event(type, link[d].code)
<1>2. e \in Events /\ e.type = type /\ e.code = link[d].code BY <1>1 DEF Events, Event
<1>3. Other(d) \in Ends /\ (Other(d) = Host => d = Source) BY TheEnds
<1>4. CASE MaySignal(d, link[d].code)
  <2>1. Emit(Other(d), e) BY <1>4 DEF EmitSignal
  <2> HIDE DEF e
  <2>2. e.type # "ack" /\ e.type \in Signals BY <1>2, TypesDiffer
  <2>3. CASE Other(d) = Source BY <2>1, <2>2, <2>3, <1>1, <1>2, <1>3, Posted
  <2>4. CASE Other(d) = Host BY <2>1, <2>2, <2>4, <1>1, <1>2, <1>3, Posted
  <2> QED BY <2>3, <2>4, <1>3, TheEnds
<1>5. CASE ~MaySignal(d, link[d].code)
  <2>1. UNCHANGED inbox BY <1>5 DEF EmitSignal
  <2> QED BY <2>1, Unposted
<1> QED BY <1>4, <1>5

LEMMA SayDescriptionStep ==
  ASSUME Inv, NEW d \in Ends, SayDescription(d) PROVE Inv'
<1>1. Types /\ LinkTypes BY InvIs, PartsOf
<1> DEFINE r == [link[d] EXCEPT !.said = TRUE]
<1>2. link[d] \in Links BY <1>1 DEF LinkTypes
<1>3. r \in Links BY <1>2 DEF Links
<1>4. /\ Dims(link[d], r) /\ r.open = link[d].open /\ r.peer = link[d].peer
      /\ r.armed = link[d].armed /\ r.remote = link[d].remote
  BY <1>2 DEF Links, Dims
<1>5. r.remote # "no" => r.peer \in Codes BY <1>1, <1>4 DEF LinkTypes
<1>6. link' = [link EXCEPT ![d] = r] BY <1>1 DEF SayDescription, LinkTypes
<1>7. UNCHANGED <<server, transfer, history, code>> /\ page' = page BY DEF SayDescription
<1> HIDE DEF r
<1>8. /\ LinkTypes' /\ Stands /\ Peering
      /\ link'[Host].open = link[Host].open /\ link'[Host].armed = link[Host].armed
  BY <1>3, <1>4, <1>5, <1>6, <1>7, Redescribed
<1>9. Posts
  <2>1. link[d].open BY DEF SayDescription
  <2>2. "offer" \in Signals /\ "answer" \in Signals BY DEF Signals
  <2>3. \E type \in Signals : EmitSignal(d, type, link[d].code)
    BY <2>2 DEF SayDescription
  <2> QED BY <2>1, <2>3, <1>1, SignalPosted
<1> QED BY <1>7, <1>8, <1>9, RedescribedKeeps

LEMMA SayCandidateStep ==
  ASSUME Inv, NEW d \in Ends, SayCandidate(d) PROVE Inv'
<1>1. Types /\ LinkTypes BY InvIs, PartsOf
<1> DEFINE r == [link[d] EXCEPT !.iced = TRUE]
<1>2. link[d] \in Links BY <1>1 DEF LinkTypes
<1>3. r \in Links BY <1>2 DEF Links
<1>4. /\ Dims(link[d], r) /\ r.open = link[d].open /\ r.peer = link[d].peer
      /\ r.armed = link[d].armed /\ r.remote = link[d].remote
  BY <1>2 DEF Links, Dims
<1>5. r.remote # "no" => r.peer \in Codes BY <1>1, <1>4 DEF LinkTypes
<1>6. link' = [link EXCEPT ![d] = r] BY <1>1 DEF SayCandidate, LinkTypes
<1>7. UNCHANGED <<server, transfer, history, code>> /\ page' = page BY DEF SayCandidate
<1> HIDE DEF r
<1>8. /\ LinkTypes' /\ Stands /\ Peering
      /\ link'[Host].open = link[Host].open /\ link'[Host].armed = link[Host].armed
  BY <1>3, <1>4, <1>5, <1>6, <1>7, Redescribed
<1>9. Posts
  <2>1. link[d].open /\ "ice" \in Signals BY DEF SayCandidate, Signals
  <2>2. EmitSignal(d, "ice", link[d].code) BY DEF SayCandidate
  <2> QED BY <2>1, <2>2, <1>1, SignalPosted
<1> QED BY <1>7, <1>8, <1>9, RedescribedKeeps

LEMMA OfferFailsStep ==
  ASSUME Inv, SourceOfferFails PROVE Inv'
<1>1. Types /\ LinkTypes BY InvIs, PartsOf
<1> DEFINE r == [link[Source] EXCEPT !.said = TRUE]
<1>2. link[Source] \in Links BY <1>1, TheEnds DEF LinkTypes
<1>3. r \in Links BY <1>2 DEF Links
<1>4. /\ Dims(link[Source], r) /\ r.open = link[Source].open /\ r.peer = link[Source].peer
      /\ r.armed = link[Source].armed /\ r.remote = link[Source].remote
  BY <1>2 DEF Links, Dims
<1>5. r.remote # "no" => r.peer \in Codes BY <1>1, <1>4, TheEnds DEF LinkTypes
<1>6. link' = [link EXCEPT ![Source] = r] BY <1>1, TheEnds DEF SourceOfferFails, LinkTypes
<1>7. UNCHANGED <<server, transfer, history, code>> /\ Show(Source, "failed")
      /\ UNCHANGED inbox
  BY DEF SourceOfferFails
<1> HIDE DEF r
<1>8. /\ LinkTypes' /\ Stands /\ Peering
      /\ link'[Host].open = link[Host].open /\ link'[Host].armed = link[Host].armed
  BY <1>3, <1>4, <1>5, <1>6, <1>7, TheEnds, Redescribed
<1>9. Posts BY <1>1, <1>7, Unposted
<1> QED BY <1>7, <1>8, <1>9, RedescribedKeeps

LEMMA HearSignalStep ==
  ASSUME Inv, NEW d \in Ends, HearSignal(d) PROVE Inv'
<1>1. Types /\ LinkTypes /\ MailTypes BY InvIs, PartsOf
<1> DEFINE e == Head(inbox[d])
<1>2. /\ Posts /\ e \in Range(inbox[d]) /\ e.type \in Signals
  BY <1>1, Taken DEF HearSignal
<1>3. e.code \in Codes BY <1>1, <1>2 DEF MailTypes
<1>4. UNCHANGED <<server, transfer, history, code>> /\ page' = page BY DEF HearSignal
<1>5. link[d] \in Links BY <1>1 DEF LinkTypes
<1>6. CASE ~link[d].open
  <2>1. UNCHANGED link BY <1>6 DEF HearSignal
  <2>2. Stands /\ Peering /\ LinkTypes' BY <2>1, <1>1, <1>4, Apart
  <2> QED BY <2>1, <2>2, <1>2, <1>4, RedescribedKeeps
<1>7. ASSUME link[d].open, NEW r \in Links, link' = [link EXCEPT ![d] = r],
             Dims(link[d], r), r.open = link[d].open, r.armed,
             r.remote # "no" => r.peer \in Codes,
             r.peer = link[d].peer \/ r.peer = e.code
      PROVE  Inv'
  <2>1. \/ r.peer = link[d].peer
        \/ \E f \in Range(inbox[d]) : f.type \in Signals /\ r.peer = f.code
    BY <1>2, <1>7
  <2>2. /\ LinkTypes' /\ Stands /\ Peering
        /\ link'[Host].open = link[Host].open /\ link'[Host].armed = link[Host].armed
    BY <2>1, <1>4, <1>7, Redescribed
  <2> QED BY <2>2, <1>2, <1>4, RedescribedKeeps
<1>8. CASE link[d].open /\ e.type = "ice"
  <2> DEFINE r == OnCandidate(d)
  <2>1. r \in Links BY <1>5 DEF OnCandidate, Links
  <2>2. /\ Dims(link[d], r) /\ r.open = link[d].open /\ r.peer = link[d].peer
        /\ r.armed /\ r.remote = link[d].remote
    BY <1>5 DEF OnCandidate, Links, Dims
  <2>3. link' = [link EXCEPT ![d] = r] BY <1>8 DEF HearSignal
  <2>4. r.remote # "no" => r.peer \in Codes BY <2>2, <1>1 DEF LinkTypes
  <2> HIDE DEF r, e
  <2> QED BY <2>1, <2>2, <2>3, <2>4, <1>7, <1>8
<1>9. CASE link[d].open /\ e.type # "ice"
  <2> DEFINE r == OnDescription(d, e)
  <2>1. link' = [link EXCEPT ![d] = r] BY <1>9 DEF HearSignal
  <2> HIDE DEF e
  <2>2. CASE link[d].remote = "no" /\ (d = Host \/ link[d].said)
    <3>1. r = [link[d] EXCEPT !.armed = TRUE, !.remote = "setting", !.peer = e.code]
      BY <2>2 DEF OnDescription
    <3>2. r \in Links BY <3>1, <1>3, <1>5 DEF Links
    <3>3. /\ Dims(link[d], r) /\ r.open = link[d].open /\ r.peer = e.code /\ r.armed
      BY <3>1, <2>2, <1>5 DEF Links, Dims
    <3> HIDE DEF r
    <3> QED BY <3>2, <3>3, <2>1, <1>3, <1>7, <1>9
  <2>3. CASE ~(link[d].remote = "no" /\ (d = Host \/ link[d].said))
    <3>1. r = [link[d] EXCEPT !.armed = TRUE] BY <2>3 DEF OnDescription
    <3>2. r \in Links BY <3>1, <1>5 DEF Links
    <3>3. /\ Dims(link[d], r) /\ r.open = link[d].open /\ r.peer = link[d].peer /\ r.armed
          /\ r.remote = link[d].remote
      BY <3>1, <1>5 DEF Links, Dims
    <3>4. r.remote # "no" => r.peer \in Codes BY <3>3, <1>1 DEF LinkTypes
    <3> HIDE DEF r
    <3> QED BY <3>2, <3>3, <3>4, <2>1, <1>7, <1>9
  <2> QED BY <2>2, <2>3
<1> QED BY <1>6, <1>8, <1>9

\* The stall timer ends the host's link, and only the source's timer.
LEMMA TimeoutStep ==
  ASSUME Inv, NEW d \in Ends, Timeout(d) PROVE Inv'
<1>1. Types /\ LinkTypes BY InvIs, PartsOf
<1>2. Posts BY <1>1, Unposted DEF Timeout
<1>3. Ages BY Unaged DEF Timeout, server
<1>4. Show(d, "failed") BY DEF Timeout
<1>5. CASE d = Host
  <2>1. Close(d) BY <1>5 DEF Timeout
  <2>2. /\ Stands /\ Peering /\ LinkTypes' /\ WireTypes' /\ JobTypes'
        /\ ~link'[Host].open /\ ~link'[Host].armed
    BY <1>5, <2>1, Closes DEF Timeout
  <2>3. /\ page' \in [Ends -> Phases] /\ page'[Host] = "failed" /\ page'[Source] = page[Source]
    BY <1>1, <1>4, <1>5, Shown, TheEnds DEF Phases
  <2>4. PageTypes' BY <1>1, <2>3, PartsOf DEF PageTypes, Timeout
  <2>5. ServerTypes' /\ StoreTypes' /\ CountTypes' BY <1>1, Frames DEF Timeout, history
  <2>6. Types' BY <1>2, <2>2, <2>4, <2>5, TypesFrom DEF Posts
  <2>7. Ticks BY <2>2, <2>3 DEF Ticks
  <2>8. Settling BY <2>3 DEF Settling, Timeout, server, history, Applying, Sourcing
  <2>9. Restored BY <2>3 DEF Restored
  <2> QED BY <1>2, <1>3, <2>2, <2>6, <2>7, <2>8, <2>9, SteadyAll
<1>6. CASE d = Source
  <2> DEFINE r == [link[Source] EXCEPT !.armed = FALSE]
  <2>1. link[Source] \in Links BY <1>1, TheEnds DEF LinkTypes
  <2>2. r \in Links BY <2>1 DEF Links
  <2>3. /\ Dims(link[Source], r) /\ r.open = link[Source].open /\ r.peer = link[Source].peer
        /\ r.remote = link[Source].remote
    BY <2>1 DEF Links, Dims
  <2>4. r.open => r.code \in Codes BY <1>1, <2>3, TheEnds DEF LinkTypes, Dims
  <2>5. r.remote # "no" => r.peer \in Codes BY <1>1, <2>3, TheEnds DEF LinkTypes
  <2>6. link' = [link EXCEPT ![Source] = r] /\ UNCHANGED pipe
    BY <1>1, <1>6, TheEnds DEF Timeout, LinkTypes
  <2>7. UNCHANGED <<server, transfer, history, code>> /\ Show(Source, "failed")
    BY <1>4, <1>6, <2>6 DEF Timeout, transfer
  <2> HIDE DEF r
  <2>8. LinkTypes' /\ link'[Source] = r /\ link'[Host] = link[Host]
    BY <1>1, <2>2, <2>4, <2>5, <2>6, TheEnds, Relinked
  <2>9. Fading BY <2>3, <2>8, TheEnds DEF Fading, Dims
  <2>10. Stands BY <1>1, <2>7, <2>8, <2>9, Uncut DEF Stands, transfer
  <2>11. Peering BY <2>8 DEF Peering
  <2> QED BY <1>2, <2>7, <2>8, <2>10, <2>11, RedescribedKeeps
<1> QED BY <1>5, <1>6, TheEnds

LEMMA OrphanStep ==
  ASSUME Inv, OrphanTimeout PROVE Inv'
<1>1. Types BY InvIs
<1>2. Posts BY <1>1, Unposted DEF OrphanTimeout
<1>3. Ages BY Unaged DEF OrphanTimeout, server
<1>4. /\ Stands /\ Peering /\ LinkTypes' /\ WireTypes' /\ JobTypes'
      /\ ~link'[Host].open /\ ~link'[Host].armed
  BY TheEnds, Closes DEF OrphanTimeout
<1>5. /\ page' \in [Ends -> Phases] /\ page'[Host] = "failed" /\ page'[Source] = page[Source]
  BY <1>1, Shown, TheEnds DEF OrphanTimeout, Phases
<1>6. PageTypes' BY <1>1, <1>5, PartsOf DEF PageTypes, OrphanTimeout
<1>7. ServerTypes' /\ StoreTypes' BY <1>1, Frames DEF OrphanTimeout
<1>8. CountTypes' BY <1>1, PartsOf DEF OrphanTimeout, CountTypes
<1>9. Types' BY <1>2, <1>4, <1>6, <1>7, <1>8, TypesFrom DEF Posts
<1>10. Ticks BY <1>4, <1>5 DEF Ticks
<1>11. Settling BY <1>5 DEF Settling, OrphanTimeout, server, Applying, Sourcing
<1>12. Restored BY <1>5 DEF Restored
<1> QED BY <1>2, <1>3, <1>4, <1>9, <1>10, <1>11, <1>12, SteadyAll


-----------------------------------------------------------------------------
(* Steps of a join                                                          *)

LEMMA SourceJoinStep ==
  ASSUME Inv, NEW c \in Codes, SourceJoin(c) PROVE Inv'
<1>1. Types /\ OneJoin BY InvIs
<1>2. Posts BY <1>1, Unposted DEF SourceJoin
<1>3. Ages /\ ServerTypes' BY <1>1, PartsOf, ServerKept DEF SourceJoin, ServerTypes
<1>4. /\ page' \in [Ends -> Phases] /\ page'[Source] = "joining" /\ page'[Host] = page[Host]
  BY <1>1, Shown, TheEnds DEF SourceJoin, Phases
<1>5. Stands /\ Peering /\ LinkTypes' /\ WireTypes' /\ JobTypes' /\ StoreTypes'
      /\ applying' = applying /\ imported' = imported
  BY <1>1, Apart DEF SourceJoin
<1>6. PageTypes' BY <1>1, <1>4, PartsOf DEF SourceJoin, PageTypes
<1>7. CountTypes' BY <1>1, PartsOf, Numbers DEF SourceJoin, CountTypes
<1>8. Types' BY <1>2, <1>3, <1>5, <1>6, <1>7, TypesFrom DEF Posts
<1>9. Ticks BY <1>4 DEF Ticks, SourceJoin
<1>10. OneJoin'
  <2> SUFFICES ASSUME joins' <= 1 PROVE OneJoin' BY DEF OneJoin
  <2>1. joins = 0 /\ joins' = 1 BY <1>1, PartsOf, Numbers DEF SourceJoin, CountTypes
  <2>2. Unheard /\ Unlinked BY <2>1 DEF Unheard, Unlinked
  <2>3. /\ orphan = "none" /\ ~Told(Host, "peer-joined") /\ ~Told(Source, "ack")
        /\ Alone(Host, "peer-joined") /\ Alone(Source, "ack")
        /\ ~link[Host].open /\ ~Applying /\ page[Host] # "done" /\ ~Sourcing
        /\ ~CalledOff /\ ~Ended
    BY <1>1, <2>1, <2>2 DEF OneJoin
  <2>4. UNCHANGED <<inbox, link, cancel, orphan, job, pipe, applying>>
    BY DEF SourceJoin, transfer
  <2>5. /\ ~Told(Host, "peer-joined")' /\ ~Told(Source, "ack")'
        /\ Alone(Host, "peer-joined")' /\ Alone(Source, "ack")'
    BY <2>3, <2>4 DEF Told, Alone
  <2>6. ~Sourcing' BY <2>3, <2>4, <1>4 DEF Sourcing
  <2>7. ~CalledOff' BY <2>3, <2>4 DEF CalledOff, Told
  <2>8. ~Ended' /\ ~Applying' BY <2>3, <2>4, <1>4 DEF Ended, Applying
  <2>9. page'[Host] # "done" /\ ~link'[Host].open BY <2>3, <2>4, <1>4
  <2> QED BY <2>1, <2>3, <2>4, <2>5, <2>6, <2>7, <2>8, <2>9 DEF OneJoin
<1>11. RestoredIsComplete'
  <2>1. Restored BY <1>4, <1>5 DEF Restored
  <2> QED BY <2>1, StandsRestored, <1>5 DEF Stands
<1> QED BY <1>2, <1>3, <1>5, <1>8, <1>9, <1>10, <1>11, Steady

\* Both are told of the join; the code is acked for the first time.
LEMMA MatchedStep ==
  ASSUME Inv, JoinMatched PROVE Inv'
<1>1. Types /\ OneJoin /\ AckedOnce BY InvIs
<1>2. ServerTypes /\ MailTypes BY <1>1, PartsOf
<1> DEFINE c == asked  a == Event("ack", asked)  p == Event("peer-joined", asked)
<1>3. /\ c \in Codes /\ c \in used /\ Waiting(c)
      /\ session[c].host = Host /\ session[c] \in Pairings
  BY <1>2 DEF JoinMatched, ServerTypes, Match, Waiting
<1>4. /\ a \in Events /\ p \in Events /\ a.type = "ack" /\ p.type = "peer-joined"
      /\ a.code = c /\ p.code = c
  BY <1>3 DEF Events, Event
<1>5. inbox' = [inbox EXCEPT ![Source] = Append(@, a), ![Host] = Append(@, p)]
  BY <1>3 DEF JoinMatched
<1>6. UNCHANGED <<cancel, peers, transfer, history>> /\ asked' = None BY DEF JoinMatched
<1>7. /\ session'[c] # None /\ session'[c].host = Host /\ session'[c].source = Source
      /\ session'[c] \in Pairings
      /\ \A e \in Codes \ {c} : session'[e] = session[e]
      /\ session' \in [Codes -> Pairings \cup {None}] /\ used' = used
  <2> DEFINE r == [session[c] EXCEPT !.source = Source]
  <2>1. r \in Pairings /\ r.host = Host /\ r.source = Source
    BY <1>3, Pair DEF Pairings
  <2>2. session' = [session EXCEPT ![c] = r] /\ used' = used
    BY <1>2, <1>3 DEF JoinMatched, Match, ServerTypes
  <2>3. r # None
    <3>1. r \in Sessions BY <2>1 DEF Pairings, Sessions
    <3> QED BY <3>1, NoneAssumption
  <2> HIDE DEF r, c
  <2> QED BY <2>1, <2>2, <2>3, <1>2, <1>3 DEF ServerTypes
<1>8. ServerTypes' BY <1>2, <1>6, <1>7, <1>3 DEF ServerTypes
<1> HIDE DEF a, p, c
<1>9. /\ inbox'[Source] = Append(inbox[Source], a) /\ inbox'[Host] = Append(inbox[Host], p)
      /\ inbox[Source] \in Seq(Events) /\ inbox[Host] \in Seq(Events)
  BY <1>2, <1>5, TheEnds DEF MailTypes
<1>10. /\ inbox'[Source] \in Seq(Events) /\ Range(inbox'[Source]) = Range(inbox[Source]) \cup {a}
       /\ DOMAIN inbox'[Source] = 1 .. Len(inbox[Source]) + 1
       /\ \A k \in 1 .. Len(inbox[Source]) : inbox'[Source][k] = inbox[Source][k]
       /\ inbox'[Source][Len(inbox[Source]) + 1] = a
       /\ DOMAIN inbox[Source] = 1 .. Len(inbox[Source]) /\ Len(inbox[Source]) \in Nat
  BY <1>4, <1>9, RangeAppend, LenProperties
<1>11. /\ inbox'[Host] \in Seq(Events) /\ Range(inbox'[Host]) = Range(inbox[Host]) \cup {p}
       /\ DOMAIN inbox'[Host] = 1 .. Len(inbox[Host]) + 1
       /\ \A k \in 1 .. Len(inbox[Host]) : inbox'[Host][k] = inbox[Host][k]
       /\ inbox'[Host][Len(inbox[Host]) + 1] = p
       /\ DOMAIN inbox[Host] = 1 .. Len(inbox[Host]) /\ Len(inbox[Host]) \in Nat
  BY <1>4, <1>9, RangeAppend, LenProperties
<1>12. MailTypes'
  <2>1. inbox' \in [Ends -> Seq(Events)]
    BY <1>2, <1>5, <1>9, <1>10, <1>11, TheEnds DEF MailTypes
  <2>2. ASSUME NEW d \in Ends, NEW e \in Range(inbox'[d]), e.type \in Signals \cup {"ack"}
        PROVE  e.code \in Codes
    <3>1. \/ e \in Range(inbox[d]) \/ e = a \/ (e = p /\ d = Host)
      BY <2>2, <1>10, <1>11, TheEnds
    <3>2. e # p BY <2>2, <1>4, TypesDiffer
    <3> QED BY <3>1, <3>2, <2>2, <1>2, <1>3, <1>4 DEF MailTypes
  <2> QED BY <2>1, <2>2 DEF MailTypes
<1>13. UNCHANGED <<link, transfer>> /\ UNCHANGED <<page, code>> BY <1>6 DEF peers
<1>14. Stands /\ Peering /\ LinkTypes' /\ WireTypes' /\ JobTypes' /\ StoreTypes'
       /\ applying' = applying /\ imported' = imported
  BY <1>1, <1>13, Apart
<1>15. PageTypes' /\ CountTypes' BY <1>1, <1>6, <1>13, Frames DEF history
<1>16. Types' BY <1>8, <1>12, <1>14, <1>15, TypesFrom
<1>17. Conduit' /\ Ending' /\ Finished' /\ Complete' BY <1>14, InvIs, TransferStands
<1>18. Timed' /\ StallTimerRuns'
  <2>1. Ticks BY <1>6, <1>13 DEF Ticks, history
  <2> QED BY <2>1, TimerTicks
<1>19. RestoredIsComplete'
  <2>1. Restored BY <1>13, <1>14 DEF Restored
  <2> QED BY <2>1, <1>14, StandsRestored DEF Stands
<1>20. AckedOnce'
  <2>1. a \notin Range(inbox[Source])
    BY <1>1, <1>3 DEF AckedOnce, a, c
  <2>2. ASSUME NEW j \in DOMAIN inbox'[Source], NEW k \in DOMAIN inbox'[Source],
               inbox'[Source][j] = inbox'[Source][k], inbox'[Source][j].type = "ack"
        PROVE  j = k
    <3>1. \A m \in DOMAIN inbox[Source] : inbox[Source][m] # a BY <2>1 DEF Range
    <3>2. j \in DOMAIN inbox[Source] \/ j = Len(inbox[Source]) + 1 BY <1>10
    <3>3. k \in DOMAIN inbox[Source] \/ k = Len(inbox[Source]) + 1 BY <1>10
    <3>4. CASE j \in DOMAIN inbox[Source] /\ k \in DOMAIN inbox[Source]
      BY <3>4, <2>2, <1>1, <1>10 DEF AckedOnce
    <3> QED BY <3>1, <3>2, <3>3, <3>4, <2>2, <1>10
  <2>3. ASSUME NEW e \in Codes, Unspent(e)' PROVE Unspent(e) /\ e # c
    BY <2>3, <1>3, <1>7, Pair, NoneAssumption DEF Unspent, Waiting
  <2>4. ASSUME NEW e \in Codes, Event("ack", e) \in Range(inbox'[Source])
        PROVE  Event("ack", e) \in Range(inbox[Source]) \/ e = c
    BY <2>4, <1>4, <1>10 DEF Event
  <2>5. ASSUME NEW e \in Codes, Unspent(e)' PROVE Event("ack", e) \notin Range(inbox'[Source])
    BY <2>3, <2>4, <2>5, <1>1 DEF AckedOnce, Unspent
  <2>6. ASSUME NEW e \in Codes, Untold(e)' PROVE Traceless(e)'
    <3>1. Untold(e)
      BY <2>3, <2>4, <2>6, <1>3 DEF Untold, Unspent
    <3>2. Traceless(e) BY <3>1, <1>1 DEF AckedOnce
    <3>3. \A f \in Range(inbox'[Host]) : f.type \in Signals => f \in Range(inbox[Host])
      BY <1>4, <1>11, TypesDiffer
    <3> QED BY <3>2, <3>3, <1>13 DEF Traceless, transfer
  <2> QED BY <2>2, <2>5, <2>6 DEF AckedOnce, Unspent
<1>21. OneJoin'
  <2> SUFFICES ASSUME joins' <= 1 PROVE OneJoin' BY DEF OneJoin
  <2>1. joins' = joins /\ orphan' = orphan /\ asked # None
    BY <1>3, <1>6, TheEnds DEF history, c
  <2>2. Unheard /\ Unlinked BY <2>1 DEF Unheard, Unlinked
  <2>3. /\ orphan = "none" /\ ~Told(Host, "peer-joined") /\ ~Told(Source, "ack")
        /\ ~link[Host].open /\ ~Applying /\ page[Host] # "done" /\ ~Sourcing
        /\ ~CalledOff /\ ~Ended /\ joins # 0
    BY <1>1, <2>1, <2>2 DEF OneJoin
  <2>4. Alone(Host, "peer-joined")'
    <3>1. \A k \in DOMAIN inbox[Host] : inbox[Host][k].type # "peer-joined"
      BY <2>3 DEF Told, Range
    <3> QED BY <3>1, <1>11 DEF Alone
  <2>5. Alone(Source, "ack")'
    <3>1. \A k \in DOMAIN inbox[Source] : inbox[Source][k].type # "ack"
      BY <2>3 DEF Told, Range
    <3> QED BY <3>1, <1>10 DEF Alone
  <2>6. UNCHANGED <<link, cancel, job, pipe, applying, page>> BY <1>6, <1>13 DEF transfer
  <2>7. ~Sourcing' BY <2>3, <2>6 DEF Sourcing
  <2>8. ~CalledOff'
    <3>1. ~Told(Host, "cancelled")' BY <2>3, <1>4, <1>11 DEF CalledOff, Told
    <3> QED BY <3>1, <2>3, <2>6 DEF CalledOff
  <2>9. ~Ended' /\ ~Applying' BY <2>3, <2>6 DEF Ended, Applying
  <2> QED BY <1>6, <2>1, <2>3, <2>4, <2>5, <2>6, <2>7, <2>8, <2>9 DEF OneJoin
<1> QED BY <1>16, <1>17, <1>18, <1>19, <1>20, <1>21, InvFrom


\* Who was told of something only once is not told again.
LEMMA ToldOnce ==
  ASSUME Types, NEW d \in Ends, NEW type, Heard(d, type), Handled(d), Alone(d, type)
  PROVE  ~Told(d, type)'
<1>1. inbox[d] \in Seq(Events) /\ inbox[d] # <<>> BY PartsOf DEF MailTypes, Heard
<1>2. inbox'[d] = Tail(inbox[d]) BY <1>1, PartsOf DEF Handled, MailTypes
<1>3. /\ Head(inbox[d]) = inbox[d][1] /\ 1 \in DOMAIN inbox[d]
      /\ \A k \in DOMAIN Tail(inbox[d]) : k + 1 \in DOMAIN inbox[d] /\ Tail(inbox[d])[k] = inbox[d][k + 1]
      /\ DOMAIN Tail(inbox[d]) = 1 .. Len(inbox[d]) - 1
  BY <1>1, HeadAndTail
<1>4. ASSUME NEW k \in DOMAIN inbox'[d], inbox'[d][k].type = type PROVE FALSE
  <2>1. k + 1 \in DOMAIN inbox[d] /\ inbox[d][k + 1].type = type /\ k \in Nat /\ k # 0
    BY <1>1, <1>2, <1>3, <1>4, LenProperties
  <2>2. 1 = k + 1 BY <2>1, <1>3 DEF Alone, Heard
  <2> QED BY <2>1, <2>2
<1> QED BY <1>4 DEF Told, Range

LEMMA NewLinks ==
  ASSUME NEW c \in Codes
  PROVE  /\ NewLink(c) \in Links /\ NewLink(c).open /\ NewLink(c).armed /\ NewLink(c).code = c
         /\ NewLink(c).peer = None /\ NewLink(c).remote = "no"
BY DEF NewLink, Closed, Links

LEMMA HostJoinedStep ==
  ASSUME Inv, HostHearJoined PROVE Inv'
<1>1. /\ Types /\ Conduit /\ Ending /\ Timed /\ AckedOnce /\ Finished /\ Complete /\ OneJoin
      /\ PageTypes /\ LinkTypes
  BY InvIs, PartsOf
<1>2. Heard(Host, "peer-joined") /\ Handled(Host) /\ UNCHANGED server BY DEF HostHearJoined
<1>3. Posts BY <1>1, <1>2, Taken, TheEnds DEF Heard
<1>4. Ages BY <1>2, Unaged DEF server
<1>5. CASE code[Host] = None
  <2>1. UNCHANGED <<peers, transfer, history>>
    BY <1>5 DEF HostHearJoined, peers, transfer, history
  <2>2. ServerTypes' /\ CountTypes' BY <1>1, <1>2, <2>1, Frames DEF history
  <2> QED BY <1>2, <1>3, <1>4, <2>1, <2>2, Offstage DEF server, history
<1>6. CASE code[Host] # None
  <2> DEFINE r == NewLink(code[Host])
  <2>1. /\ Show(Host, "connecting") /\ link' = [link EXCEPT ![Host] = r]
        /\ orphan' = (IF link[Host].open THEN "armed" ELSE orphan)
        /\ received' = {} /\ channel' = "none" /\ pipe' = <<>>
        /\ UNCHANGED <<code, job, applying, collected, imported, joins, upsets, lost>>
    BY <1>6 DEF HostHearJoined
  <2>2. code[Host] \in Codes BY <1>1, <1>6, TheEnds DEF PageTypes
  <2>3. /\ r \in Links /\ r.open /\ r.armed /\ r.code \in Codes /\ r.peer = None /\ r.remote = "no"
    BY <2>2, NewLinks
  <2> HIDE DEF r
  <2>4. LinkTypes' /\ link'[Host] = r /\ link'[Source] = link[Source]
    BY <1>1, <2>1, <2>3, TheEnds, Relinked
  <2>5. /\ page' \in [Ends -> Phases] /\ page'[Host] = "connecting" /\ page'[Source] = page[Source]
    BY <1>1, <2>1, Shown, TheEnds DEF Phases
  <2>6. PageTypes' BY <1>1, <2>1, <2>5 DEF PageTypes
  <2>7. WireTypes'
    <3>1. <<>> \in Seq(0 .. Done) BY EmptySeq
    <3> QED BY <3>1, <2>1 DEF WireTypes
  <2>8. ServerTypes' /\ JobTypes' /\ StoreTypes' BY <1>1, <1>2, <2>1, Frames
  <2>9. CountTypes' BY <1>1, <2>1, PartsOf DEF CountTypes
  <2>10. Types' BY <1>3, <2>4, <2>6, <2>7, <2>8, <2>9, TypesFrom DEF Posts
  <2>11. Conduit' BY <2>1 DEF Conduit
  <2>12. Ending' BY <1>1, <2>1 DEF Ending
  <2>13. Timed' /\ StallTimerRuns' /\ RestoredIsComplete'
    BY <2>3, <2>4, <2>5 DEF Timed, StallTimerRuns, RestoredIsComplete
  <2>14. AckedOnce'
    <3>1. Traces BY <2>1, <2>3, <2>4 DEF Traces
    <3> QED BY <3>1, <1>1, <1>3, <1>4, AcksKept
  <2>15. Range(pipe') = {} /\ DOMAIN pipe' = {} BY <2>1 DEF Range
  <2>16. Finished' BY <1>1, <2>1, <2>4, <2>15 DEF Finished, Final
  <2>17. Complete' BY <1>1, <2>1, <2>15 DEF Complete, AllIn
  <2>18. OneJoin'
    <3> SUFFICES ASSUME joins' <= 1 PROVE OneJoin' BY DEF OneJoin
    <3>1. joins <= 1 BY <2>1
    <3>2. Told(Host, "peer-joined") BY <1>1, <1>2, Taken, TheEnds DEF Heard, Told
    <3>3. Unheard BY <3>2 DEF Unheard
    <3>4. /\ orphan = "none" /\ joins # 0 /\ asked = None
          /\ Alone(Host, "peer-joined") /\ Alone(Source, "ack")
          /\ ~link[Host].open /\ ~Applying
          /\ Unlinked => ~Sourcing
          /\ CalledOff => ~Unlinked /\ ~link[Source].open
      BY <1>1, <3>1, <3>2, <3>3 DEF OneJoin
    <3>5. ~Told(Host, "peer-joined")' BY <1>1, <1>2, <3>4, ToldOnce, TheEnds
    <3>6. /\ Told(Source, "ack")' => Told(Source, "ack")
          /\ Told(Host, "cancelled")' => Told(Host, "cancelled") \/ cancel[Source] # NoCancel
          /\ Alone(Source, "ack")' /\ Alone(Host, "peer-joined")'
      BY <1>1, <1>3, <3>4, SourcePosts, HostPosts DEF Posts
    <3>7. asked' = asked /\ cancel' = cancel /\ orphan' = "none" BY <1>2, <2>1, <3>4 DEF server
    <3>8. ~Unheard' BY <2>1, <3>4, <3>5, <3>7 DEF Unheard
    <3>9. Unlinked' => Unlinked BY <2>1, <3>6, <3>7 DEF Unlinked
    <3>10. CalledOff' => CalledOff BY <3>6, <3>7 DEF CalledOff
    <3>11. ~Ended' BY <2>1, <2>5, <2>15, <3>4 DEF Ended, Applying
    <3>12. Sourcing' => Sourcing BY <2>1, <2>4, <2>5 DEF Sourcing
    <3> QED
      BY <2>1, <2>4, <3>4, <3>5, <3>6, <3>7, <3>8, <3>9, <3>10, <3>11, <3>12 DEF OneJoin
  <2> QED BY <2>10, <2>11, <2>12, <2>13, <2>14, <2>16, <2>17, <2>18, InvFrom
<1> QED BY <1>5, <1>6

\* The ack makes the source's link: nothing on either side knows its code.
LEMMA AckedStep ==
  ASSUME Inv, Heard(Source, "ack"), Handled(Source),
         code' = [code EXCEPT ![Source] = Head(inbox[Source]).code],
         link' = [link EXCEPT ![Source] = NewLink(Head(inbox[Source]).code)],
         Show(Source, "connecting"), UNCHANGED <<server, transfer, history>>
  PROVE  Inv'
<1>1. /\ Types /\ Conduit /\ Ending /\ Timed /\ AckedOnce /\ Finished /\ Complete /\ OneJoin
      /\ PageTypes /\ LinkTypes /\ MailTypes
  BY InvIs, PartsOf
<1> DEFINE e == Head(inbox[Source])  c == e.code  r == NewLink(c)
<1>2. Posts BY <1>1, Taken, TheEnds DEF Heard
<1>3. e \in Events /\ e \in Range(inbox[Source]) /\ e.type = "ack"
  BY <1>1, Taken, TheEnds DEF Heard
<1>4. c \in Codes /\ e = Event("ack", c) BY <1>1, <1>3, TheEnds DEF MailTypes, Events, Event
<1>5. r \in Links /\ r.open /\ r.code = c /\ r.peer = None /\ r.remote = "no"
  BY <1>4, NewLinks
<1> HIDE DEF r
<1>6. LinkTypes' /\ link'[Source] = r /\ link'[Host] = link[Host]
  <2>1. link' = [link EXCEPT ![Source] = r] BY DEF r
  <2>2. r.open => r.code \in Codes BY <1>4, <1>5
  <2> HIDE DEF c
  <2> QED BY <1>1, <1>5, <2>1, <2>2, TheEnds, Relinked
<1>7. /\ page' \in [Ends -> Phases] /\ page'[Source] = "connecting" /\ page'[Host] = page[Host]
  BY <1>1, Shown, TheEnds DEF Phases
<1>8. PageTypes' BY <1>1, <1>4, <1>7 DEF PageTypes
<1>9. ServerTypes' /\ WireTypes' /\ JobTypes' /\ StoreTypes' /\ CountTypes'
  BY <1>1, Frames DEF transfer, history
<1>10. Types' BY <1>2, <1>6, <1>8, <1>9, TypesFrom DEF Posts
<1>11. Ages BY Unaged DEF server
<1>12. Untold(c) /\ Traceless(c)
  <2>1. Untold(c) BY <1>3, <1>4 DEF Untold
  <2> QED BY <2>1, <1>1, <1>4 DEF AckedOnce
<1>13. inbox[Source] # <<>> /\ inbox[Source] \in Seq(Events) /\ inbox'[Source] = Tail(inbox[Source])
  BY <1>1, TheEnds DEF Heard, Handled, MailTypes
<1>14. Event("ack", c) \notin Range(inbox'[Source])
  <2>1. /\ Head(inbox[Source]) = inbox[Source][1] /\ 1 \in DOMAIN inbox[Source]
        /\ \A k \in DOMAIN Tail(inbox[Source]) :
             k + 1 \in DOMAIN inbox[Source] /\ Tail(inbox[Source])[k] = inbox[Source][k + 1]
        /\ DOMAIN Tail(inbox[Source]) = 1 .. Len(inbox[Source]) - 1
        /\ Len(inbox[Source]) \in Nat
    BY <1>13, HeadAndTail
  <2>2. ASSUME NEW k \in DOMAIN Tail(inbox[Source]), Tail(inbox[Source])[k] = Event("ack", c)
        PROVE  FALSE
    <3>1. /\ k + 1 \in DOMAIN inbox[Source] /\ inbox[Source][k + 1] = inbox[Source][1]
          /\ inbox[Source][1].type = "ack"
      BY <2>1, <2>2, <1>3, <1>4
    <3>2. 1 = k + 1 BY <3>1, <2>1, <1>1 DEF AckedOnce
    <3> QED BY <3>2, <2>1, <2>2
  <2> QED BY <2>2, <1>13 DEF Range
<1>15. c \in used /\ ~Waiting(c) BY <1>1, <1>3, <1>4 DEF AckedOnce
<1>16. AckedOnce'
  <2>1. ToSource /\ ToHost BY <1>2 DEF Posts
  <2>2. ASSUME NEW j \in DOMAIN inbox'[Source], NEW k \in DOMAIN inbox'[Source],
               inbox'[Source][j] = inbox'[Source][k], inbox'[Source][j].type = "ack"
        PROVE  j = k
    <3>1. PICK m, n \in DOMAIN inbox[Source] :
            inbox[Source][m] = inbox'[Source][j] /\ inbox[Source][n] = inbox'[Source][k]
            /\ (m = n => j = k)
      BY <1>1, <2>1, <2>2, SourcePosts
    <3>2. m = n BY <3>1, <2>2, <1>1 DEF AckedOnce
    <3> QED BY <3>1, <3>2
  <2>3. \A x \in Codes : Event("ack", x) \in Range(inbox'[Source]) =>
          Event("ack", x) \in Range(inbox[Source])
    BY <1>1, <2>1, SourcePosts DEF Event
  <2>4. ASSUME NEW x \in Codes, Unspent(x)' PROVE Event("ack", x) \notin Range(inbox'[Source])
    BY <2>3, <2>4, <1>1, <1>11 DEF Ages, AckedOnce, Unspent
  <2>5. ASSUME NEW x \in Codes, Untold(x)' PROVE Traceless(x)'
    <3>1. Untold(x) /\ x # c
      BY <2>3, <2>5, <1>11, <1>14, <1>15 DEF Untold, Ages, Unspent
    <3>2. Traceless(x) BY <3>1, <1>1 DEF AckedOnce
    <3>3. inbox'[Host] = inbox[Host] BY <1>1, Taken, TheEnds DEF Heard
    <3> QED BY <3>1, <3>2, <3>3, <1>5, <1>6 DEF Traceless, transfer
  <2> QED BY <2>2, <2>4, <2>5 DEF AckedOnce, Unspent
<1>17. Conduit' BY <1>1, <1>6 DEF Conduit, transfer
<1>18. Ending' BY <1>1 DEF Ending, transfer
<1>19. Timed' /\ StallTimerRuns'
  <2>1. Ticks BY <1>6, <1>7 DEF Ticks, history
  <2> QED BY <2>1, TimerTicks
<1>20. RestoredIsComplete'
  <2>1. Restored BY <1>7 DEF Restored, transfer
  <2> QED BY <2>1, StandsRestored DEF transfer
<1>21. Finished'
  <2>1. ASSUME NEW x \in Codes, Final(x)'
        PROVE  job'.code # x /\ ~(link'[Source].open /\ link'[Source].code = x)
    <3>1. Final(x) BY <2>1, <1>6 DEF Final, transfer
    <3>2. x # c BY <3>1, <1>12 DEF Final, Traceless
    <3> QED BY <3>1, <3>2, <1>1, <1>5, <1>6 DEF Finished, transfer
  <2> QED BY <2>1 DEF Finished
<1>22. Complete'
  <2>1. ~SourceLive' BY <1>5, <1>6, <1>12 DEF SourceLive, Traceless, transfer
  <2> QED BY <2>1, <1>1, <1>6 DEF Complete, AllIn, transfer
<1>23. OneJoin'
  <2> SUFFICES ASSUME joins' <= 1 PROVE OneJoin' BY DEF OneJoin
  <2>1. joins <= 1 /\ joins' = joins /\ orphan' = orphan /\ asked' = asked /\ cancel' = cancel
    BY DEF history, server
  <2>2. Told(Source, "ack") BY <1>3 DEF Told
  <2>3. Unlinked BY <2>2 DEF Unlinked
  <2>4. /\ orphan = "none" /\ joins # 0 /\ asked = None
        /\ Alone(Host, "peer-joined") /\ Alone(Source, "ack")
        /\ ~CalledOff /\ ~Ended
        /\ Unheard => ~link[Host].open /\ ~Applying /\ page[Host] # "done"
    BY <1>1, <2>1, <2>2, <2>3 DEF OneJoin
  <2>5. ~Told(Source, "ack")' BY <1>1, <2>4, ToldOnce, TheEnds
  <2>6. /\ Told(Host, "peer-joined")' => Told(Host, "peer-joined")
        /\ Told(Host, "cancelled")' => Told(Host, "cancelled") \/ cancel[Source] # NoCancel
        /\ Alone(Source, "ack")' /\ Alone(Host, "peer-joined")'
    BY <1>1, <1>2, <2>4, SourcePosts, HostPosts DEF Posts
  <2>7. ~Unlinked' BY <2>1, <2>4, <2>5 DEF Unlinked
  <2>8. Unheard' => Unheard BY <2>1, <2>6 DEF Unheard
  <2>9. ~CalledOff' BY <2>1, <2>4, <2>6 DEF CalledOff
  <2>10. ~Ended' BY <2>4, <1>7 DEF Ended, Applying, transfer
  <2>11. Applying' => Applying BY DEF Applying, transfer
  <2> QED BY <1>6, <1>7, <2>1, <2>4, <2>5, <2>6, <2>7, <2>8, <2>9, <2>10, <2>11 DEF OneJoin
<1> QED BY <1>10, <1>16, <1>17, <1>18, <1>19, <1>20, <1>21, <1>22, <1>23, InvFrom

LEMMA HearAckStep ==
  ASSUME Inv, SourceHearAck PROVE Inv'
<1>1. CASE Heard(Source, "ack") /\ code' = [code EXCEPT ![Source] = Head(inbox[Source]).code]
           /\ link' = [link EXCEPT ![Source] = NewLink(Head(inbox[Source]).code)]
           /\ Show(Source, "connecting")
  BY <1>1, AckedStep DEF SourceHearAck
<1>2. CASE Heard(Source, "refused") /\ Show(Source, "failed") /\ UNCHANGED <<code, link>>
  <2>1. Types BY InvIs
  <2>2. Posts BY <1>2, <2>1, Taken, TheEnds DEF SourceHearAck, Heard
  <2>3. Stands /\ Peering /\ LinkTypes' BY <1>2, <2>1, Apart DEF SourceHearAck
  <2> QED BY <1>2, <2>2, <2>3, RedescribedKeeps DEF SourceHearAck
<1> QED BY <1>1, <1>2 DEF SourceHearAck



-----------------------------------------------------------------------------
(* Steps of the transfer                                                    *)

LEMMA ChannelOpensStep ==
  ASSUME Inv, ChannelOpens PROVE Inv'
<1>1. /\ Types /\ Conduit /\ Ending /\ Finished /\ Complete /\ AckedOnce /\ OneJoin
      /\ LinkTypes /\ WireTypes
  BY InvIs, PartsOf
<1>2. /\ channel = "none" /\ channel' = "open" /\ job' = [code |-> link[Source].code, left |-> <<Collect>>]
      /\ UNCHANGED <<server, inbox, peers, pipe, received, applying, collected, imported, history>>
  BY DEF ChannelOpens
<1>3. UNCHANGED <<link, page, code>> BY <1>2 DEF peers
<1>4. link[Source].open /\ link[Source].code \in Codes /\ link[Host].remote = "yes"
  BY <1>1, TheEnds DEF ChannelOpens, Connected, LinkTypes
<1>5. pipe = <<>> /\ pipe' = <<>> BY <1>1, <1>2 DEF Conduit
<1>6. Range(pipe') = {} /\ DOMAIN pipe' = {} BY <1>5 DEF Range
<1>7. job'.code = link[Source].code /\ job'.left = <<Collect>> BY <1>2
<1>8. JobTypes'
  <2>1. Collect \in 0 .. Collect BY Numbers
  <2>2. <<Collect>> \in Seq(0 .. Collect)
    <3> HIDE DEF Collect
    <3> QED BY <2>1
  <2> QED BY <2>2, <1>2, <1>4 DEF JobTypes
<1>9. /\ ServerTypes' /\ MailTypes' /\ PageTypes' /\ LinkTypes' /\ StoreTypes' /\ CountTypes'
  BY <1>1, <1>2, <1>3, Frames DEF history
<1>10. WireTypes' BY <1>1, <1>2 DEF WireTypes
<1>11. Types' BY <1>8, <1>9, <1>10, TypesFrom
<1>12. Posts /\ Ages BY <1>1, <1>2, Unposted, Unaged DEF server
<1>13. Conduit' BY <1>3, <1>4, <1>5 DEF Conduit
<1>14. Ending' BY <1>7 DEF Ending
<1>15. Timed' /\ StallTimerRuns'
  <2>1. Ticks BY <1>2, <1>3 DEF Ticks, history
  <2> QED BY <2>1, TimerTicks
<1>16. AckedOnce'
  <2>1. Traces BY <1>2, <1>3, <1>7 DEF Traces
  <2> QED BY <2>1, <1>1, <1>12, AcksKept
<1>17. Finished'
  <2>1. ASSUME NEW c \in Codes, Final(c)'
        PROVE  job'.code # c /\ ~(link'[Source].open /\ link'[Source].code = c)
    <3>1. Final(c) BY <2>1, <1>2, <1>6 DEF Final
    <3> QED BY <3>1, <1>1, <1>3, <1>4, <1>7 DEF Finished
  <2> QED BY <2>1 DEF Finished
<1>18. Complete'
  <2>1. ~Sending' BY <1>7 DEF Sending
  <2> QED BY <2>1, <1>1, <1>2, <1>6 DEF Complete, AllIn
<1>19. OneJoin'
  <2>1. Settles
    BY <1>2, <1>3, <1>4, <1>12 DEF Settles, Sourcing, server, history, Applying
  <2> QED BY <2>1, <1>1, JoinSettles
<1>20. RestoredIsComplete'
  <2>1. Restored BY <1>2, <1>3 DEF Restored
  <2> QED BY <2>1, <1>2, StandsRestored
<1> QED
  BY <1>11, <1>13, <1>14, <1>15, <1>16, <1>17, <1>18, <1>19, <1>20, InvFrom

\* "start", the chunks in order, "done": nothing is missing, and "done" is the last only.
LEMMA MessagesAre ==
  ASSUME NEW n \in 0 .. MaxChunks
  PROVE  /\ Messages(n) \in Seq(0 .. Collect) /\ Messages(n) # <<>>
         /\ 1 .. n \subseteq Range(Messages(n))
         /\ Head(Messages(n)) = Start
         /\ \A k \in DOMAIN Messages(n) :
              Messages(n)[k] # Collect /\ (Messages(n)[k] = Done <=> k = Len(Messages(n)))
<1> DEFINE items == [i \in 1 .. n |-> i]
           S == 0 .. Collect
           front == <<Start>> \o items
           all == front \o <<Done>>
<1>1. n \in Nat /\ n <= MaxChunks /\ Start \in S /\ Done \in S /\ 1 .. n \subseteq S
      /\ Done # Collect /\ Start # Collect /\ Start # Done
      /\ \A i \in 1 .. n : i # Done /\ i # Collect
  BY Numbers
<1>2. items \in Seq(S) /\ Len(items) = n /\ \A i \in 1 .. n : items[i] = i
  BY <1>1, IsASeq
<1>3. Messages(n) = all BY DEF Messages
<1> HIDE DEF S, items
<1>4. /\ <<Start>> \in Seq(S) /\ Len(<<Start>>) = 1 /\ <<Start>>[1] = Start
      /\ <<Done>> \in Seq(S) /\ Len(<<Done>>) = 1 /\ <<Done>>[1] = Done
  BY <1>1
<1>5. /\ front \in Seq(S) /\ Len(front) = n + 1 /\ front[1] = Start
      /\ \A i \in 1 .. n : front[i + 1] = i
  <2>1. /\ front \in Seq(S) /\ Len(front) = 1 + Len(items)
        /\ \A i \in 1 .. 1 + Len(items) :
             front[i] = IF i <= 1 THEN <<Start>>[i] ELSE items[i - 1]
    BY <1>2, <1>4, ConcatProperties
  <2> HIDE DEF front
  <2> QED BY <2>1, <1>1, <1>2, <1>4
<1> HIDE DEF front
<1>6. /\ all \in Seq(S) /\ Len(all) = n + 2 /\ all[n + 2] = Done
      /\ \A i \in 1 .. n + 1 : all[i] = front[i]
  <2>1. /\ all \in Seq(S) /\ Len(all) = Len(front) + 1
        /\ \A i \in 1 .. Len(front) + 1 :
             all[i] = IF i <= Len(front) THEN front[i] ELSE <<Done>>[i - Len(front)]
    BY <1>4, <1>5, ConcatProperties
  <2> HIDE DEF all
  <2> QED BY <2>1, <1>1, <1>4, <1>5
<1> HIDE DEF all
<1>7. DOMAIN all = 1 .. n + 2 BY <1>6, LenProperties
<1>8. all # <<>> /\ Head(all) = Start
  <2>1. all # <<>> BY <1>1, <1>6
  <2>2. Head(all) = all[1] BY <2>1, <1>6, HeadAndTail
  <2>3. 1 \in 1 .. n + 1 BY <1>1
  <2> QED BY <2>1, <2>2, <2>3, <1>5, <1>6
<1>9. 1 .. n \subseteq Range(all)
  <2>1. ASSUME NEW i \in 1 .. n PROVE i \in Range(all)
    <3>1. i + 1 \in 1 .. n + 2 /\ all[i + 1] = i BY <1>1, <1>5, <1>6
    <3> QED BY <3>1, <1>7 DEF Range
  <2> QED BY <2>1
<1>10. ASSUME NEW k \in DOMAIN all
       PROVE  all[k] # Collect /\ (all[k] = Done <=> k = Len(all))
  <2>1. CASE k = n + 2 BY <2>1, <1>1, <1>6
  <2>2. CASE k = 1 BY <2>2, <1>1, <1>5, <1>6
  <2>3. CASE k # 1 /\ k # n + 2
    <3>1. k - 1 \in 1 .. n /\ k \in 1 .. n + 1 /\ k = (k - 1) + 1 BY <2>3, <1>1, <1>7
    <3>2. all[k] = k - 1 BY <3>1, <1>5, <1>6
    <3> QED BY <3>1, <3>2, <2>3, <1>1, <1>6
  <2> QED BY <2>1, <2>2, <2>3
<1> QED BY <1>3, <1>6, <1>8, <1>9, <1>10 DEF S


\* A code that is still worked for is not the one that has been received.
LEMMA CollectedStep ==
  ASSUME Inv, SourceCollected PROVE Inv'
<1>1. /\ Types /\ Conduit /\ Ending /\ Finished /\ Complete /\ AckedOnce /\ OneJoin
      /\ RestoredIsComplete /\ JobTypes /\ StoreTypes /\ PageTypes
  BY InvIs, PartsOf
<1>2. PICK n \in 0 .. MaxChunks : /\ job' = [job EXCEPT !.left = Messages(n)]
                                  /\ collected' = [collected EXCEPT ![job.code] = n]
  BY DEF SourceCollected
<1>3. /\ UNCHANGED <<server, inbox, link, channel, pipe, received, applying, imported, history, code>>
      /\ Show(Source, "sending") /\ job.left = <<Collect>>
  BY DEF SourceCollected
<1> DEFINE left == Messages(n)
<1>4. /\ left \in Seq(0 .. Collect) /\ left # <<>> /\ 1 .. n \subseteq Range(left)
      /\ \A k \in DOMAIN left : left[k] # Collect /\ (left[k] = Done <=> k = Len(left))
  BY MessagesAre
<1>5. job.left # <<>> /\ job.code \in Codes
  <2>1. <<Collect>> # <<>> OBVIOUS
  <2> QED BY <2>1, <1>1, <1>3 DEF JobTypes
<1> HIDE DEF left
<1>6. job'.code = job.code /\ job'.left = left BY <1>1, <1>2 DEF JobTypes, left
<1>7. JobTypes' BY <1>1, <1>2, <1>4, <1>5 DEF JobTypes, left
<1>8. collected'[job.code] = n /\ \A c \in Codes \ {job.code} : collected'[c] = collected[c]
  BY <1>1, <1>2, <1>5 DEF StoreTypes
<1>9. StoreTypes' BY <1>1, <1>2, <1>3, <1>5 DEF StoreTypes
<1>10. page' \in [Ends -> Phases] /\ page'[Source] = "sending" /\ page'[Host] = page[Host]
  BY <1>1, <1>3, Shown, TheEnds DEF Phases
<1>11. PageTypes' BY <1>1, <1>3, <1>10 DEF PageTypes
<1>12. ServerTypes' /\ MailTypes' /\ LinkTypes' /\ WireTypes' /\ CountTypes'
  BY <1>1, <1>3, Frames DEF history
<1>13. Types' BY <1>7, <1>9, <1>11, <1>12, TypesFrom
<1>14. Posts /\ Ages BY <1>1, <1>3, Unposted, Unaged DEF server
<1>15. Conduit' BY <1>1, <1>3 DEF Conduit
<1>16. Ending' BY <1>4, <1>6 DEF Ending
<1>17. Timed' /\ StallTimerRuns'
  <2>1. Ticks BY <1>3, <1>10 DEF Ticks, history
  <2> QED BY <2>1, TimerTicks
<1>18. AckedOnce'
  <2>1. Traces BY <1>3, <1>6 DEF Traces
  <2> QED BY <2>1, <1>1, <1>14, AcksKept
<1>19. \A c : Final(c)' <=> Final(c) BY <1>3 DEF Final
<1>20. Finished' BY <1>1, <1>3, <1>6, <1>19 DEF Finished
<1>21. \A c \in Codes : Final(c) => collected'[c] = collected[c] BY <1>1, <1>8 DEF Finished
<1>22. Complete'
  <2>1. AllIn(job.code, received \cup Range(pipe) \cup Range(job.left))'
    <3>1. n # None BY NoCount
    <3> QED BY <3>1, <1>4, <1>6, <1>8 DEF AllIn
  <2>2. ASSUME NEW k \in DOMAIN pipe', pipe'[k] = Done
        PROVE  AllIn(link[Host].peer, received \cup {pipe[i] : i \in 1 .. k - 1})'
    <3>1. Done \in Range(pipe) BY <2>2, <1>3 DEF Range
    <3>2. link[Host].peer \in Codes BY <3>1, <1>1, InPipe, PipeIs
    <3>3. collected'[link[Host].peer] = collected[link[Host].peer]
      BY <3>1, <3>2, <1>21 DEF Final
    <3>4. AllIn(link[Host].peer, received \cup {pipe[i] : i \in 1 .. k - 1})
      BY <2>2, <1>1, <1>3 DEF Complete
    <3> QED BY <3>3, <3>4, <1>3 DEF AllIn
  <2>3. applying'.pc # "no" => AllIn(applying.of, applying.items)'
    <3>1. applying.pc # "no" => collected'[applying.of] = collected[applying.of]
      BY <1>1, <1>21 DEF Final, StoreTypes
    <3> QED BY <3>1, <1>1, <1>3 DEF Complete, AllIn
  <2> QED BY <2>1, <2>2, <2>3, <1>1, <1>3 DEF Complete
<1>23. OneJoin'
  <2>1. Settles
    BY <1>3, <1>5, <1>10, <1>14 DEF Settles, Sourcing, server, history, Applying
  <2> QED BY <2>1, <1>1, JoinSettles
<1>24. RestoredIsComplete'
  <2>1. applying.pc = "shown" => collected'[applying.of] = collected[applying.of]
    BY <1>1, <1>21 DEF Final, StoreTypes
  <2> QED BY <2>1, <1>1, <1>3, <1>10 DEF RestoredIsComplete
<1> QED
  BY <1>13, <1>15, <1>16, <1>17, <1>18, <1>20, <1>22, <1>23, <1>24, InvFrom


\* What a send puts on the channel.
LEMMA CarriedIs ==
  ASSUME Types, Conduit, Ending, Sending
  PROVE  /\ job.left \in Seq(0 .. Collect) /\ job.left # <<>>
         /\ Head(job.left) \in Range(job.left) /\ Head(job.left) \in 0 .. Done
         /\ Head(job.left) = Done => Range(job.left) = {Done}
         /\ \A k \in DOMAIN Tail(job.left) :
              /\ Tail(job.left)[k] # Collect
              /\ Tail(job.left)[k] = Done <=> k = Len(Tail(job.left))
         /\ Range(job.left) = {Head(job.left)} \cup Range(Tail(job.left))
         /\ Tail(job.left) \in Seq(0 .. Collect)
         /\ pipe \in Seq(0 .. Done) /\ DOMAIN pipe = 1 .. Len(pipe) /\ Len(pipe) \in Nat
         /\ Carried \in Seq(0 .. Done)
         /\ \A k \in DOMAIN pipe : k \in DOMAIN Carried /\ Carried[k] = pipe[k]
         /\ \A k \in DOMAIN Carried : k \in DOMAIN pipe \/
              (channel = "open" /\ HostLive /\ k = Len(pipe) + 1 /\ Carried[k] = Head(job.left))
         /\ channel = "open" /\ HostLive => Range(Carried) = Range(pipe) \cup {Head(job.left)}
         /\ Range(Carried) \subseteq Range(pipe) \cup {Head(job.left)}
         /\ Carried # <<>> => channel # "none" /\ link[Host].open
<1>1. /\ job.left \in Seq(0 .. Collect) /\ job.left # <<>> /\ Head(job.left) # Collect
      /\ pipe \in Seq(0 .. Done)
  BY PartsOf DEF JobTypes, WireTypes, Sending
<1> DEFINE q == job.left  h == Head(job.left)  S == 0 .. Done  T == 0 .. Collect
<1>2. /\ h \in T /\ Tail(q) \in Seq(T) /\ Len(Tail(q)) + 1 = Len(q) /\ h = q[1]
      /\ 1 \in DOMAIN q /\ DOMAIN q = 1 .. Len(q) /\ Len(q) \in Nat
      /\ DOMAIN Tail(q) = 1 .. Len(q) - 1
      /\ \A k \in DOMAIN Tail(q) : k + 1 \in DOMAIN q /\ Tail(q)[k] = q[k + 1]
      /\ Range(q) = {h} \cup Range(Tail(q))
  <2> HIDE DEF T
  <2> QED BY <1>1, HeadAndTail DEF T
<1>3. h \in S /\ Done \in Nat /\ Collect \in Nat
  <2>1. h \in 0 .. Collect /\ h # Collect BY <1>1, <1>2
  <2> QED BY <2>1, Numbers
<1>4. \A k \in DOMAIN q : q[k] # Collect /\ (q[k] = Done <=> k = Len(q))
  <2>1. q # <<Collect>> BY <1>1
  <2> QED BY <2>1 DEF Ending
<1>5. h \in Range(q) BY <1>2
<1> HIDE DEF S, T
<1>6. ASSUME h = Done PROVE Range(q) = {Done}
  <2>1. Len(q) = 1 BY <1>6, <1>2, <1>4
  <2>2. \A k \in DOMAIN q : k = 1 BY <2>1, <1>2
  <2>3. \A x \in Range(q) : x = Done BY <2>2, <1>2, <1>6 DEF Range
  <2> QED BY <2>3, <1>5, <1>6
<1>7. ASSUME NEW k \in DOMAIN Tail(q)
      PROVE  Tail(q)[k] # Collect /\ (Tail(q)[k] = Done <=> k = Len(Tail(q)))
  <2>1. k + 1 \in DOMAIN q /\ Tail(q)[k] = q[k + 1] BY <1>2, <1>7
  <2>2. Tail(q)[k] # Collect /\ (Tail(q)[k] = Done <=> k + 1 = Len(q)) BY <2>1, <1>4
  <2>3. k + 1 = Len(q) <=> k = Len(Tail(q)) BY <1>2, <1>7
  <2> QED BY <2>2, <2>3
<1>8. DOMAIN pipe = 1 .. Len(pipe) /\ Len(pipe) \in Nat BY <1>1, LenProperties
<1>9. CASE channel = "open" /\ HostLive
  <2>1. Carried = Append(pipe, h) BY <1>9 DEF Carried
  <2>2. /\ Carried \in Seq(S) /\ DOMAIN Carried = 1 .. Len(pipe) + 1
        /\ \A k \in 1 .. Len(pipe) : Carried[k] = pipe[k]
        /\ Carried[Len(pipe) + 1] = h
        /\ Range(Carried) = Range(pipe) \cup {h}
    BY <2>1, <1>1, <1>3, RangeAppend DEF S
  <2>3. \A k \in DOMAIN pipe : k \in DOMAIN Carried /\ Carried[k] = pipe[k] BY <2>2, <1>8
  <2>4. \A k \in DOMAIN Carried : k \in DOMAIN pipe \/ (k = Len(pipe) + 1 /\ Carried[k] = h)
    BY <2>2, <1>8
  <2>5. channel # "none" /\ link[Host].open BY <1>9 DEF HostLive
  <2> HIDE DEF q, h
  <2> QED BY <1>9, <1>1, <1>2, <1>3, <1>5, <1>6, <1>7, <1>8, <2>2, <2>3, <2>4, <2>5 DEF S, T, q, h
<1>10. CASE ~(channel = "open" /\ HostLive)
  <2>1. Carried = pipe BY <1>10 DEF Carried
  <2>2. Carried # <<>> => channel # "none" /\ link[Host].open BY <2>1 DEF Conduit
  <2> HIDE DEF q, h
  <2> QED BY <1>10, <1>1, <1>2, <1>3, <1>5, <1>6, <1>7, <1>8, <2>1, <2>2 DEF S, T, q, h
<1> QED BY <1>9, <1>10


LEMMA SendStep ==
  ASSUME Inv, SourceSend PROVE Inv'
<1>1. /\ Types /\ Conduit /\ Ending /\ Finished /\ Complete /\ AckedOnce /\ OneJoin
      /\ JobTypes /\ WireTypes /\ PageTypes
  BY InvIs, PartsOf
<1> DEFINE h == Head(job.left)  t == Tail(job.left)
<1>2. /\ Sending /\ SourceLive /\ h # Done /\ pipe' = Carried /\ job' = [job EXCEPT !.left = t]
      /\ UNCHANGED <<server, inbox, code, link, channel, received, applying, collected, imported,
                     history>>
      /\ UNCHANGED page \/ Show(Source, "sending")
  BY DEF SourceSend
<1>3. /\ job.left # <<>> /\ h \in Range(job.left)
      /\ \A k \in DOMAIN t : t[k] # Collect /\ (t[k] = Done <=> k = Len(t))
      /\ Range(job.left) = {h} \cup Range(t) /\ t \in Seq(0 .. Collect)
      /\ pipe \in Seq(0 .. Done) /\ DOMAIN pipe = 1 .. Len(pipe) /\ Len(pipe) \in Nat
      /\ Carried \in Seq(0 .. Done)
      /\ \A k \in DOMAIN pipe : k \in DOMAIN Carried /\ Carried[k] = pipe[k]
      /\ \A k \in DOMAIN Carried : k \in DOMAIN pipe \/ Carried[k] = h
      /\ channel = "open" /\ HostLive => Range(Carried) = Range(pipe) \cup {h}
      /\ Range(Carried) \subseteq Range(pipe) \cup {h}
      /\ Carried # <<>> => channel # "none" /\ link[Host].open
  BY <1>1, <1>2, CarriedIs
<1>4. job'.code = job.code /\ job'.left = t BY <1>1, <1>2 DEF JobTypes
<1> HIDE DEF h, t
<1>5. JobTypes'
  <2>1. job.code \in Codes BY <1>1, <1>3 DEF JobTypes
  <2>2. job' \in [code : Codes \cup {None}, left : Seq(0 .. Collect)]
    BY <1>1, <1>2, <1>3 DEF JobTypes
  <2> QED BY <2>1, <2>2, <1>4 DEF JobTypes
<1>6. WireTypes' BY <1>1, <1>2, <1>3 DEF WireTypes
<1>7. /\ page' \in [Ends -> Phases] /\ page'[Host] = page[Host]
      /\ page'[Source] \in {page[Source], "sending"}
  <2>1. CASE UNCHANGED page BY <2>1, <1>1 DEF PageTypes
  <2>2. CASE Show(Source, "sending") BY <2>2, <1>1, Shown, TheEnds DEF Phases
  <2> QED BY <2>1, <2>2, <1>2
<1>8. PageTypes' BY <1>1, <1>2, <1>7 DEF PageTypes
<1>9. ServerTypes' /\ MailTypes' /\ LinkTypes' /\ StoreTypes' /\ CountTypes'
  BY <1>1, <1>2, Frames DEF history
<1>10. Types' BY <1>5, <1>6, <1>8, <1>9, TypesFrom
<1>11. Posts /\ Ages BY <1>1, <1>2, Unposted, Unaged DEF server
<1>12. Conduit' BY <1>1, <1>2, <1>3 DEF Conduit
<1>13. Ending' BY <1>3, <1>4 DEF Ending
<1>14. Timed' /\ StallTimerRuns'
  <2>1. Ticks BY <1>2, <1>7 DEF Ticks, history
  <2> QED BY <2>1, TimerTicks
<1>15. AckedOnce'
  <2>1. Traces BY <1>2, <1>4 DEF Traces
  <2> QED BY <2>1, <1>1, <1>11, AcksKept
<1>16. Done \in Range(pipe') => Done \in Range(pipe) BY <1>2, <1>3 DEF h
<1>17. Finished'
  <2>1. \A c : Final(c)' => Final(c) BY <1>2, <1>16 DEF Final
  <2> QED BY <2>1, <1>1, <1>2, <1>4 DEF Finished
<1>18. Complete'
  <2>1. ASSUME channel' = "open", HostLive'
        PROVE  AllIn(job.code, received \cup Range(pipe) \cup Range(job.left))'
    <3>1. channel = "open" /\ HostLive BY <2>1, <1>2, <1>4 DEF HostLive
    <3>2. AllIn(job.code, received \cup Range(pipe) \cup Range(job.left))
      BY <3>1, <1>1, <1>2 DEF Complete
    <3>3. Range(pipe') \cup Range(t) = Range(pipe) \cup Range(job.left) BY <3>1, <1>2, <1>3
    <3> QED BY <3>2, <3>3, <1>2, <1>4 DEF AllIn
  <2>2. ASSUME NEW k \in DOMAIN pipe', pipe'[k] = Done
        PROVE  AllIn(link[Host].peer, received \cup {pipe[i] : i \in 1 .. k - 1})'
    <3>1. k \in DOMAIN pipe /\ pipe[k] = Done BY <2>2, <1>2, <1>3 DEF h
    <3>2. \A i \in 1 .. k - 1 : i \in DOMAIN pipe BY <3>1, <1>3
    <3>3. {pipe'[i] : i \in 1 .. k - 1} = {pipe[i] : i \in 1 .. k - 1} BY <3>2, <1>2, <1>3
    <3>4. AllIn(link[Host].peer, received \cup {pipe[i] : i \in 1 .. k - 1})
      BY <3>1, <1>1 DEF Complete
    <3> QED BY <3>3, <3>4, <1>2 DEF AllIn
  <2>3. /\ applying'.pc # "no" => AllIn(applying.of, applying.items)'
        /\ applying'.pc = "no" => applying'.of = None
    BY <1>1, <1>2 DEF Complete, AllIn
  <2> QED BY <2>1, <2>2, <2>3 DEF Complete
<1>19. OneJoin'
  <2>1. Settles
    BY <1>2, <1>3, <1>7, <1>11, <1>16 DEF Settles, Sourcing, server, history, Applying
  <2> QED BY <2>1, <1>1, JoinSettles
<1>20. RestoredIsComplete'
  <2>1. Restored BY <1>2, <1>7 DEF Restored
  <2> QED BY <2>1, <1>2, StandsRestored
<1> QED
  BY <1>10, <1>12, <1>13, <1>14, <1>15, <1>17, <1>18, <1>19, <1>20, InvFrom

\* "done" is the last that is left to send: all the rest has left, and nothing was lost.
LEMMA SentStep ==
  ASSUME Inv, SourceSent PROVE Inv'
<1>1. /\ Types /\ Conduit /\ Ending /\ Finished /\ Complete /\ AckedOnce /\ OneJoin
      /\ WireTypes /\ PageTypes
  BY InvIs, PartsOf
<1>2. PICK n \in 0 .. Len(Carried) : pipe' = SubSeq(Carried, 1, n) BY DEF SourceSent
<1>3. /\ Sending /\ SourceLive /\ Head(job.left) = Done /\ job' = NoJob /\ Show(Source, "done")
      /\ link' = [link EXCEPT ![Source].open = FALSE, ![Source].armed = FALSE]
      /\ UNCHANGED <<server, inbox, code, channel, received, applying, collected, imported,
                     history>>
  BY DEF SourceSent
<1>4. /\ job.left # <<>> /\ Range(job.left) = {Done}
      /\ pipe \in Seq(0 .. Done) /\ DOMAIN pipe = 1 .. Len(pipe) /\ Len(pipe) \in Nat
      /\ Carried \in Seq(0 .. Done)
      /\ \A k \in DOMAIN pipe : k \in DOMAIN Carried /\ Carried[k] = pipe[k]
      /\ \A k \in DOMAIN Carried :
           k \in DOMAIN pipe \/ (channel = "open" /\ HostLive /\ k = Len(pipe) + 1)
      /\ Carried # <<>> => channel # "none" /\ link[Host].open
  BY <1>1, <1>3, CarriedIs
<1>5. /\ pipe' \in Seq(0 .. Done) /\ DOMAIN pipe' = 1 .. n /\ Len(pipe') = n /\ n \in Nat
      /\ \A k \in 1 .. n : k \in DOMAIN Carried /\ pipe'[k] = Carried[k]
  <2> DEFINE S == 0 .. Done  q == Carried  r == pipe'
  <2>1. q \in Seq(S) /\ n \in 0 .. Len(q) /\ r = SubSeq(q, 1, n) BY <1>2, <1>4
  <2> HIDE DEF S, q, r
  <2>2. /\ r \in Seq(S) /\ Len(r) = n /\ DOMAIN r = 1 .. n
        /\ \A k \in 1 .. n : k \in DOMAIN q /\ r[k] = q[k]
    BY <2>1, CutIs
  <2>3. n \in Nat BY <2>1, LenProperties
  <2> QED BY <2>2, <2>3 DEF S, q, r
<1>6. /\ LinkTypes' /\ Fading /\ ~link'[Source].open /\ link'[Host] = link[Host]
  BY <1>1, <1>3, TheEnds, ClosedIs
<1>7. link'[Source].code = link[Source].code BY <1>6, TheEnds DEF Fading, Dims
<1>8. job'.code = None /\ job'.left = <<>> /\ DOMAIN job'.left = {} BY <1>3 DEF NoJob
<1>9. JobTypes'
  <2>1. <<>> \in Seq(0 .. Collect) BY EmptySeq
  <2> QED BY <2>1, <1>3, <1>8 DEF JobTypes, NoJob
<1>10. WireTypes' BY <1>1, <1>3, <1>5 DEF WireTypes
<1>11. page' \in [Ends -> Phases] /\ page'[Source] = "done" /\ page'[Host] = page[Host]
  BY <1>1, <1>3, Shown, TheEnds DEF Phases
<1>12. PageTypes' BY <1>1, <1>3, <1>11 DEF PageTypes
<1>13. ServerTypes' /\ MailTypes' /\ StoreTypes' /\ CountTypes'
  BY <1>1, <1>3, Frames DEF history
<1>14. Types' BY <1>6, <1>9, <1>10, <1>12, <1>13, TypesFrom
<1>15. Posts /\ Ages BY <1>1, <1>3, Unposted, Unaged DEF server
<1>16. Conduit'
  <2>1. pipe' # <<>> => Carried # <<>>
    <3>1. Carried = <<>> => n = 0 BY <1>2, <1>5
    <3>2. n = 0 => pipe' = <<>> BY <1>5, EmptySeq
    <3> QED BY <3>1, <3>2
  <2> QED BY <2>1, <1>1, <1>3, <1>4, <1>6 DEF Conduit
<1>17. Ending' BY <1>8 DEF Ending
<1>18. Timed' /\ StallTimerRuns'
  <2>1. Ticks BY <1>3, <1>6, <1>11 DEF Ticks, history
  <2> QED BY <2>1, TimerTicks
<1>19. AckedOnce'
  <2>1. Traces BY <1>3, <1>6, <1>7, <1>8 DEF Traces
  <2> QED BY <2>1, <1>1, <1>15, AcksKept
<1>20. Finished' BY <1>6, <1>8, TheEnds DEF Finished
<1>21. Complete'
  <2>1. ~Sending' BY <1>8 DEF Sending
  <2>2. ASSUME NEW k \in DOMAIN pipe', pipe'[k] = Done
        PROVE  AllIn(link[Host].peer, received \cup {pipe[i] : i \in 1 .. k - 1})'
    <3> DEFINE before == {pipe[i] : i \in 1 .. k - 1}
    <3>1. k \in DOMAIN Carried /\ Carried[k] = Done BY <2>2, <1>5
    <3>2. \A i \in 1 .. k - 1 : i \in DOMAIN pipe /\ pipe'[i] = pipe[i]
      <4>1. ASSUME NEW i \in 1 .. k - 1 PROVE i \in DOMAIN pipe /\ pipe'[i] = pipe[i]
        <5>1. i \in 1 .. n /\ i + 1 <= k /\ k \in Nat BY <2>2, <4>1, <1>5
        <5>2. k \in DOMAIN pipe \/ k = Len(pipe) + 1 BY <3>1, <1>4
        <5>3. i \in DOMAIN pipe BY <5>1, <5>2, <1>4
        <5> QED BY <5>1, <5>3, <1>4, <1>5
      <4> QED BY <4>1
    <3>3. {pipe'[i] : i \in 1 .. k - 1} = before BY <3>2
    <3>4. AllIn(link[Host].peer, received \cup before)
      <4>1. CASE k \in DOMAIN pipe BY <4>1, <3>1, <1>1, <1>4 DEF Complete
      <4>2. CASE channel = "open" /\ HostLive /\ k = Len(pipe) + 1
        <5>1. AllIn(job.code, received \cup Range(pipe) \cup {Done})
          BY <4>2, <1>1, <1>3, <1>4 DEF Complete
        <5>2. before = Range(pipe) BY <4>2, <1>4 DEF Range
        <5>3. link[Host].peer = job.code /\ job.code \in Codes
          BY <4>2, <1>1, <1>4, PartsOf DEF HostLive, JobTypes
        <5>4. collected[job.code] \in 0 .. MaxChunks
          BY <5>1, <5>3, <1>1, PartsOf DEF StoreTypes, AllIn
        <5>5. Done \notin 1 .. collected[job.code] BY <5>4, Numbers
        <5> HIDE DEF before
        <5> QED BY <5>1, <5>2, <5>3, <5>5 DEF AllIn
      <4> QED BY <4>1, <4>2, <3>1, <1>4
    <3> QED BY <3>3, <3>4, <1>3, <1>6 DEF AllIn
  <2>3. /\ applying'.pc # "no" => AllIn(applying.of, applying.items)'
        /\ applying'.pc = "no" => applying'.of = None
    BY <1>1, <1>3 DEF Complete, AllIn
  <2> QED BY <2>1, <2>2, <2>3 DEF Complete
<1>22. OneJoin'
  <2> SUFFICES ASSUME joins' <= 1 PROVE OneJoin' BY DEF OneJoin
  <2>1. joins <= 1 /\ UNCHANGED <<joins, asked, cancel, orphan, inbox>>
    BY <1>3 DEF history, server
  <2>2. Sourcing /\ link[Source].open BY <1>3, <1>4 DEF Sourcing, SourceLive
  <2>3. ~Unlinked /\ ~CalledOff BY <2>1, <2>2, <1>1 DEF OneJoin
  <2>4. ~Sourcing' BY <1>6, <1>8, <1>11 DEF Sourcing
  <2>5. /\ Told(Host, "peer-joined")' <=> Told(Host, "peer-joined")
        /\ Told(Source, "ack")' <=> Told(Source, "ack")
        /\ Told(Host, "cancelled")' <=> Told(Host, "cancelled")
        /\ Alone(Host, "peer-joined")' <=> Alone(Host, "peer-joined")
        /\ Alone(Source, "ack")' <=> Alone(Source, "ack")
    BY <2>1 DEF Told, Alone
  <2>6. ~Unlinked' /\ ~CalledOff' BY <2>1, <2>3, <2>5 DEF Unlinked, CalledOff
  <2>7. Unheard' <=> Unheard BY <2>1, <2>5 DEF Unheard
  <2>8. Unheard' => ~link'[Host].open /\ ~Applying' /\ page'[Host] # "done"
    BY <2>1, <2>7, <1>1, <1>3, <1>6, <1>11 DEF OneJoin, Applying
  <2> QED BY <2>1, <2>4, <2>5, <2>6, <2>8, <1>1 DEF OneJoin
<1>23. RestoredIsComplete'
  <2>1. Restored BY <1>3, <1>11 DEF Restored
  <2> QED BY <2>1, <1>3, StandsRestored
<1> QED
  BY <1>14, <1>16, <1>17, <1>18, <1>19, <1>20, <1>21, <1>22, <1>23, InvFrom


\* What is received is what was on the channel before "done".
LEMMA MessageStep ==
  ASSUME Inv, HostMessage PROVE Inv'
<1>1. /\ Types /\ Conduit /\ Ending /\ Timed /\ Finished /\ Complete /\ AckedOnce /\ OneJoin
      /\ WireTypes /\ PageTypes /\ StoreTypes
  BY InvIs, PartsOf
<1> DEFINE h == Head(pipe)  c == link[Host].peer
<1>2. /\ link[Host].open /\ pipe # <<>> /\ pipe' = Tail(pipe)
      /\ received' = received \cup Items(h) /\ Show(Host, "transferring")
      /\ \/ h # Done /\ applying' = applying
         \/ h = Done /\ applying' = [pc |-> "yes", of |-> c, items |-> received]
      /\ UNCHANGED <<server, inbox, code, link, channel, job, collected, imported, history>>
  BY DEF HostMessage
<1>3. /\ h \in 0 .. Done /\ pipe' \in Seq(0 .. Done) /\ h = pipe[1] /\ 1 \in DOMAIN pipe
      /\ \A k \in DOMAIN pipe' : k + 1 \in DOMAIN pipe /\ pipe'[k] = pipe[k + 1]
      /\ DOMAIN pipe' = 1 .. Len(pipe) - 1 /\ Len(pipe) \in Nat
      /\ Range(pipe) = {h} \cup Range(pipe')
  <2> DEFINE S == 0 .. Done
  <2>1. pipe \in Seq(S) BY <1>1 DEF WireTypes
  <2> HIDE DEF S
  <2> QED BY <2>1, <1>2, HeadAndTail DEF S
<1>4. c \in Codes /\ channel # "none" BY <1>1, <1>2, PipeIs
<1> HIDE DEF h, c
<1>5. received' \subseteq 1 .. MaxChunks /\ received \subseteq received'
      /\ (h \in 1 .. MaxChunks => h \in received')
  BY <1>1, <1>2 DEF WireTypes, Items
<1>6. WireTypes' BY <1>1, <1>2, <1>3, <1>5 DEF WireTypes
<1>7. StoreTypes'
  <2>1. CASE applying' = applying BY <2>1, <1>1, <1>2 DEF StoreTypes
  <2>2. CASE applying' = [pc |-> "yes", of |-> c, items |-> received]
    <3>1. applying' \in [pc : {"no", "yes", "detached", "shown"}, of : Codes \cup {None},
                        items : SUBSET (1 .. MaxChunks)]
      BY <2>2, <1>1, <1>4 DEF WireTypes
    <3>2. applying'.of \in Codes BY <2>2, <1>4
    <3> QED BY <3>1, <3>2, <1>1, <1>2 DEF StoreTypes
  <2> QED BY <2>1, <2>2, <1>2
<1>8. page' \in [Ends -> Phases] /\ page'[Host] = "transferring" /\ page'[Source] = page[Source]
  BY <1>1, <1>2, Shown, TheEnds DEF Phases
<1>9. PageTypes' BY <1>1, <1>2, <1>8 DEF PageTypes
<1>10. ServerTypes' /\ MailTypes' /\ LinkTypes' /\ JobTypes' /\ CountTypes'
  BY <1>1, <1>2, Frames DEF history
<1>11. Types' BY <1>6, <1>7, <1>9, <1>10, TypesFrom
<1>12. Posts /\ Ages BY <1>1, <1>2, Unposted, Unaged DEF server
<1>13. Conduit' BY <1>1, <1>2, <1>4 DEF Conduit
<1>14. Ending' BY <1>1, <1>2 DEF Ending
<1>15. Timed' /\ StallTimerRuns' /\ RestoredIsComplete'
  BY <1>1, <1>2, <1>8 DEF Timed, StallTimerRuns, RestoredIsComplete
<1>16. AckedOnce'
  <2>1. Traces BY <1>2 DEF Traces, c
  <2> QED BY <2>1, <1>1, <1>12, AcksKept
<1>17. h = Done => Done \in Range(pipe) BY <1>3
<1>18. Finished'
  <2>1. \A x : Final(x)' => Final(x) BY <1>2, <1>3, <1>17 DEF Final, c
  <2> QED BY <2>1, <1>1, <1>2 DEF Finished
<1>19. Complete'
  <2>1. ASSUME channel' = "open", Sending', SourceLive', HostLive'
        PROVE  AllIn(job.code, received \cup Range(pipe) \cup Range(job.left))'
    <3>1. channel = "open" /\ Sending /\ SourceLive /\ HostLive
      BY <2>1, <1>2 DEF Sending, SourceLive, HostLive
    <3>2. AllIn(job.code, received \cup Range(pipe) \cup Range(job.left))
      BY <3>1, <1>1 DEF Complete
    <3>3. job.code \in Codes BY <1>1, <3>1, PartsOf DEF JobTypes, Sending
    <3>4. collected[job.code] \in 0 .. MaxChunks
      BY <3>2, <3>3, <1>1 DEF StoreTypes, AllIn
    <3>5. 1 .. collected[job.code] \subseteq 1 .. MaxChunks BY <3>4, Numbers
    <3> QED BY <3>2, <3>5, <1>2, <1>3, <1>5 DEF AllIn
  <2>2. ASSUME NEW k \in DOMAIN pipe', pipe'[k] = Done
        PROVE  AllIn(link[Host].peer, received \cup {pipe[i] : i \in 1 .. k - 1})'
    <3>1. k + 1 \in DOMAIN pipe /\ pipe[k + 1] = Done /\ k \in Nat /\ (k + 1) - 1 = k
      <4>1. k \in 1 .. Len(pipe) - 1 BY <2>2, <1>3
      <4>2. k \in Nat /\ (k + 1) - 1 = k BY <4>1
      <4>3. k + 1 \in DOMAIN pipe /\ pipe'[k] = pipe[k + 1] BY <2>2, <1>3
      <4> QED BY <4>2, <4>3, <2>2
    <3>2. AllIn(c, received \cup {pipe[i] : i \in 1 .. k}) BY <3>1, <1>1 DEF Complete, c
    <3>3. collected[c] \in 0 .. MaxChunks BY <3>2, <1>1, <1>4 DEF StoreTypes, AllIn
    <3>4. ASSUME NEW x \in 1 .. collected[c]
          PROVE  x \in received' \cup {pipe'[i] : i \in 1 .. k - 1}
      <4>1. x \in 1 .. MaxChunks BY <3>3, <3>4, Numbers
      <4>2. CASE x \in received BY <4>2, <1>5
      <4>3. CASE \E i \in 1 .. k : x = pipe[i]
        <5>1. PICK i \in 1 .. k : x = pipe[i] BY <4>3
        <5>2. CASE i = 1 BY <5>1, <5>2, <4>1, <1>3, <1>5
        <5>3. CASE i # 1
          <6>1. i - 1 \in 1 .. k - 1 /\ i - 1 \in DOMAIN pipe' /\ (i - 1) + 1 = i
            BY <5>1, <5>3, <3>1, <2>2, <1>3
          <6>2. pipe'[i - 1] = x BY <6>1, <5>1, <1>3
          <6> QED BY <6>1, <6>2
        <5> QED BY <5>2, <5>3
      <4> QED BY <4>2, <4>3, <3>2, <3>4 DEF AllIn
    <3> QED BY <3>2, <3>4, <1>2 DEF AllIn, c
  <2>3. /\ applying'.pc # "no" => AllIn(applying.of, applying.items)'
        /\ applying'.pc = "no" => applying'.of = None
    <3>1. CASE h # Done /\ applying' = applying
      BY <3>1, <1>1, <1>2 DEF Complete, AllIn
    <3>2. CASE h = Done /\ applying' = [pc |-> "yes", of |-> c, items |-> received]
      <4>1. AllIn(c, received \cup {pipe[i] : i \in 1 .. 1 - 1})
        BY <3>2, <1>1, <1>3 DEF Complete, c
      <4>2. {pipe[i] : i \in 1 .. 1 - 1} = {} OBVIOUS
      <4> QED BY <4>1, <4>2, <3>2, <1>2 DEF AllIn
    <3> QED BY <3>1, <3>2, <1>2
  <2> QED BY <2>1, <2>2, <2>3 DEF Complete
<1>20. OneJoin'
  <2> SUFFICES ASSUME joins' <= 1 PROVE OneJoin' BY DEF OneJoin
  <2>1. joins <= 1 /\ UNCHANGED <<joins, asked, cancel, orphan, inbox, link, job>>
    BY <1>2 DEF history, server
  <2>2. /\ Told(Host, "peer-joined")' <=> Told(Host, "peer-joined")
        /\ Told(Source, "ack")' <=> Told(Source, "ack")
        /\ Told(Host, "cancelled")' <=> Told(Host, "cancelled")
        /\ Alone(Host, "peer-joined")' <=> Alone(Host, "peer-joined")
        /\ Alone(Source, "ack")' <=> Alone(Source, "ack")
    BY <2>1 DEF Told, Alone
  <2>3. (Unlinked' <=> Unlinked) /\ (CalledOff' <=> CalledOff) /\ (Unheard' <=> Unheard)
    BY <2>1, <2>2 DEF Unlinked, CalledOff, Unheard
  <2>4. Sourcing' <=> Sourcing BY <2>1, <1>8 DEF Sourcing
  <2>5. ~Unheard BY <2>1, <1>1, <1>2 DEF OneJoin
  <2>6. Applying' => Applying \/ h = Done BY <1>2 DEF Applying
  <2>7. Ended' => Ended BY <2>6, <1>3, <1>8, <1>17 DEF Ended
  <2> QED BY <2>1, <2>2, <2>3, <2>4, <2>5, <2>7, <1>1 DEF OneJoin
<1> QED BY <1>11, <1>13, <1>14, <1>15, <1>16, <1>18, <1>19, <1>20, InvFrom



-----------------------------------------------------------------------------
(* The theorems                                                             *)

LEMMA InvInit == Init => Inv
<1> SUFFICES ASSUME Init PROVE Inv OBVIOUS
<1>1. /\ session = [c \in Codes |-> None] /\ used = {} /\ asked = None
      /\ cancel = [d \in Ends |-> NoCancel] /\ joins = 0
      /\ inbox = [d \in Ends |-> <<>>]
      /\ page = [d \in Ends |-> "idle"] /\ code = [d \in Ends |-> None]
      /\ link = [d \in Ends |-> Closed]
      /\ channel = "none" /\ pipe = <<>> /\ job = NoJob /\ received = {} /\ applying = NotApplying
      /\ collected = [c \in Codes |-> None] /\ imported = {}
      /\ upsets = 0 /\ lost = FALSE /\ orphan = "none"
  BY DEF Init, InitSessions
<1>2. ServerTypes BY <1>1 DEF ServerTypes, NoCancel
<1>3. \A d \in Ends : inbox[d] = <<>> /\ Range(inbox[d]) = {} /\ DOMAIN inbox[d] = {}
  BY <1>1 DEF Range
<1>4. MailTypes
  <2>1. <<>> \in Seq(Events) BY EmptySeq
  <2> QED BY <2>1, <1>1, <1>3 DEF MailTypes
<1>5. PageTypes BY <1>1 DEF PageTypes, Phases
<1>6. \A d \in Ends : link[d] = Closed /\ Closed \in Links BY <1>1 DEF Closed, Links
<1>7. LinkTypes BY <1>1, <1>6 DEF LinkTypes, Closed
<1>8. WireTypes
  <2>1. <<>> \in Seq(0 .. Done) BY EmptySeq
  <2> QED BY <2>1, <1>1 DEF WireTypes
<1>9. JobTypes
  <2>1. <<>> \in Seq(0 .. Collect) BY EmptySeq
  <2> QED BY <2>1, <1>1 DEF JobTypes, NoJob
<1>10. StoreTypes BY <1>1 DEF StoreTypes, NotApplying
<1>11. CountTypes
  <2>1. 0 \in 0 .. MaxJoins /\ 0 \in 0 .. MaxUpsets BY Numbers
  <2> QED BY <2>1, <1>1 DEF CountTypes
<1>12. Types
  BY <1>2, <1>4, <1>5, <1>7, <1>8, <1>9, <1>10, <1>11, TypesAreParts DEF Parts
<1>13. /\ ~link[Host].open /\ ~link[Source].open
       /\ link[Host].peer = None /\ link[Source].code = None
       /\ page[Host] = "idle" /\ page[Source] = "idle" /\ cancel[Source] = NoCancel
  BY <1>1, <1>6, TheEnds DEF Closed
<1>14. Range(pipe) = {} /\ DOMAIN pipe = {} BY <1>1 DEF Range
<1>15. job.left = <<>> /\ job.code = None /\ DOMAIN job.left = {} BY <1>1 DEF NoJob
<1>16. applying.pc = "no" /\ applying.of = None BY <1>1 DEF NotApplying
<1>17. Conduit BY <1>1 DEF Conduit
<1>18. Ending BY <1>15 DEF Ending
<1>19. Timed /\ RestoredIsComplete /\ StallTimerRuns
  BY <1>13 DEF Timed, RestoredIsComplete, StallTimerRuns
<1>20. AckedOnce
  BY <1>3, <1>13, <1>15, <1>16, TheEnds DEF AckedOnce, Traceless
<1>21. Finished BY <1>14, <1>16, TheEnds DEF Finished, Final
<1>22. Complete
  <2>1. ~Sending BY <1>15 DEF Sending
  <2> QED BY <2>1, <1>14, <1>16 DEF Complete
<1>23. OneJoin
  <2>1. /\ \A t : ~Told(Host, t) /\ ~Told(Source, t)
        /\ \A t : Alone(Host, t) /\ Alone(Source, t)
    BY <1>3, TheEnds DEF Told, Alone
  <2>2. ~Sourcing /\ ~CalledOff /\ ~Applying /\ ~Ended
    BY <2>1, <1>13, <1>14, <1>15, <1>16 DEF Sourcing, CalledOff, Applying, Ended
  <2> QED BY <2>1, <2>2, <1>1, <1>13 DEF OneJoin
<1> QED
  BY <1>12, <1>17, <1>18, <1>19, <1>20, <1>21, <1>22, <1>23 DEF Inv, IInv

LEMMA InvStep == Inv /\ [Next]_vars => Inv'
<1> SUFFICES ASSUME Inv, [Next]_vars PROVE Inv' OBVIOUS
<1>1. CASE UNCHANGED vars
  <2>1. /\ UNCHANGED <<server, inbox, peers, transfer, history>> BY <1>1 DEF vars
  <2>2. Types BY InvIs
  <2>3. Ages /\ Posts BY <2>1, <2>2, Unaged, Unposted DEF server
  <2>4. ServerTypes' /\ CountTypes' BY <2>1, <2>2, Frames DEF history
  <2> QED BY <2>1, <2>3, <2>4, Offstage DEF server, history
<1>2. CASE Next
  <2>1. CASE ServerStep
    BY <2>1, MatchedStep, JoinRefusedStep, CancelledStep DEF ServerStep
  <2>2. CASE \E d \in Ends : PeerStep(d) \/ Timeout(d)
    BY <2>2, HearSignalStep, SetRemoteStep, SayDescriptionStep, SayCandidateStep, TimeoutStep
    DEF PeerStep
  <2>3. CASE OrphanTimeout BY <2>3, OrphanStep
  <2>4. CASE HostHears BY <2>4, HostJoinedStep, CancelledHeard DEF HostHears
  <2>5. CASE HostWorks BY <2>5, HostStartedStep, MessageStep, AppliedStep DEF HostWorks
  <2>6. CASE HostApplyFails BY <2>6, ApplyFailsStep
  <2>7. CASE SourceWorks
    BY <2>7, HearAckStep, CancelledHeard, OfferFailsStep, CollectedStep, SendStep, SentStep
    DEF SourceWorks
  <2>8. CASE SourceSendFails BY <2>8, SendFailsStep
  <2>9. CASE ChannelOpens BY <2>9, ChannelOpensStep
  <2>10. CASE User
    BY <2>10, HostStartStep, CancelSteps, SourceJoinStep, LeaveStep DEF User
  <2>11. CASE \E d \in Ends : Disconnect(d) \/ Rewire(d) BY <2>11, DisconnectStep, RewireStep
  <2>12. CASE Break BY <2>12, BreakStep
  <2>13. CASE \E c \in Codes : Expire(c) BY <2>13, ExpireStep
  <2> QED
    BY <1>2, <2>1, <2>2, <2>3, <2>4, <2>5, <2>6, <2>7, <2>8, <2>9, <2>10, <2>11, <2>12, <2>13
    DEF Next
<1> QED BY <1>1, <1>2

\* The inductive invariant: what is on the channel and what the source has yet to send
\* are together what it read of its store, as long as nothing was cut; the source is
\* through with a code before the host can be done with it; a code is acked once, to a
\* source that knows nothing of it; after a single join nothing of it comes once it ended.
THEOREM Invariant == Spec => [](Types /\ IInv)
<1>1. Spec => []Inv BY InvInit, InvStep, PTL DEF Spec
<1> QED BY <1>1 DEF Inv

\* Links, queues, the channel's messages, the source's job and the payload that is applied
\* stay of their types in every reachable state.
THEOREM TypeCorrect == Spec => []TypeOK
<1>1. Types /\ IInv => TypeOK BY DEF Types
<1> QED BY <1>1, Invariant, PTL

\* "Done - restored N messages" on the host's page is true: all that collectBackupPayload
\* read on the source is in the host's store, whatever was cut off, cancelled, or left.
THEOREM RestoresAreComplete == Spec => []RestoredIsComplete
<1>1. Types /\ IInv => RestoredIsComplete BY DEF IInv
<1> QED BY <1>1, Invariant, PTL

\* The stall timer of PeerLink runs as long as the host's page shows "connecting" or
\* "Receiving messages", if its socket was never replaced and lost nothing.
THEOREM TimersRun == Spec => []StallTimerRuns
<1>1. Types /\ IInv => StallTimerRuns BY DEF IInv
<1> QED BY <1>1, Invariant, PTL

\* A step changes the page of its own end.
LEMMA ShownElsewhere ==
  ASSUME Types, NEW phase, UNCHANGED page \/ Show(Source, phase) PROVE page'[Host] = page[Host]
BY PartsOf, TheEnds DEF PageTypes, Show

\* What the host's page can do after "done", if only one code was ever joined, is to be left.
LEMMA DoneStep ==
  ASSUME Inv, Next, page[Host] = "done", joins <= 1
  PROVE  page'[Host] \in {"done", "idle"}
<1>1. Types /\ Timed /\ OneJoin /\ PageTypes BY InvIs, PartsOf
<1>2. ~link[Host].armed /\ ~link[Host].open BY <1>1 DEF Timed
<1>3. orphan = "none" /\ ~Unheard /\ ~CalledOff BY <1>1 DEF OneJoin, Ended
<1>4. ~Heard(Host, "peer-joined") /\ ~Heard(Host, "cancelled")
  <2>1. ~Told(Host, "peer-joined") /\ ~Told(Host, "cancelled") BY <1>3 DEF Unheard, CalledOff
  <2>2. ASSUME NEW type, Heard(Host, type) PROVE Told(Host, type)
    <3>1. inbox[Host] \in Seq(Events) /\ inbox[Host] # <<>>
      BY <2>2, <1>1, PartsOf, TheEnds DEF MailTypes, Heard
    <3>2. Head(inbox[Host]) \in Range(inbox[Host]) BY <3>1, HeadAndTail
    <3> QED BY <3>2, <2>2 DEF Told, Heard
  <2> QED BY <2>1, <2>2
<1> DEFINE Fine == page'[Host] \in {"done", "idle"}
<1>5. ASSUME UNCHANGED page \/ \E phase : Show(Source, phase) PROVE Fine
  BY <1>5, <1>1, ShownElsewhere
<1>6. CASE ServerStep
  BY <1>6, <1>5 DEF ServerStep, JoinMatched, JoinRefused, Cancelled, peers
<1>7. ASSUME NEW d \in Ends, PeerStep(d) \/ Timeout(d) PROVE Fine
  <2>1. CASE PeerStep(d)
    BY <2>1, <1>5 DEF PeerStep, HearSignal, SetRemote, SayDescription, SayCandidate
  <2>2. CASE Timeout(d)
    <3>1. d = Source BY <2>2, <1>2, TheEnds DEF Timeout
    <3> QED BY <3>1, <2>2, <1>5 DEF Timeout
  <2> QED BY <1>7, <2>1, <2>2
<1>8. ~OrphanTimeout /\ ~HostHears BY <1>3, <1>4 DEF OrphanTimeout, HostHears, HostHearJoined, HostHearCancelled
<1>9. CASE HostWorks
  <2>1. ~HostStarted /\ ~HostMessage BY <1>2 DEF HostStarted, HostMessage
  <2>2. CASE HostApplied
    <3>1. Show(Host, "done") \/ UNCHANGED page BY <2>2 DEF HostApplied
    <3> QED BY <3>1, <1>1, <1>5, TheEnds DEF Show, PageTypes
  <2> QED BY <1>9, <2>1, <2>2 DEF HostWorks
<1>10. CASE HostApplyFails \/ SourceSendFails \/ ChannelOpens
  BY <1>10, <1>5 DEF HostApplyFails, SourceSendFails, ChannelOpens, peers
<1>11. CASE SourceWorks
  BY <1>11, <1>5 DEF SourceWorks, SourceHearAck, SourceHearCancelled, SourceOfferFails,
    SourceCollected, SourceSend, SourceSent
<1>12. CASE User
  <2>1. ~HostStart /\ ~HostCancel BY DEF HostStart, HostCancel
  <2>2. CASE SourceCancel BY <2>2, <1>5 DEF SourceCancel, PressCancel
  <2>3. ASSUME NEW c \in Codes, SourceJoin(c) PROVE Fine BY <2>3, <1>5 DEF SourceJoin
  <2>4. ASSUME NEW d \in Ends, Leave(d) PROVE Fine
    <3>1. page' = [page EXCEPT ![d] = "idle"] BY <2>4 DEF Leave, Show
    <3> QED BY <3>1, <1>1, TheEnds DEF PageTypes
  <2> QED BY <1>12, <2>1, <2>2, <2>3, <2>4 DEF User
<1>13. ASSUME NEW d \in Ends, Disconnect(d) \/ Rewire(d) PROVE Fine
  BY <1>13, <1>5 DEF Disconnect, Rewire, peers
<1>14. CASE Break BY <1>14, <1>5 DEF Break, peers
<1>15. ASSUME NEW c \in Codes, Expire(c) PROVE Fine BY <1>15, <1>5 DEF Expire, peers
<1> QED
  <2>1. CASE \E d \in Ends : PeerStep(d) \/ Timeout(d) BY <2>1, <1>7
  <2>2. CASE \E d \in Ends : Disconnect(d) \/ Rewire(d) BY <2>2, <1>13
  <2>3. CASE \E c \in Codes : Expire(c) BY <2>3, <1>15
  <2> QED BY <2>1, <2>2, <2>3, <1>6, <1>8, <1>9, <1>10, <1>11, <1>12, <1>14 DEF Next

\* A host's page that has reported its restore as done does not take it back: no stall
\* timer, no cancellation and no second join comes after it, if one code was joined.
THEOREM DoneStays == Spec => DoneIsKept
<1>1. Types /\ IInv /\ [Next]_vars =>
        [page[Host] = "done" /\ joins <= 1 => page'[Host] \in {"done", "idle"}]_vars
  BY DoneStep DEF Inv
<1> QED BY <1>1, Invariant, PTL DEF Spec, DoneIsKept
=============================================================================
