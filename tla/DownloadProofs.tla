----------------------------- MODULE DownloadProofs -----------------------------
(***************************************************************************)
(* What holds of Download for every number of clients, every geometry,     *)
(* every initial possession and every order in which messages, plans and   *)
(* commands come.  The inductive invariant IInv says of each client that   *)
(* its connections are good (Good), that it asks only for what was         *)
(* announced (Asks), that its selector counts and plans right (SelGood)    *)
(* and lags behind the wire only by the observations still queued          *)
(* (Follows); and of each two clients that what is under way between them  *)
(* accounts for all that they disagree on (Half).  On top of it, LifeInv   *)
(* says that each sub-piece of an incomplete piece is planned, kept by the *)
(* wire or delivered at most once for each peer, and cancelled behind its  *)
(* plan: the selector's plans and the wire's requests agree.               *)
(***************************************************************************)
EXTENDS Download, TLAPS, FiniteNatSets

-----------------------------------------------------------------------------
(* What removing an element of a sequence leaves, and what the last telling  *)
(* message of a sequence is.                                                 *)

\* A sequence contains what it counts at least once.
LEMMA CountContains ==
  ASSUME NEW S, NEW s \in Seq(S), NEW x
  PROVE  Contains(s, x) <=> Count(s, x) > 0
<1> DEFINE I == {i \in 1 .. Len(s) : s[i] = x}
<1>1. IsFiniteSet(I)
  BY CountType
<1>2. Contains(s, x) <=> I # {}
  BY DEF Contains
<1> HIDE DEF I
<1>3. Cardinality(I) \in Nat /\ (Cardinality(I) = 0 <=> I = {})
  BY <1>1, FS_CardinalityType, FS_EmptySet
<1> QED BY <1>2, <1>3 DEF Count, I

\* s is r with one e more, somewhere.
OneMore(S, s, e, r) == \E a, b \in Seq(S) : s = a \o <<e>> \o b /\ r = a \o b

\* Removing the first occurrence of an element cuts the sequence there.
LEMMA RemoveFirstCuts ==
  ASSUME NEW S, NEW s \in Seq(S), NEW e, Contains(s, e)
  PROVE  e \in S /\ OneMore(S, s, e, RemoveFirst(s, e))
<1> DEFINE I == {i \in 1 .. Len(s) : s[i] = e}
<1>1. RemoveFirst(s, e) = RemoveAt(s, SelectInSeq(s, LAMBDA v : v = e))
  BY DEF RemoveFirst, Contains
<1>2. I # {} /\ I \subseteq Nat
  BY DEF Contains
<1>3. SelectInSeq(s, LAMBDA v : v = e) = Min(I)
  BY <1>2 DEF SelectInSeq
<1>4. Min(I) \in I
  BY <1>2, LeastElement DEF Min
<1>5. PICK i \in 1 .. Len(s) : s[i] = e /\ RemoveFirst(s, e) = SubSeq(s, 1, i-1) \o SubSeq(s, i+1, Len(s))
  BY <1>1, <1>3, <1>4 DEF RemoveAt
<1> DEFINE a == SubSeq(s, 1, i-1)
           b == SubSeq(s, i+1, Len(s))
<1>6. Len(s) \in Nat /\ e \in S
  BY <1>5
<1>7. a \in Seq(S) /\ b \in Seq(S) /\ <<e>> \in Seq(S)
  BY <1>5, <1>6, SubSeqProperties
<1>8. SubSeq(s, i, Len(s)) = <<e>> \o b
  <2>1. i \in 1 .. Len(s) /\ Len(s) \in i .. Len(s)
    BY <1>6
  <2> QED BY <2>1, <1>5, SubSeqRecursiveFirst
<1>9. s = a \o SubSeq(s, i, Len(s))
  <2>1. /\ 1 \in 1 .. Len(s) + 1 /\ i - 1 \in 1 - 1 .. Len(s) /\ Len(s) \in i - 1 .. Len(s)
        /\ (i - 1) + 1 = i
    BY <1>6
  <2>2. SubSeq(s, 1, i-1) \o SubSeq(s, (i-1)+1, Len(s)) = SubSeq(s, 1, Len(s))
    BY <2>1, ConcatAdjacentSubSeq
  <2> QED BY <2>1, <2>2, SubSeqFull
<1>10. s = a \o <<e>> \o b
  <2> DEFINE m == <<e>>
  <2>1. m \in Seq(S)
    BY <1>7
  <2> HIDE DEF a, b, m
  <2>2. (a \o m) \o b = a \o (m \o b)
    <3>1. a \in Seq(S) /\ b \in Seq(S)
      BY <1>7
    <3> QED BY <2>1, <3>1, ConcatAssociative, SMTT(60)
  <2>3. s = a \o (m \o b)
    BY <1>8, <1>9 DEF m
  <2>4. s = (a \o m) \o b
    BY <2>2, <2>3
  <2> QED BY <2>4 DEF m
<1>11. RemoveFirst(s, e) = a \o b
  BY <1>5
<1> HIDE DEF a, b
<1>12. a \in Seq(S) /\ b \in Seq(S)
  BY <1>7

<1> QED BY <1>6, <1>10, <1>11, <1>12 DEF OneMore

\* RemoveFirst takes one occurrence away, and no other element.
LEMMA CountRemoveFirst ==
  ASSUME NEW S, NEW s \in Seq(S), NEW e, Contains(s, e), NEW x
  PROVE  /\ RemoveFirst(s, e) \in Seq(S)
         /\ Len(RemoveFirst(s, e)) = Len(s) - 1
         /\ Count(RemoveFirst(s, e), x) = Count(s, x) - (IF e = x THEN 1 ELSE 0)
<1>0. e \in S /\ OneMore(S, s, e, RemoveFirst(s, e))
  BY RemoveFirstCuts
<1>1. PICK a, b \in Seq(S) : /\ e \in S
                             /\ s = a \o <<e>> \o b
                             /\ RemoveFirst(s, e) = a \o b
  BY <1>0 DEF OneMore
<1>2. <<e>> \in Seq(S) /\ a \o <<e>> \in Seq(S) /\ a \o b \in Seq(S)
  BY <1>1
<1>3. /\ Count(s, x) = Count(a, x) + (IF e = x THEN 1 ELSE 0) + Count(b, x)
      /\ Count(a \o b, x) = Count(a, x) + Count(b, x)
  <2>1. Count(a \o <<e>>, x) = Count(a, x) + Count(<<e>>, x)
    BY <1>2, CountConcat
  <2>2. Count(a \o <<e>> \o b, x) = Count(a \o <<e>>, x) + Count(b, x)
    BY <1>2, CountConcat
  <2>3. Count(a \o b, x) = Count(a, x) + Count(b, x)
    BY CountConcat
  <2> QED BY <1>1, <2>1, <2>2, <2>3, CountSingle
<1>4. Count(a, x) \in Nat /\ Count(b, x) \in Nat
  BY CountType
<1>5. Len(s) = Len(a) + 1 + Len(b) /\ Len(a \o b) = Len(a) + Len(b) /\ Len(a) \in Nat /\ Len(b) \in Nat
  BY <1>1, <1>2
<1>6. Len(RemoveFirst(s, e)) = Len(s) - 1
  BY <1>1, <1>5
<1>7. Count(RemoveFirst(s, e), x) = Count(s, x) - (IF e = x THEN 1 ELSE 0)
  <2>1. Count(RemoveFirst(s, e), x) = Count(a, x) + Count(b, x)
    BY <1>1, <1>3
  <2> QED BY <2>1, <1>3, <1>4
<1> QED BY <1>1, <1>2, <1>6, <1>7

-----------------------------------------------------------------------------
(* Messages, observations and wires.                                       *)

\* The state of one client's wire.
Entry == [dst : Clients, msg : WireMsg]
WireState == [have : SUBSET Pieces, conns : [Clients -> conn],
              out_wire : Seq(Entry), out_obs : Seq(Obs)]

\* Messages are of their kinds.
LEMMA MessageTypes ==
  /\ Handshake \in WireMsg /\ Handshake.type = "handshake"
  /\ \A s \in SUBSET Pieces : Bitfield(s) \in WireMsg /\ Bitfield(s).type = "bitfield" /\ Bitfield(s).pieces = s
  /\ \A p \in Pieces : Have(p) \in WireMsg /\ Have(p).type = "have" /\ Have(p).index = p
  /\ Choke(TRUE) \in WireMsg /\ Choke(TRUE).type = "unchoke"
  /\ Choke(FALSE) \in WireMsg /\ Choke(FALSE).type = "choke"
  /\ Interest(TRUE) \in WireMsg /\ Interest(TRUE).type = "interested"
  /\ Interest(FALSE) \in WireMsg /\ Interest(FALSE).type = "not_interested"
  /\ \A sp \in SubPieceId :
       /\ Request(sp) \in WireMsg /\ Request(sp).type = "request" /\ Request(sp).sub = sp
       /\ Piece(sp) \in WireMsg /\ Piece(sp).type = "piece" /\ Piece(sp).sub = sp
       /\ Cancel(sp) \in WireMsg /\ Cancel(sp).type = "cancel" /\ Cancel(sp).sub = sp
  /\ Blank.type = "none"
<1> USE DEF WireMsg
<1>1. Handshake \in WireMsg /\ Handshake.type = "handshake"
  BY DEF Handshake
<1>2. \A s \in SUBSET Pieces : Bitfield(s) \in WireMsg /\ Bitfield(s).type = "bitfield" /\ Bitfield(s).pieces = s
  <2>1. \A s \in SUBSET Pieces : Bitfield(s) \in WireMsg
    OBVIOUS
  <2> QED BY <2>1 DEF Bitfield
<1>3. \A p \in Pieces : Have(p) \in WireMsg /\ Have(p).type = "have" /\ Have(p).index = p
  <2>1. \A p \in Pieces : Have(p) \in WireMsg
    OBVIOUS
  <2> QED BY <2>1 DEF Have
<1>4. /\ Choke(TRUE) \in WireMsg /\ Choke(TRUE).type = "unchoke"
      /\ Choke(FALSE) \in WireMsg /\ Choke(FALSE).type = "choke"
  <2>1. \A b \in BOOLEAN : Choke(b) \in WireMsg
    OBVIOUS
  <2> QED BY <2>1 DEF Choke
<1>5. /\ Interest(TRUE) \in WireMsg /\ Interest(TRUE).type = "interested"
      /\ Interest(FALSE) \in WireMsg /\ Interest(FALSE).type = "not_interested"
  <2>1. \A b \in BOOLEAN : Interest(b) \in WireMsg
    OBVIOUS
  <2> QED BY <2>1 DEF Interest
<1>6. ASSUME NEW sp \in SubPieceId
      PROVE /\ Request(sp) \in WireMsg /\ Request(sp).type = "request" /\ Request(sp).sub = sp
            /\ Piece(sp) \in WireMsg /\ Piece(sp).type = "piece" /\ Piece(sp).sub = sp
            /\ Cancel(sp) \in WireMsg /\ Cancel(sp).type = "cancel" /\ Cancel(sp).sub = sp
  <2>1. Request(sp) \in WireMsg /\ Piece(sp) \in WireMsg /\ Cancel(sp) \in WireMsg
    OBVIOUS
  <2> QED BY <2>1 DEF Request, Piece, Cancel
<1> QED BY <1>1, <1>2, <1>3, <1>4, <1>5, <1>6 DEF Blank

\* What a message is, by its type.
LEMMA MessageIs ==
  ASSUME NEW m \in WireMsg
  PROVE  /\ m.type = "handshake" => m = Handshake
         /\ m.type = "bitfield" => m.pieces \in SUBSET Pieces /\ m = Bitfield(m.pieces)
         /\ m.type = "have" => m.index \in Pieces /\ m = Have(m.index)
         /\ m.type = "unchoke" => m = Choke(TRUE)
         /\ m.type = "choke" => m = Choke(FALSE)
         /\ m.type = "interested" => m = Interest(TRUE)
         /\ m.type = "not_interested" => m = Interest(FALSE)
         /\ m.type = "request" => m.sub \in SubPieceId /\ m = Request(m.sub)
         /\ m.type = "piece" => m.sub \in SubPieceId /\ m = Piece(m.sub)
         /\ m.type = "cancel" => m.sub \in SubPieceId /\ m = Cancel(m.sub)
         /\ m.type \in {"handshake", "bitfield", "have", "unchoke", "choke", "interested",
                        "not_interested", "request", "piece", "cancel"}
<1>1. CASE m = Handshake
  <2>1. m.type = "handshake"
    BY <1>1, MessageTypes
  <2> QED BY <2>1, <1>1
<1>2. CASE \E s \in SUBSET Pieces : m = Bitfield(s)
  <2>1. PICK s \in SUBSET Pieces : m = Bitfield(s)
    BY <1>2
  <2>2. m.type = "bitfield" /\ m.pieces = s
    BY <2>1, MessageTypes
  <2> QED BY <2>1, <2>2
<1>3. CASE \E p \in Pieces : m = Have(p)
  <2>1. PICK p \in Pieces : m = Have(p)
    BY <1>3
  <2>2. m.type = "have" /\ m.index = p
    BY <2>1, MessageTypes
  <2> QED BY <2>1, <2>2
<1>4. CASE m \in {Choke(TRUE), Choke(FALSE), Interest(TRUE), Interest(FALSE)}
  BY <1>4, MessageTypes
<1>5. CASE \E sp \in SubPieceId : m = Request(sp) \/ m = Piece(sp) \/ m = Cancel(sp)
  <2>1. PICK sp \in SubPieceId : m = Request(sp) \/ m = Piece(sp) \/ m = Cancel(sp)
    BY <1>5
  <2>2. CASE m = Request(sp)
    <3>1. m.type = "request" /\ m.sub = sp
      BY <2>2, MessageTypes
    <3> QED BY <2>2, <3>1
  <2>3. CASE m = Piece(sp)
    <3>1. m.type = "piece" /\ m.sub = sp
      BY <2>3, MessageTypes
    <3> QED BY <2>3, <3>1
  <2>4. CASE m = Cancel(sp)
    <3>1. m.type = "cancel" /\ m.sub = sp
      BY <2>4, MessageTypes
    <3> QED BY <2>4, <3>1
  <2> QED BY <2>1, <2>2, <2>3, <2>4
<1> QED BY <1>1, <1>2, <1>3, <1>4, <1>5 DEF WireMsg

\* Observations are of their kinds.
LEMMA ObservationTypes ==
  /\ \A q \in Clients : \A s \in SUBSET Pieces :
       obs_availability(q, s) \in Obs
  /\ \A q \in Clients : \A b \in BOOLEAN : obs_peer_interest(q, b) \in Obs
  /\ \A q \in Clients : \A sp \in SubPieceId : \A b \in BOOLEAN : obs_completion(q, sp, b) \in Obs
  /\ \A q \in Clients : \A p \in Pieces : obs_upload(q, p) \in Obs
  BY DEF Obs

\* What the operators that update a wire leave.
LEMMA QueueTo ==
  ASSUME NEW w \in WireState, NEW dst \in Clients, NEW m \in WireMsg
  PROVE  /\ queue_to(w, dst, m) \in WireState
         /\ queue_to(w, dst, m).have = w.have
         /\ queue_to(w, dst, m).conns = w.conns
         /\ queue_to(w, dst, m).out_obs = w.out_obs
         /\ queue_to(w, dst, m).out_wire = Append(w.out_wire, [dst |-> dst, msg |-> m])
<1>1. [dst |-> dst, msg |-> m] \in Entry
  BY DEF Entry
<1> HIDE DEF Entry
<1>2. Append(w.out_wire, [dst |-> dst, msg |-> m]) \in Seq(Entry)
  BY <1>1 DEF WireState
<1> QED BY <1>2 DEF WireState, queue_to

\* observe adds to the observations and changes nothing else.
LEMMA ObserveIs ==
  ASSUME NEW w \in WireState, NEW o \in Obs
  PROVE  /\ observe(w, o) \in WireState
         /\ observe(w, o).have = w.have
         /\ observe(w, o).conns = w.conns
         /\ observe(w, o).out_wire = w.out_wire
         /\ observe(w, o).out_obs = Append(w.out_obs, o)
<1>2. Append(w.out_obs, o) \in Seq(Obs)
  BY DEF WireState
<1> QED BY <1>2 DEF WireState, observe

\* A wire with one connection changed.
WithConn(w, peer, c) == [w EXCEPT !.conns[peer] = c]

\* Putting another record for peer changes that connection only.
LEMMA WithConnIs ==
  ASSUME NEW w \in WireState, NEW peer \in Clients, NEW c \in conn
  PROVE  /\ WithConn(w, peer, c) \in WireState
         /\ WithConn(w, peer, c).have = w.have
         /\ WithConn(w, peer, c).out_wire = w.out_wire
         /\ WithConn(w, peer, c).out_obs = w.out_obs
         /\ WithConn(w, peer, c).conns[peer] = c
         /\ \A q \in Clients \ {peer} : WithConn(w, peer, c).conns[q] = w.conns[q]
  BY DEF WireState, WithConn

\* The parts of a wire, by type.
LEMMA ConnType ==
  ASSUME NEW w \in WireState, NEW q \in Clients
  PROVE  /\ w.conns[q] \in conn /\ w.have \in SUBSET Pieces
         /\ w.conns \in [Clients -> conn]
         /\ w.out_wire \in Seq(Entry) /\ w.out_obs \in Seq(Obs)
         /\ w.conns[q].outstanding \in Seq(SubPieceId) /\ w.conns[q].planned \in Seq(SubPieceId)
         /\ w.conns[q].in_progress \in [Pieces -> SUBSET SubPieces]
         /\ w.conns[q].peer_bitfield \in SUBSET Pieces
  BY DEF WireState, conn

\* fill_pipeline moves n of the planned sub-pieces to the requests.
Fills(w, v, peer, n) ==
  LET c == w.conns[peer]
      asked == SubSeq(c.planned, 1, n)
  IN  /\ v.have = w.have /\ v.out_obs = w.out_obs
      /\ \A q \in Clients \ {peer} : v.conns[q] = w.conns[q]
      /\ v.conns[peer] = [c EXCEPT !.outstanding = c.outstanding \o asked,
                                   !.planned = SubSeq(c.planned, n+1, Len(c.planned))]
      /\ v.out_wire = w.out_wire \o [i \in 1 .. n |-> [dst |-> peer, msg |-> Request(asked[i])]]

\* What fill_pipeline does to the connection, and the requests it sends.
LEMMA FillPipelineIs ==
  ASSUME NEW w \in WireState, NEW peer \in Clients,
         Len(w.conns[peer].outstanding) <= PipelineDepth
  PROVE  /\ fill_pipeline(w, peer) \in WireState
         /\ \E n \in 0 .. Len(w.conns[peer].planned) :
              /\ Len(w.conns[peer].outstanding) + n <= PipelineDepth
              /\ w.conns[peer].peer_choking => n = 0
              /\ Fills(w, fill_pipeline(w, peer), peer, n)
<1> DEFINE c == w.conns[peer]
           room == PipelineDepth - Len(c.outstanding)
           n == IF c.peer_choking THEN 0 ELSE IF room < Len(c.planned) THEN room ELSE Len(c.planned)
           asked == SubSeq(c.planned, 1, n)
           rest == SubSeq(c.planned, n + 1, Len(c.planned))
           out == [i \in 1 .. n |-> [dst |-> peer, msg |-> Request(asked[i])]]
           d == [c EXCEPT !.outstanding = c.outstanding \o asked, !.planned = rest]
           v == fill_pipeline(w, peer)
<1>1. c \in conn /\ c.outstanding \in Seq(SubPieceId) /\ c.planned \in Seq(SubPieceId)
  BY ConnType
<1>2. /\ n \in 0 .. Len(c.planned) /\ Len(c.outstanding) + n <= PipelineDepth
      /\ c.peer_choking => n = 0
  <2>1. Len(c.outstanding) \in Nat /\ Len(c.planned) \in Nat /\ PipelineDepth \in Nat
        /\ room \in Nat
    BY <1>1, GeometryAssumption
  <2>2. Len(c.outstanding) <= PipelineDepth
    OBVIOUS
  <2>3. room = PipelineDepth - Len(c.outstanding)
    OBVIOUS
  <2> HIDE DEF c, room
  <2>4. CASE c.peer_choking
    BY <2>1, <2>2, <2>4
  <2>5. CASE ~c.peer_choking
    <3>1. n = IF room < Len(c.planned) THEN room ELSE Len(c.planned)
      BY <2>5
    <3> HIDE DEF n
    <3>2. n \in 0 .. Len(c.planned) /\ n <= room
      BY <2>1, <3>1
    <3>3. Len(c.outstanding) + n <= PipelineDepth
      BY <2>1, <2>3, <3>2
    <3> QED BY <3>2, <3>3, <2>5
  <2> QED BY <2>4, <2>5
<1>3. asked \in Seq(SubPieceId) /\ rest \in Seq(SubPieceId) /\ Len(asked) = n
  <2> HIDE DEF n
  <2> QED BY <1>1, <1>2, ConcatSplit
<1>4. out \in Seq(Entry)
  <2> HIDE DEF n, asked
  <2>1. \A i \in 1 .. n : asked[i] \in SubPieceId
    BY <1>2, <1>3
  <2>2. \A i \in 1 .. n : [dst |-> peer, msg |-> Request(asked[i])] \in Entry
    BY <2>1, MessageTypes DEF Entry
  <2> HIDE DEF Entry
  <2>3. out \in [1 .. n -> Entry]
    BY <2>2
  <2> HIDE DEF out
  <2> QED BY <1>2, <2>3, SequenceOfFunction
<1>5. d \in conn
  <2> HIDE DEF c, asked, rest
  <2>1. c.outstanding \o asked \in Seq(SubPieceId)
    BY <1>1, <1>3
  <2> QED BY <1>1, <1>3, <2>1 DEF conn
<1>6. v = [w EXCEPT !.conns[peer].outstanding = @ \o asked,
                    !.conns[peer].planned = SubSeq(@, n + 1, Len(@)),
                    !.out_wire = @ \o out]
  BY DEF fill_pipeline
<1>7. /\ v.have = w.have /\ v.out_obs = w.out_obs /\ v.out_wire = w.out_wire \o out
      /\ v.conns = [w.conns EXCEPT ![peer] = d]
      /\ v = [have |-> w.have, conns |-> v.conns, out_wire |-> w.out_wire \o out, out_obs |-> w.out_obs]
  <2> HIDE DEF n, asked, out, v
  <2> QED BY <1>1, <1>6 DEF WireState, conn
<1>8. Fills(w, v, peer, n)
  <2>0. n \in Nat
    BY <1>2
  <2>1. \A q \in Clients \ {peer} : v.conns[q] = w.conns[q]
    <3> HIDE DEF n, v, d
    <3> QED BY <1>7, ConnType
  <2>2. v.conns[peer] = d
    <3> HIDE DEF n, v, d
    <3> QED BY <1>7, ConnType
  <2> HIDE DEF n, v
  <2> QED BY <1>7, <2>1, <2>2 DEF Fills
<1>9. v \in WireState
  <2> HIDE DEF n, asked, v, d, out, c
  <2>1. v.conns \in [Clients -> conn]
    BY <1>5, <1>7, ConnType
  <2>2. w.out_wire \o out \in Seq(Entry)
    BY <1>4, ConnType
  <2> QED BY <1>7, <2>1, <2>2 DEF WireState
<1> QED
  <2> HIDE DEF n
  <2> QED BY <1>2, <1>8, <1>9

-----------------------------------------------------------------------------
(* What messages under way tell last.                                      *)

\* Messages under way, those for others among them left blank.
Msgs == WireMsg \cup {Blank}

\* Of the messages that tell, the last one is what LastOf tells.
LEMMA LastIs ==
  ASSUME NEW S, NEW s \in Seq(S), NEW T, NEW i \in 1 .. Len(s), s[i].type \in T,
         \A j \in 1 .. Len(s) : j > i => s[j].type \notin T
  PROVE  LastOf(s, T) = s[i].type
<1> DEFINE I == {j \in DOMAIN s : s[j].type \in T}
<1>1. i \in I /\ \A j \in I : i >= j
  OBVIOUS
<1>2. Max(I) = i
  <2>1. \A x \in I : (\A y \in I : x >= y) => x = i
    BY <1>1
  <2> QED BY <1>1, <2>1 DEF Max
<1> QED BY <1>1, <1>2 DEF LastOf

\* Where no message tells, LastOf tells nothing.
LEMMA LastNone ==
  ASSUME NEW S, NEW s \in Seq(S), NEW T, \A j \in 1 .. Len(s) : s[j].type \notin T
  PROVE  LastOf(s, T) = "none"
  BY DEF LastOf, Blank

\* Of messages of which one tells there is a last one that tells.
LEMMA LastExists ==
  ASSUME NEW S, NEW s \in Seq(S), NEW T, NEW k \in 1 .. Len(s), s[k].type \in T
  PROVE  \E i \in 1 .. Len(s) : s[i].type \in T /\ \A j \in 1 .. Len(s) : j > i => s[j].type \notin T
<1> DEFINE I == {j \in 1 .. Len(s) : s[j].type \in T}
<1>1. Len(s) \in Int
  OBVIOUS
<1>2. IsFiniteSet(1 .. Len(s))
  BY <1>1, FS_Interval
<1>3. IsFiniteSet(I) /\ I \subseteq Nat /\ I # {}
  BY <1>2, FS_Subset
<1>4. PICK i \in I : \A j \in I : j <= i
  <2> HIDE DEF I
  <2> QED BY <1>3, GreatestElement
<1>5. \A j \in 1 .. Len(s) : j > i => j \notin I
  BY <1>4
<1> QED BY <1>5

\* The later of two sequences tells, if it tells at all.
LEMMA LastConcat ==
  ASSUME NEW S, NEW s \in Seq(S), NEW t \in Seq(S), NEW T, "none" \notin T
  PROVE  LastOf(s \o t, T) = IF LastOf(t, T) = "none" THEN LastOf(s, T) ELSE LastOf(t, T)
<1>1. /\ s \o t \in Seq(S)
      /\ Len(s \o t) = Len(s) + Len(t) /\ Len(s) \in Nat /\ Len(t) \in Nat
      /\ \A i \in 1 .. Len(s) + Len(t) :
           (s \o t)[i] = IF i <= Len(s) THEN s[i] ELSE t[i - Len(s)]
  BY ConcatProperties
<1>2. CASE \E k \in 1 .. Len(t) : t[k].type \in T
  <2>1. PICK i \in 1 .. Len(t) : t[i].type \in T /\ \A j \in 1 .. Len(t) : j > i => t[j].type \notin T
    BY <1>2, LastExists
  <2>2. LastOf(t, T) = t[i].type
    BY <2>1, LastIs
  <2>3. i + Len(s) \in 1 .. Len(s \o t) /\ (s \o t)[i + Len(s)] = t[i]
    BY <1>1
  <2>4. ASSUME NEW j \in 1 .. Len(s \o t), j > i + Len(s)
        PROVE  (s \o t)[j].type \notin T
    <3>1. j - Len(s) \in 1 .. Len(t) /\ j - Len(s) > i /\ (s \o t)[j] = t[j - Len(s)]
      BY <1>1, <2>4
    <3> QED BY <2>1, <3>1
  <2>5. LastOf(s \o t, T) = t[i].type
    <3>1. (s \o t)[i + Len(s)].type \in T
      BY <2>1, <2>3
    <3> DEFINE u == s \o t
               k == i + Len(s)
    <3>2. u \in Seq(S) /\ k \in 1 .. Len(u) /\ u[k].type \in T /\ \A j \in 1 .. Len(u) : j > k => u[j].type \notin T
      BY <1>1, <2>3, <2>4, <3>1
    <3>3. LastOf(u, T) = u[k].type
      <4> HIDE DEF u, k
      <4> QED BY <3>2, LastIs
    <3> QED BY <3>3, <2>3
  <2> QED BY <2>1, <2>2, <2>5
<1>3. CASE \A k \in 1 .. Len(t) : t[k].type \notin T
  <2>1. LastOf(t, T) = "none"
    BY <1>3, LastNone
  <2>2. CASE \E k \in 1 .. Len(s) : s[k].type \in T
    <3>1. PICK i \in 1 .. Len(s) : s[i].type \in T /\ \A j \in 1 .. Len(s) : j > i => s[j].type \notin T
      BY <2>2, LastExists
    <3>2. LastOf(s, T) = s[i].type
      BY <3>1, LastIs
    <3> DEFINE u == s \o t
    <3>3. i \in 1 .. Len(u) /\ u[i] = s[i]
      BY <1>1
    <3>4. ASSUME NEW j \in 1 .. Len(u), j > i PROVE u[j].type \notin T
      <4>1. CASE j <= Len(s)
        BY <1>1, <3>1, <3>4, <4>1
      <4>2. CASE j > Len(s)
        <5>1. j - Len(s) \in 1 .. Len(t) /\ u[j] = t[j - Len(s)]
          BY <1>1, <4>2
        <5> QED BY <1>3, <5>1
      <4> QED BY <1>1, <4>1, <4>2
    <3>5. u \in Seq(S) /\ u[i].type \in T
      BY <1>1, <3>1, <3>3
    <3>6. LastOf(u, T) = u[i].type
      <4> HIDE DEF u
      <4> QED BY <3>3, <3>4, <3>5, LastIs
    <3> QED BY <2>1, <3>2, <3>3, <3>6
  <2>3. CASE \A k \in 1 .. Len(s) : s[k].type \notin T
    <3> DEFINE u == s \o t
    <3>1. ASSUME NEW j \in 1 .. Len(u) PROVE u[j].type \notin T
      <4>1. CASE j <= Len(s)
        BY <1>1, <2>3, <4>1
      <4>2. CASE j > Len(s)
        <5>1. j - Len(s) \in 1 .. Len(t) /\ u[j] = t[j - Len(s)]
          BY <1>1, <4>2
        <5> QED BY <1>3, <5>1
      <4> QED BY <1>1, <4>1, <4>2
    <3>2. u \in Seq(S)
      BY <1>1
    <3>3. LastOf(u, T) = "none"
      <4> HIDE DEF u
      <4> QED BY <3>1, <3>2, LastNone
    <3>4. LastOf(s, T) = "none"
      BY <2>3, LastNone
    <3> QED BY <2>1, <3>3, <3>4
  <2> QED BY <2>2, <2>3
<1> QED BY <1>2, <1>3

\* What one message tells.
LEMMA LastSingle ==
  ASSUME NEW m, NEW T
  PROVE  LastOf(<<m>>, T) = IF m.type \in T THEN m.type ELSE "none"
<1>1. <<m>> \in Seq({m}) /\ Len(<<m>>) = 1 /\ <<m>>[1] = m
  OBVIOUS
<1>2. CASE m.type \in T
  <2> DEFINE s == <<m>>
  <2>1. s \in Seq({m}) /\ 1 \in 1 .. Len(s) /\ s[1].type \in T /\ s[1] = m /\ \A j \in 1 .. Len(s) : ~(j > 1)
    BY <1>1, <1>2
  <2> HIDE DEF s
  <2>2. LastOf(s, T) = s[1].type
    BY <2>1, LastIs
  <2> QED BY <2>1, <2>2, <1>2 DEF s
<1>3. CASE m.type \notin T
  <2> DEFINE s == <<m>>
  <2>1. s \in Seq({m}) /\ \A j \in 1 .. Len(s) : s[j].type \notin T
    BY <1>1, <1>3
  <2> HIDE DEF s
  <2>2. LastOf(s, T) = "none"
    BY <2>1, LastNone
  <2> QED BY <2>2, <1>3 DEF s
<1> QED BY <1>2, <1>3

-----------------------------------------------------------------------------
\* For goes through concatenation.
LEMMA ForType ==
  ASSUME NEW q \in Clients, NEW s \in Seq(Entry)
  PROVE  /\ For(q, s) \in Seq(Msgs) /\ Len(For(q, s)) = Len(s)
         /\ \A i \in 1 .. Len(s) : For(q, s)[i] = IF s[i].dst = q THEN s[i].msg ELSE Blank
<1>1. \A i \in 1 .. Len(s) : s[i] \in Entry
  OBVIOUS
<1>2. \A i \in 1 .. Len(s) : (IF s[i].dst = q THEN s[i].msg ELSE Blank) \in Msgs
  BY <1>1 DEF Entry, Msgs
<1>3. DOMAIN s = 1 .. Len(s) /\ Len(s) \in Nat
  OBVIOUS
<1>4. For(q, s) = [i \in 1 .. Len(s) |-> IF s[i].dst = q THEN s[i].msg ELSE Blank]
  BY <1>3 DEF For
<1> HIDE DEF Msgs
<1>5. For(q, s) \in [1 .. Len(s) -> Msgs]
  BY <1>2, <1>4
<1>6. For(q, s) \in Seq(Msgs) /\ Len(For(q, s)) = Len(s)
  BY <1>3, <1>5, SequenceOfFunction
<1> QED BY <1>4, <1>6

\* What is for q of two queues, one after the other.
LEMMA ForConcat ==
  ASSUME NEW q \in Clients, NEW s \in Seq(Entry), NEW t \in Seq(Entry)
  PROVE  For(q, s \o t) = For(q, s) \o For(q, t)
<1> HIDE DEF Entry, Msgs
<1>1. /\ s \o t \in Seq(Entry)
      /\ Len(s \o t) = Len(s) + Len(t) /\ Len(s) \in Nat /\ Len(t) \in Nat
      /\ \A i \in 1 .. Len(s) + Len(t) :
           (s \o t)[i] = IF i <= Len(s) THEN s[i] ELSE t[i - Len(s)]
  BY ConcatProperties
<1>2. For(q, s) \in Seq(Msgs) /\ For(q, t) \in Seq(Msgs) /\ For(q, s \o t) \in Seq(Msgs)
      /\ Len(For(q, s)) = Len(s) /\ Len(For(q, t)) = Len(t) /\ Len(For(q, s \o t)) = Len(s \o t)
  BY <1>1, ForType
<1>3. /\ For(q, s) \o For(q, t) \in Seq(Msgs)
      /\ Len(For(q, s) \o For(q, t)) = Len(s) + Len(t)
      /\ \A i \in 1 .. Len(s) + Len(t) :
           (For(q, s) \o For(q, t))[i] = IF i <= Len(s) THEN For(q, s)[i] ELSE For(q, t)[i - Len(s)]
  <2> DEFINE fs == For(q, s)
             ft == For(q, t)
  <2>1. fs \in Seq(Msgs) /\ ft \in Seq(Msgs) /\ Len(fs) = Len(s) /\ Len(ft) = Len(t)
    BY <1>2
  <2> HIDE DEF fs, ft
  <2>2. /\ fs \o ft \in Seq(Msgs) /\ Len(fs \o ft) = Len(fs) + Len(ft)
        /\ \A i \in 1 .. Len(fs) + Len(ft) : (fs \o ft)[i] = IF i <= Len(fs) THEN fs[i] ELSE ft[i - Len(fs)]
    BY <2>1, ConcatProperties
  <2>3. /\ fs \o ft \in Seq(Msgs) /\ Len(fs \o ft) = Len(s) + Len(t)
        /\ \A i \in 1 .. Len(s) + Len(t) : (fs \o ft)[i] = IF i <= Len(s) THEN fs[i] ELSE ft[i - Len(s)]
    BY <2>1, <2>2
  <2> QED BY <2>3 DEF fs, ft
<1>4. ASSUME NEW i \in 1 .. Len(s) + Len(t)
      PROVE  For(q, s \o t)[i] = (For(q, s) \o For(q, t))[i]
  <2>0. For(q, s \o t)[i] = IF (s \o t)[i].dst = q THEN (s \o t)[i].msg ELSE Blank
    <3> DEFINE u == s \o t
    <3>1. u \in Seq(Entry) /\ i \in 1 .. Len(u)
      BY <1>1
    <3> HIDE DEF u
    <3>2. For(q, u)[i] = IF u[i].dst = q THEN u[i].msg ELSE Blank
      BY <3>1, ForType
    <3> QED BY <3>2 DEF u
  <2>1. CASE i <= Len(s)
    <3>1. i \in 1 .. Len(s) /\ (s \o t)[i] = s[i] /\ (For(q, s) \o For(q, t))[i] = For(q, s)[i]
      BY <1>1, <1>3, <2>1
    <3> QED BY <2>0, <3>1, ForType
  <2>2. CASE i > Len(s)
    <3>1. /\ i - Len(s) \in 1 .. Len(t) /\ ~(i <= Len(s)) /\ (s \o t)[i] = t[i - Len(s)]
          /\ (For(q, s) \o For(q, t))[i] = For(q, t)[i - Len(s)]
      BY <1>1, <1>3, <2>2
    <3>2. For(q, t)[i - Len(s)] = IF t[i - Len(s)].dst = q THEN t[i - Len(s)].msg ELSE Blank
      BY <3>1, ForType
    <3> QED BY <2>0, <3>1, <3>2
  <2>3. i <= Len(s) \/ i > Len(s)
    BY <1>1
  <2> QED BY <2>1, <2>2, <2>3
<1> DEFINE u == For(q, s \o t)
           v == For(q, s) \o For(q, t)
<1>5. u \in Seq(Msgs) /\ v \in Seq(Msgs) /\ Len(u) = Len(v) /\ \A i \in 1 .. Len(u) : u[i] = v[i]
  BY <1>1, <1>2, <1>3, <1>4
<1>6. u = v
  <2> HIDE DEF u, v
  <2> QED BY <1>5, SeqEqual
<1> QED BY <1>6

\* What is for q of a queue of one.
LEMMA ForSingle ==
  ASSUME NEW q \in Clients, NEW e \in Entry
  PROVE  For(q, <<e>>) = IF e.dst = q THEN <<e.msg>> ELSE <<Blank>>
<1>1. For(q, <<e>>) = [i \in {1} |-> IF e.dst = q THEN e.msg ELSE Blank]
  BY DEF For
<1>2. \A x : <<x>> = [i \in {1} |-> x]
  OBVIOUS
<1> QED BY <1>1, <1>2

-----------------------------------------------------------------------------
(* recompute_interest, and connections in detail.                          *)

\* q has announced a piece that is missing.
Lacks(w, q) == w.conns[q].peer_bitfield \ w.have # {}

\* What recompute_interest towards Q tells: each peer for which interest has
\* changed, what it is now.
Announces(w, Q, out) ==
  /\ \A i \in 1 .. Len(out) :
       /\ out[i].dst \in Q
       /\ \/ out[i].msg = Interest(TRUE) /\ Lacks(w, out[i].dst) /\ ~w.conns[out[i].dst].am_interested
          \/ out[i].msg = Interest(FALSE) /\ ~Lacks(w, out[i].dst) /\ w.conns[out[i].dst].am_interested
  /\ \A q \in Q : w.conns[q].am_interested = Lacks(w, q) \/ \E i \in 1 .. Len(out) : out[i].dst = q

\* recompute_interest towards the peers of Q, which sends out.
Recomputes(w, v, Q, out) ==
  /\ v.have = w.have /\ v.out_obs = w.out_obs
  /\ \A q \in Clients \ Q : v.conns[q] = w.conns[q]
  /\ \A q \in Q : v.conns[q] = [w.conns[q] EXCEPT !.am_interested = Lacks(w, q)]
  /\ v.out_wire = w.out_wire \o out
  /\ Announces(w, Q, out)

\* What recompute_interest changes: the interest in the peers of Q, and a message
\* to each of those for whom it changed.
LEMMA RecomputeIs ==
  ASSUME NEW w \in WireState, NEW Q, Q \subseteq Clients
  PROVE  /\ recompute_interest(w, Q) \in WireState
         /\ \E out \in Seq(Entry) : Recomputes(w, recompute_interest(w, Q), Q, out)
<1> DEFINE C == {q \in Q : should_interest(w, q) # w.conns[q].am_interested}
           changed == Ascending(C)
           out == [i \in DOMAIN changed |->
                     [dst |-> changed[i], msg |-> Interest(should_interest(w, changed[i]))]]
           v == recompute_interest(w, Q)
           n == Cardinality(C)
<1>1. \A q \in Clients : should_interest(w, q) = Lacks(w, q)
  BY DEF should_interest, missing, Lacks
<1>2. C \subseteq Clients /\ C \subseteq Nat /\ IsFiniteSet(C) /\ n \in Nat
  <2>1. C \subseteq Clients
    OBVIOUS
  <2> HIDE DEF C
  <2> QED BY <2>1, ClientsAssumption, FS_Subset, FS_CardinalityType
<1>3. /\ \A i \in 1 .. n : changed[i] \in C
      /\ \A q \in C : \E i \in 1 .. n : changed[i] = q
      /\ DOMAIN changed = 1 .. n
  <2> HIDE DEF C
  <2>1. /\ \A i \in 1 .. n : changed[i] \in C
        /\ \A q \in C : \E i \in 1 .. n : changed[i] = q
    BY <1>2, AscendingLists
  <2> QED BY <2>1 DEF Ascending
<1>4. \A i \in 1 .. n : out[i] \in Entry
  <2>1. TAKE i \in 1 .. n
  <2>2. changed[i] \in Clients
    BY <1>2, <1>3
  <2>3. Interest(should_interest(w, changed[i])) \in WireMsg
    <3> HIDE DEF changed
    <3>1. CASE Lacks(w, changed[i])
      <4>1. should_interest(w, changed[i]) = TRUE
        BY <1>1, <2>2, <3>1
      <4> QED BY <4>1, MessageTypes
    <3>2. CASE ~Lacks(w, changed[i])
      <4>1. should_interest(w, changed[i]) = FALSE
        BY <1>1, <2>2, <3>2
      <4> QED BY <4>1, MessageTypes
    <3> QED BY <3>1, <3>2
  <2> HIDE DEF changed
  <2>4. out[i] = [dst |-> changed[i], msg |-> Interest(should_interest(w, changed[i]))]
    BY <1>3
  <2> QED BY <2>2, <2>3, <2>4 DEF Entry
<1>5. out \in Seq(Entry) /\ Len(out) = n
  <2>1. out = [i \in 1 .. n |-> out[i]]
    BY <1>3
  <2> HIDE DEF out, n, Entry
  <2>2. out \in [1 .. n -> Entry]
    BY <1>4, <2>1
  <2> QED BY <1>2, <2>2, SequenceOfFunction
<1>6. Announces(w, Q, out)
  <2>1. ASSUME NEW i \in 1 .. n
        PROVE  /\ out[i].dst \in Q
               /\ \/ out[i].msg = Interest(TRUE) /\ Lacks(w, out[i].dst) /\ ~w.conns[out[i].dst].am_interested
                  \/ out[i].msg = Interest(FALSE) /\ ~Lacks(w, out[i].dst) /\ w.conns[out[i].dst].am_interested
    <3>1. out[i] = [dst |-> changed[i], msg |-> Interest(should_interest(w, changed[i]))]
      <4> HIDE DEF changed
      <4> QED BY <1>3
    <3> DEFINE q == changed[i]
    <3>2. q \in C
      BY <1>3
    <3> HIDE DEF changed, q
    <3>3. q \in Q /\ q \in Clients /\ should_interest(w, q) # w.conns[q].am_interested
      BY <3>2
    <3>4. w.conns[q].am_interested \in BOOLEAN
      BY <3>3, ConnType DEF conn
    <3>5. out[i].dst = q /\ out[i].msg = Interest(should_interest(w, q))
      BY <3>1 DEF q
    <3>6. CASE Lacks(w, q)
      <4>1. should_interest(w, q) = TRUE
        BY <1>1, <3>3, <3>6
      <4>2. ~w.conns[q].am_interested
        BY <4>1, <3>3, <3>4
      <4>3. out[i].msg = Interest(TRUE)
        BY <3>5, <4>1
      <4> QED BY <3>3, <3>5, <3>6, <4>2, <4>3
    <3>7. CASE ~Lacks(w, q)
      <4>1. should_interest(w, q) = FALSE
        BY <1>1, <3>3, <3>7
      <4>2. w.conns[q].am_interested
        BY <4>1, <3>3, <3>4
      <4>3. out[i].msg = Interest(FALSE)
        BY <3>5, <4>1
      <4> QED BY <3>3, <3>5, <3>7, <4>2, <4>3
    <3> QED BY <3>6, <3>7
  <2>2. ASSUME NEW q \in Q
        PROVE  w.conns[q].am_interested = Lacks(w, q) \/ \E i \in 1 .. n : out[i].dst = q
    <3>1. CASE q \in C
      <4>1. PICK i \in 1 .. n : changed[i] = q
        BY <3>1, <1>3
      <4>2. out[i].dst = changed[i]
        <5> HIDE DEF changed
        <5> QED BY <1>3
      <4> QED BY <4>1, <4>2
    <3>2. CASE q \notin C
      <4>1. should_interest(w, q) = w.conns[q].am_interested
        BY <3>2
      <4> QED BY <4>1, <1>1
    <3> QED BY <3>1, <3>2
  <2> HIDE DEF out, n
  <2> QED BY <2>1, <2>2, <1>5 DEF Announces
<1>7. v = [w EXCEPT !.conns = set_interest(w, Q), !.out_wire = @ \o out]
  BY DEF recompute_interest
<1>8. /\ v.have = w.have /\ v.out_obs = w.out_obs /\ v.conns = set_interest(w, Q)
      /\ v.out_wire = w.out_wire \o out
      /\ v = [have |-> w.have, conns |-> v.conns, out_wire |-> v.out_wire, out_obs |-> w.out_obs]
  <2> HIDE DEF v, out
  <2> QED BY <1>7 DEF WireState
<1>9. /\ \A q \in Clients \ Q : v.conns[q] = w.conns[q]
      /\ \A q \in Q : v.conns[q] = [w.conns[q] EXCEPT !.am_interested = Lacks(w, q)]
      /\ v.conns = [q \in Clients |-> v.conns[q]]
  <2> HIDE DEF v
  <2> QED BY <1>1, <1>8 DEF set_interest
<1>10. v \in WireState
  <2> HIDE DEF v, out
  <2>1. \A q \in Clients : v.conns[q] \in conn
    <3> TAKE q \in Clients
    <3>1. w.conns[q] \in conn /\ Lacks(w, q) \in BOOLEAN
      BY ConnType DEF Lacks
    <3>2. [w.conns[q] EXCEPT !.am_interested = Lacks(w, q)] \in conn
      BY <3>1 DEF conn
    <3> QED BY <1>9, <3>1, <3>2
  <2>2. v.conns \in [Clients -> conn]
    BY <1>9, <2>1
  <2>3. w.out_wire \o out \in Seq(Entry)
    <3>1. w.out_wire \in Seq(Entry)
      BY DEF WireState
    <3> HIDE DEF Entry
    <3> QED BY <1>5, <3>1
  <2> QED BY <1>8, <2>2, <2>3 DEF WireState
<1>11. Recomputes(w, v, Q, out)
  <2> HIDE DEF v, out
  <2> QED BY <1>6, <1>8, <1>9 DEF Recomputes
<1> QED
  <2> HIDE DEF out
  <2> QED BY <1>5, <1>10, <1>11

-----------------------------------------------------------------------------
(* Steps of a wire: what changes is told.                                  *)

\* What a client holds about a connection from what it has received.
SameSeen(c, d) ==
  /\ d.handshake_sent = c.handshake_sent /\ d.handshake_received = c.handshake_received
  /\ d.peer_choking = c.peer_choking /\ d.peer_interested = c.peer_interested
  /\ d.peer_bitfield = c.peer_bitfield

\* The messages ms tell how c's choking becomes d's, and how its interest does.
TellsChoke(c, d, ms) ==
  LET last == LastOf(ms, {"choke", "unchoke"})
  IN  \/ last = "none" /\ d.am_choking = c.am_choking
      \/ last = "choke" /\ d.am_choking
      \/ last = "unchoke" /\ ~d.am_choking
TellsInterest(c, d, ms) ==
  LET last == LastOf(ms, {"interested", "not_interested"})
  IN  \/ last = "none" /\ d.am_interested = c.am_interested
      \/ last = "interested" /\ d.am_interested
      \/ last = "not_interested" /\ ~d.am_interested

\* How often a sub-piece is requested or planned.
KeptCount(c, sp) == Count(c.outstanding, sp) + Count(c.planned, sp)

\* What may be sent on an open connection by a client that has have.
Sendable(c, have, m) ==
  /\ m.type \notin {"handshake", "bitfield"}
  /\ m.type = "have" => m.index \in have
  /\ m.type = "piece" => m.sub[1] \in have
  /\ m.type = "request" => KeptCount(c, m.sub) > 0

\* Connection c becomes d and the messages ms go out on it.
Sends(c, d, have, ms) ==
  /\ SameSeen(c, d)
  /\ c.handshake_sent \/ \A i \in 1 .. Len(ms) : ms[i] = Blank
  /\ \A i \in 1 .. Len(ms) : Sendable(c, have, ms[i])
  /\ TellsChoke(c, d, ms) /\ TellsInterest(c, d, ms)
  /\ \A sp \in SubPieceId :
       /\ Count(d.outstanding, sp) <= Count(c.outstanding, sp) + Count(ms, Request(sp))
       /\ KeptCount(d, sp) = KeptCount(c, sp)

\* A step of a wire: what changes on its connections is told by what it sends.
WireStep(w, v) ==
  /\ w.have \subseteq v.have
  /\ \E more \in Seq(Entry) :
       /\ v.out_wire = w.out_wire \o more
       /\ \A q \in Clients : Sends(w.conns[q], v.conns[q], v.have, For(q, more))

\* The counts of what is kept are natural numbers.
LEMMA KeptCountType ==
  ASSUME NEW c \in conn, NEW sp
  PROVE  /\ Count(c.outstanding, sp) \in Nat /\ Count(c.planned, sp) \in Nat
         /\ KeptCount(c, sp) \in Nat
<1>1. c.outstanding \in Seq(SubPieceId) /\ c.planned \in Seq(SubPieceId)
  BY DEF conn
<1>2. Count(c.outstanding, sp) \in Nat /\ Count(c.planned, sp) \in Nat
  BY <1>1, CountType
<1> QED BY <1>2 DEF KeptCount

\* Messages that do not tell of choking leave what was told last.
LEMMA NotTold ==
  ASSUME NEW ms \in Seq(Msgs), NEW c, NEW d,
         d.am_choking = c.am_choking,
         \A i \in 1 .. Len(ms) : ms[i].type \notin {"choke", "unchoke"}
  PROVE  TellsChoke(c, d, ms)
<1>1. LastOf(ms, {"choke", "unchoke"}) = "none"
  BY LastNone
<1> QED BY <1>1 DEF TellsChoke

\* The same of interest.
LEMMA InterestNotTold ==
  ASSUME NEW ms \in Seq(Msgs), NEW c, NEW d,
         d.am_interested = c.am_interested,
         \A i \in 1 .. Len(ms) : ms[i].type \notin {"interested", "not_interested"}
  PROVE  TellsInterest(c, d, ms)
<1>1. LastOf(ms, {"interested", "not_interested"}) = "none"
  BY LastNone
<1> QED BY <1>1 DEF TellsInterest

\* A connection on which nothing goes out.
LEMMA SendsNothing ==
  ASSUME NEW c \in conn, NEW d \in conn, NEW have, NEW ms \in Seq(Msgs),
         \A i \in 1 .. Len(ms) : ms[i] = Blank,
         SameSeen(c, d), d.am_choking = c.am_choking, d.am_interested = c.am_interested,
         d.outstanding = c.outstanding, d.planned = c.planned
  PROVE  Sends(c, d, have, ms)
<1>1. \A i \in 1 .. Len(ms) : ms[i].type = "none"
  BY MessageTypes
<1>2. TellsChoke(c, d, ms) /\ TellsInterest(c, d, ms)
  BY <1>1, NotTold, InterestNotTold
<1>3. ASSUME NEW sp \in SubPieceId
      PROVE  /\ Count(d.outstanding, sp) <= Count(c.outstanding, sp) + Count(ms, Request(sp))
             /\ KeptCount(d, sp) = KeptCount(c, sp)
  <2>1. Count(ms, Request(sp)) \in Nat
    BY CountType
  <2>2. Count(c.outstanding, sp) \in Nat
    BY KeptCountType
  <2> QED BY <2>1, <2>2 DEF KeptCount
<1>4. \A i \in 1 .. Len(ms) : Sendable(c, have, ms[i])
  BY <1>1 DEF Sendable
<1> QED BY <1>2, <1>3, <1>4 DEF Sends

\* A connection on which one message goes out that is no request.
LEMMA SendsOne ==
  ASSUME NEW c \in conn, NEW d \in conn, NEW have, NEW m \in WireMsg, c.handshake_sent,
         Sendable(c, have, m), m.type # "request",
         SameSeen(c, d), TellsChoke(c, d, <<m>>), TellsInterest(c, d, <<m>>),
         d.outstanding = c.outstanding, d.planned = c.planned
  PROVE  Sends(c, d, have, <<m>>)
<1>1. Len(<<m>>) = 1 /\ \A i \in 1 .. 1 : <<m>>[i] = m
  OBVIOUS
<1>2. ASSUME NEW sp \in SubPieceId
      PROVE  /\ Count(d.outstanding, sp) <= Count(c.outstanding, sp) + Count(<<m>>, Request(sp))
             /\ KeptCount(d, sp) = KeptCount(c, sp)
  <2>1. m # Request(sp)
    BY MessageTypes
  <2>2. Count(<<m>>, Request(sp)) = 0
    BY <2>1, CountSingle
  <2>3. Count(c.outstanding, sp) \in Nat
    BY KeptCountType
  <2> QED BY <2>2, <2>3 DEF KeptCount
<1> DEFINE ms == <<m>>
<1>3. \A i \in 1 .. Len(ms) : Sendable(c, have, ms[i])
  BY <1>1
<1>4. \A sp \in SubPieceId :
       /\ Count(d.outstanding, sp) <= Count(c.outstanding, sp) + Count(ms, Request(sp))
       /\ KeptCount(d, sp) = KeptCount(c, sp)
  BY <1>2
<1>5. TellsChoke(c, d, ms) /\ TellsInterest(c, d, ms)
  OBVIOUS
<1> HIDE DEF ms
<1>6. Sends(c, d, have, ms)
  BY <1>3, <1>4, <1>5 DEF Sends
<1> QED BY <1>6 DEF ms

\* Two batches to one peer are one batch.
LEMMA SendsThen ==
  ASSUME NEW c \in conn, NEW d \in conn, NEW e \in conn, NEW h, NEW g, h \subseteq g,
         NEW s \in Seq(Msgs), NEW t \in Seq(Msgs),
         Sends(c, d, h, s), Sends(d, e, g, t)
  PROVE  Sends(c, e, g, s \o t)
<1> DEFINE u == s \o t
<1>1. /\ u \in Seq(Msgs)
      /\ Len(u) = Len(s) + Len(t) /\ Len(s) \in Nat /\ Len(t) \in Nat
      /\ \A i \in 1 .. Len(s) + Len(t) : u[i] = IF i <= Len(s) THEN s[i] ELSE t[i - Len(s)]
  <2> HIDE DEF Msgs
  <2> QED BY ConcatProperties
<1>2. \A i \in 1 .. Len(u) : (\E j \in 1 .. Len(s) : u[i] = s[j]) \/ (\E j \in 1 .. Len(t) : u[i] = t[j])
  <2> TAKE i \in 1 .. Len(u)
  <2>1. CASE i <= Len(s)
    BY <1>1, <2>1
  <2>2. CASE i > Len(s)
    <3>1. i - Len(s) \in 1 .. Len(t) /\ u[i] = t[i - Len(s)]
      BY <1>1, <2>2
    <3> QED BY <3>1
  <2>3. i <= Len(s) \/ i > Len(s)
    BY <1>1
  <2> QED BY <2>1, <2>2, <2>3
<1>3. LastOf(u, {"choke", "unchoke"}) =
        IF LastOf(t, {"choke", "unchoke"}) = "none" THEN LastOf(s, {"choke", "unchoke"})
        ELSE LastOf(t, {"choke", "unchoke"})
  <2> DEFINE T == {"choke", "unchoke"}
  <2>1. "none" \notin T
    OBVIOUS
  <2> HIDE DEF T, Msgs
  <2>2. LastOf(u, T) = IF LastOf(t, T) = "none" THEN LastOf(s, T) ELSE LastOf(t, T)
    BY <2>1, LastConcat
  <2> QED BY <2>2 DEF T
<1>4. LastOf(u, {"interested", "not_interested"}) =
        IF LastOf(t, {"interested", "not_interested"}) = "none" THEN LastOf(s, {"interested", "not_interested"})
        ELSE LastOf(t, {"interested", "not_interested"})
  <2> DEFINE T == {"interested", "not_interested"}
  <2>1. "none" \notin T
    OBVIOUS
  <2> HIDE DEF T, Msgs
  <2>2. LastOf(u, T) = IF LastOf(t, T) = "none" THEN LastOf(s, T) ELSE LastOf(t, T)
    BY <2>1, LastConcat
  <2> QED BY <2>2 DEF T
<1>5. ASSUME NEW sp \in SubPieceId
      PROVE  /\ Count(e.outstanding, sp) <= Count(c.outstanding, sp) + Count(u, Request(sp))
             /\ KeptCount(e, sp) = KeptCount(c, sp)
  <2>1. Count(u, Request(sp)) = Count(s, Request(sp)) + Count(t, Request(sp))
    BY CountConcat
  <2>2. /\ Count(s, Request(sp)) \in Nat /\ Count(t, Request(sp)) \in Nat
    BY CountType
  <2>3. /\ Count(c.outstanding, sp) \in Nat /\ Count(d.outstanding, sp) \in Nat
        /\ Count(e.outstanding, sp) \in Nat
    BY KeptCountType
  <2>4. /\ Count(d.outstanding, sp) <= Count(c.outstanding, sp) + Count(s, Request(sp))
        /\ Count(e.outstanding, sp) <= Count(d.outstanding, sp) + Count(t, Request(sp))
        /\ KeptCount(e, sp) = KeptCount(d, sp) /\ KeptCount(d, sp) = KeptCount(c, sp)
    BY DEF Sends
  <2> HIDE DEF u
  <2> QED BY <2>1, <2>2, <2>3, <2>4
<1>6. SameSeen(c, e)
  BY DEF Sends, SameSeen
<1>7. TellsChoke(c, e, u)
  <2> HIDE DEF u
  <2>1. TellsChoke(c, d, s) /\ TellsChoke(d, e, t)
    BY DEF Sends
  <2> QED BY <2>1, <1>3 DEF TellsChoke
<1>8. TellsInterest(c, e, u)
  <2> HIDE DEF u
  <2>1. TellsInterest(c, d, s) /\ TellsInterest(d, e, t)
    BY DEF Sends
  <2> QED BY <2>1, <1>4 DEF TellsInterest
<1>9. ASSUME NEW i \in 1 .. Len(u)
      PROVE  Sendable(c, g, u[i]) /\ (c.handshake_sent \/ u[i] = Blank)
  <2> HIDE DEF u
  <2>1. CASE \E j \in 1 .. Len(s) : u[i] = s[j]
    <3>1. PICK j \in 1 .. Len(s) : u[i] = s[j]
      BY <2>1
    <3>2. Sendable(c, h, s[j]) /\ (c.handshake_sent \/ s[j] = Blank)
      BY DEF Sends
    <3>3. Sendable(c, g, s[j])
      BY <3>2 DEF Sendable
    <3> QED BY <3>1, <3>2, <3>3
  <2>2. CASE \E j \in 1 .. Len(t) : u[i] = t[j]
    <3>1. PICK j \in 1 .. Len(t) : u[i] = t[j]
      BY <2>2
    <3>2. Sendable(d, g, t[j]) /\ (d.handshake_sent \/ t[j] = Blank)
      BY DEF Sends
    <3>3. d.handshake_sent = c.handshake_sent
      BY DEF Sends, SameSeen
    <3>4. t[j].type = "request" => KeptCount(c, t[j].sub) = KeptCount(d, t[j].sub)
      <4>1. t[j] \in Msgs
        BY DEF Msgs
      <4>2. t[j].type = "request" => t[j].sub \in SubPieceId
        BY <4>1, MessageIs, MessageTypes DEF Msgs
      <4> QED BY <4>2 DEF Sends
    <3>5. Sendable(c, g, t[j])
      BY <3>2, <3>4 DEF Sendable
    <3> QED BY <3>1, <3>2, <3>3, <3>5
  <2> QED BY <1>2, <2>1, <2>2
<1>10. Sends(c, e, g, u)
  <2> HIDE DEF u
  <2> QED BY <1>5, <1>6, <1>7, <1>8, <1>9 DEF Sends
<1> QED BY <1>10

\* Two steps of a wire are one step.
LEMMA StepThen ==
  ASSUME NEW w \in WireState, NEW v \in WireState, NEW u \in WireState,
         WireStep(w, v), WireStep(v, u)
  PROVE  WireStep(w, u)
<1>1. PICK m1 \in Seq(Entry) :
        /\ v.out_wire = w.out_wire \o m1
        /\ \A q \in Clients : Sends(w.conns[q], v.conns[q], v.have, For(q, m1))
  BY DEF WireStep
<1>2. PICK m2 \in Seq(Entry) :
        /\ u.out_wire = v.out_wire \o m2
        /\ \A q \in Clients : Sends(v.conns[q], u.conns[q], u.have, For(q, m2))
  BY DEF WireStep
<1>3. w.have \subseteq v.have /\ v.have \subseteq u.have /\ w.out_wire \in Seq(Entry)
  BY DEF WireStep, WireState
<1>4. m1 \o m2 \in Seq(Entry) /\ u.out_wire = w.out_wire \o (m1 \o m2)
  <2> HIDE DEF Entry
  <2>1. m1 \o m2 \in Seq(Entry)
    BY ConcatProperties
  <2>2. (w.out_wire \o m1) \o m2 = w.out_wire \o (m1 \o m2)
    <3> DEFINE o == w.out_wire
    <3>1. o \in Seq(Entry)
      BY <1>3
    <3> HIDE DEF o
    <3>2. (o \o m1) \o m2 = o \o (m1 \o m2)
      BY <3>1, ConcatAssociative
    <3> QED BY <3>2 DEF o
  <2> QED BY <1>1, <1>2, <2>1, <2>2
<1>5. ASSUME NEW q \in Clients
      PROVE  Sends(w.conns[q], u.conns[q], u.have, For(q, m1 \o m2))
  <2>1. w.conns[q] \in conn /\ v.conns[q] \in conn /\ u.conns[q] \in conn
    BY ConnType
  <2>2. For(q, m1) \in Seq(Msgs) /\ For(q, m2) \in Seq(Msgs)
    BY ForType
  <2>3. Sends(w.conns[q], u.conns[q], u.have, For(q, m1) \o For(q, m2))
    BY <1>1, <1>2, <1>3, <2>1, <2>2, SendsThen
  <2> QED BY <2>3, ForConcat
<1> QED BY <1>3, <1>4, <1>5 DEF WireStep

\* A change that nobody is told of, of nothing anybody has to be told of, is a step.
LEMMA StepQuiet ==
  ASSUME NEW w \in WireState, NEW v \in WireState,
         v.out_wire = w.out_wire, w.have \subseteq v.have,
         \A q \in Clients : /\ SameSeen(w.conns[q], v.conns[q])
                            /\ v.conns[q].am_choking = w.conns[q].am_choking
                            /\ v.conns[q].am_interested = w.conns[q].am_interested
                            /\ v.conns[q].outstanding = w.conns[q].outstanding
                            /\ v.conns[q].planned = w.conns[q].planned
  PROVE  WireStep(w, v)
<1>1. <<>> \in Seq(Entry) /\ w.out_wire \o <<>> = w.out_wire
  <2> HIDE DEF Entry
  <2>1. w.out_wire \in Seq(Entry)
    BY DEF WireState
  <2> QED BY <2>1, ConcatEmptySeq
<1>2. ASSUME NEW q \in Clients
      PROVE  Sends(w.conns[q], v.conns[q], v.have, For(q, <<>>))
  <2>1. w.conns[q] \in conn /\ v.conns[q] \in conn
    BY ConnType
  <2>2. For(q, <<>>) \in Seq(Msgs) /\ Len(For(q, <<>>)) = 0
    <3>1. Len(<<>>) = 0
      OBVIOUS
    <3> QED BY <1>1, <3>1, ForType
  <2>3. \A i \in 1 .. Len(For(q, <<>>)) : For(q, <<>>)[i] = Blank
    BY <2>2
  <2> QED BY <2>1, <2>2, <2>3, SendsNothing
<1> QED BY <1>1, <1>2 DEF WireStep

\* Observing is a step.
LEMMA StepObserve ==
  ASSUME NEW w \in WireState, NEW o \in Obs
  PROVE  WireStep(w, observe(w, o))
<1>1. \A q \in Clients : SameSeen(w.conns[q], observe(w, o).conns[q])
  BY ObserveIs DEF SameSeen
<1> QED BY <1>1, ObserveIs, StepQuiet

\* One message to peer, which may change what is kept about it.
LEMMA StepOne ==
  ASSUME NEW w \in WireState, NEW v \in WireState, NEW peer \in Clients, NEW m \in WireMsg,
         w.have \subseteq v.have,
         v.out_wire = Append(w.out_wire, [dst |-> peer, msg |-> m]),
         \A q \in Clients \ {peer} : v.conns[q] = w.conns[q],
         Sends(w.conns[peer], v.conns[peer], v.have, <<m>>)
  PROVE  WireStep(w, v)
<1> DEFINE e == [dst |-> peer, msg |-> m]
<1>1. e \in Entry /\ e.dst = peer /\ e.msg = m
  BY DEF Entry
<1> HIDE DEF e
<1>2. <<e>> \in Seq(Entry) /\ v.out_wire = w.out_wire \o <<e>>
  <2>1. w.out_wire \in Seq(Entry)
    BY DEF WireState
  <2> HIDE DEF Entry
  <2>2. v.out_wire = Append(w.out_wire, e)
    BY DEF e
  <2> QED BY <1>1, <2>1, <2>2, AppendIsConcat
<1>3. ASSUME NEW q \in Clients
      PROVE  Sends(w.conns[q], v.conns[q], v.have, For(q, <<e>>))
  <2>1. CASE q = peer
    <3>1. For(q, <<e>>) = <<m>>
      BY <1>1, <2>1, ForSingle
    <3> QED BY <2>1, <3>1
  <2>2. CASE q # peer
    <3>1. For(q, <<e>>) = <<Blank>>
      BY <1>1, <2>2, ForSingle
    <3>2. w.conns[q] \in conn /\ v.conns[q] = w.conns[q] /\ SameSeen(w.conns[q], v.conns[q])
      BY <2>2, ConnType DEF SameSeen
    <3>3. <<Blank>> \in Seq(Msgs) /\ \A i \in 1 .. Len(<<Blank>>) : <<Blank>>[i] = Blank
      BY DEF Msgs
    <3>4. Sends(w.conns[q], v.conns[q], v.have, <<Blank>>)
      BY <3>2, <3>3, SendsNothing
    <3> QED BY <3>1, <3>4
  <2> QED BY <2>1, <2>2
<1> QED BY <1>2, <1>3 DEF WireStep

\* Interest recomputed towards open connections.
LEMMA StepRecompute ==
  ASSUME NEW w \in WireState, NEW Q, Q \subseteq Clients,
         \A q \in Q : w.conns[q].handshake_sent
  PROVE  WireStep(w, recompute_interest(w, Q))
<1> DEFINE v == recompute_interest(w, Q)
<1>1. v \in WireState
  BY RecomputeIs
<1>2. PICK out \in Seq(Entry) : Recomputes(w, v, Q, out)
  BY RecomputeIs
<1> HIDE DEF v
<1>3. ASSUME NEW q \in Clients
      PROVE  Sends(w.conns[q], v.conns[q], v.have, For(q, out))
  <2> DEFINE ms == For(q, out)
  <2>1. w.conns[q] \in conn /\ v.conns[q] \in conn
    BY <1>1, ConnType
  <2>2. /\ ms \in Seq(Msgs) /\ Len(ms) = Len(out)
        /\ \A i \in 1 .. Len(out) : ms[i] = IF out[i].dst = q THEN out[i].msg ELSE Blank
    BY ForType
  <2> HIDE DEF ms
  <2>3. CASE q \notin Q
    <3>1. v.conns[q] = w.conns[q]
      BY <1>2, <2>3 DEF Recomputes
    <3>2. \A i \in 1 .. Len(ms) : ms[i] = Blank
      BY <1>2, <2>2, <2>3 DEF Recomputes, Announces
    <3>3. SameSeen(w.conns[q], v.conns[q])
      BY <3>1 DEF SameSeen
    <3>4. Sends(w.conns[q], v.conns[q], v.have, ms)
      BY <2>1, <2>2, <3>1, <3>2, <3>3, SendsNothing
    <3> QED BY <3>4 DEF ms
  <2>4. CASE q \in Q
    <3> DEFINE c == w.conns[q]
               d == v.conns[q]
    <3>1. d = [c EXCEPT !.am_interested = Lacks(w, q)]
      BY <1>2, <2>4 DEF Recomputes
    <3>2. c.handshake_sent /\ c \in conn /\ d \in conn
      BY <2>1, <2>4
    <3>3. /\ \A i \in 1 .. Len(ms) :
               \/ ms[i] = Blank
               \/ ms[i] = Interest(TRUE) /\ Lacks(w, q) /\ ~c.am_interested
               \/ ms[i] = Interest(FALSE) /\ ~Lacks(w, q) /\ c.am_interested
          /\ c.am_interested = Lacks(w, q) \/ \E i \in 1 .. Len(ms) : ms[i] # Blank
      <4>1. Announces(w, Q, out)
        BY <1>2 DEF Recomputes
      <4>2. ASSUME NEW i \in 1 .. Len(ms)
            PROVE  \/ ms[i] = Blank
                   \/ ms[i] = Interest(TRUE) /\ Lacks(w, q) /\ ~c.am_interested
                   \/ ms[i] = Interest(FALSE) /\ ~Lacks(w, q) /\ c.am_interested
        BY <2>2, <4>1 DEF Announces
      <4>3. ASSUME NEW i \in 1 .. Len(out), out[i].dst = q
            PROVE  ms[i] # Blank
        <5>1. ms[i] = out[i].msg /\ (out[i].msg = Interest(TRUE) \/ out[i].msg = Interest(FALSE))
          BY <2>2, <4>1, <4>3 DEF Announces
        <5>2. ms[i].type \in {"interested", "not_interested"}
          <6>1. CASE ms[i] = Interest(TRUE)
            BY <6>1, MessageTypes
          <6>2. CASE ms[i] = Interest(FALSE)
            BY <6>2, MessageTypes
          <6> QED BY <5>1, <6>1, <6>2
        <5> QED BY <5>2, MessageTypes
      <4>4. c.am_interested = Lacks(w, q) \/ \E i \in 1 .. Len(out) : out[i].dst = q
        BY <2>4, <4>1 DEF Announces
      <4> QED BY <2>2, <4>2, <4>3, <4>4
    <3>4. SameSeen(c, d) /\ d.am_choking = c.am_choking /\ d.am_interested = Lacks(w, q)
          /\ d.outstanding = c.outstanding /\ d.planned = c.planned
      <4> HIDE DEF c, d
      <4> QED BY <3>1, <3>2 DEF conn, SameSeen
    <3> HIDE DEF c, d
    <3>5. \A i \in 1 .. Len(ms) : ms[i].type \in {"none", "interested", "not_interested"}
      BY <3>3, MessageTypes
    <3>6. TellsChoke(c, d, ms)
      BY <2>2, <3>4, <3>5, NotTold
    <3>7. TellsInterest(c, d, ms)
      <4>1. CASE \A i \in 1 .. Len(ms) : ms[i] = Blank
        <5>1. d.am_interested = c.am_interested
          BY <3>3, <3>4, <4>1
        <5>2. \A i \in 1 .. Len(ms) : ms[i].type \notin {"interested", "not_interested"}
          BY <4>1, MessageTypes
        <5> QED BY <2>2, <5>1, <5>2, InterestNotTold
      <4>2. CASE \E i \in 1 .. Len(ms) : ms[i] # Blank
        <5> DEFINE T == {"interested", "not_interested"}
        <5>1. PICK k \in 1 .. Len(ms) : ms[k] # Blank
          BY <4>2
        <5>2. ms[k].type \in T
          BY <3>3, <5>1, MessageTypes
        <5>3. PICK i \in 1 .. Len(ms) : ms[i].type \in T /\ \A j \in 1 .. Len(ms) : j > i => ms[j].type \notin T
          <6> HIDE DEF T, Msgs
          <6> QED BY <2>2, <5>2, LastExists
        <5>4. LastOf(ms, T) = ms[i].type
          <6> HIDE DEF T, Msgs
          <6> QED BY <2>2, <5>3, LastIs
        <5>5. \/ ms[i].type = "interested" /\ Lacks(w, q)
              \/ ms[i].type = "not_interested" /\ ~Lacks(w, q)
          BY <3>3, <5>3, MessageTypes
        <5> QED BY <3>4, <5>4, <5>5 DEF TellsInterest
      <4> QED BY <4>1, <4>2
    <3>8. \A i \in 1 .. Len(ms) : Sendable(c, v.have, ms[i])
      BY <3>5 DEF Sendable
    <3>9. \A sp \in SubPieceId :
            /\ Count(d.outstanding, sp) <= Count(c.outstanding, sp) + Count(ms, Request(sp))
            /\ KeptCount(d, sp) = KeptCount(c, sp)
      <4> TAKE sp \in SubPieceId
      <4>1. Count(ms, Request(sp)) \in Nat
        BY <2>2, CountType
      <4>2. Count(c.outstanding, sp) \in Nat
        BY <3>2, KeptCountType
      <4> QED BY <3>4, <4>1, <4>2 DEF KeptCount
    <3>10. Sends(c, d, v.have, ms)
      BY <3>2, <3>4, <3>6, <3>7, <3>8, <3>9 DEF Sends
    <3> QED BY <3>10 DEF ms, c, d
  <2> QED BY <2>3, <2>4
<1>4. WireStep(w, v)
  BY <1>2, <1>3 DEF WireStep, Recomputes
<1> QED BY <1>4 DEF v

\* The pipeline filled with planned sub-pieces.
LEMMA StepFill ==
  ASSUME NEW w \in WireState, NEW peer \in Clients,
         Len(w.conns[peer].outstanding) <= PipelineDepth, w.conns[peer].handshake_sent
  PROVE  WireStep(w, fill_pipeline(w, peer))
<1> DEFINE v == fill_pipeline(w, peer)
<1>1. v \in WireState
  BY FillPipelineIs
<1>2. PICK n \in 0 .. Len(w.conns[peer].planned) : Fills(w, v, peer, n)
  BY FillPipelineIs
<1> HIDE DEF v
<1> DEFINE c == w.conns[peer]
           d == v.conns[peer]
           asked == SubSeq(c.planned, 1, n)
           rest == SubSeq(c.planned, n + 1, Len(c.planned))
           out == [i \in 1 .. n |-> [dst |-> peer, msg |-> Request(asked[i])]]
<1>3. /\ c \in conn /\ c.outstanding \in Seq(SubPieceId) /\ c.planned \in Seq(SubPieceId)
      /\ n \in 0 .. Len(c.planned) /\ n \in Nat /\ d \in conn
  BY <1>1, ConnType
<1>4. asked \in Seq(SubPieceId) /\ rest \in Seq(SubPieceId) /\ Len(asked) = n /\ c.planned = asked \o rest
  BY <1>3, ConcatSplit
<1>5. /\ v.have = w.have /\ v.out_wire = w.out_wire \o out
      /\ \A q \in Clients \ {peer} : v.conns[q] = w.conns[q]
      /\ d = [c EXCEPT !.outstanding = c.outstanding \o asked, !.planned = rest]
  BY <1>2 DEF Fills
<1> HIDE DEF asked, rest
<1>6. \A i \in 1 .. n : /\ asked[i] \in SubPieceId /\ out[i] = [dst |-> peer, msg |-> Request(asked[i])]
                        /\ out[i].dst = peer /\ out[i].msg = Request(asked[i])
  BY <1>4
<1>7. out \in Seq(Entry) /\ Len(out) = n
  <2>1. \A i \in 1 .. n : out[i] \in Entry
    BY <1>6, MessageTypes DEF Entry
  <2>2. out = [i \in 1 .. n |-> out[i]]
    BY <1>6
  <2> HIDE DEF Entry, out
  <2>3. out \in [1 .. n -> Entry]
    BY <2>1, <2>2
  <2> QED BY <1>3, <2>3, SequenceOfFunction
<1> HIDE DEF out
<1>8. ASSUME NEW q \in Clients
      PROVE  Sends(w.conns[q], v.conns[q], v.have, For(q, out))
  <2> DEFINE ms == For(q, out)
  <2>2. /\ ms \in Seq(Msgs) /\ Len(ms) = n
        /\ \A i \in 1 .. n : ms[i] = IF q = peer THEN Request(asked[i]) ELSE Blank
    <3>1. /\ ms \in Seq(Msgs) /\ Len(ms) = n
          /\ \A i \in 1 .. n : ms[i] = IF out[i].dst = q THEN out[i].msg ELSE Blank
      BY <1>7, ForType
    <3>2. ASSUME NEW i \in 1 .. n
          PROVE  ms[i] = IF q = peer THEN Request(asked[i]) ELSE Blank
      <4>1. out[i].dst = peer /\ out[i].msg = Request(asked[i])
        BY <1>6
      <4> QED BY <3>1, <4>1
    <3> QED BY <3>1, <3>2
  <2> HIDE DEF ms
  <2>3. CASE q # peer
    <3>1. w.conns[q] \in conn /\ v.conns[q] = w.conns[q] /\ SameSeen(w.conns[q], v.conns[q])
      BY <1>5, <2>3, ConnType DEF SameSeen
    <3>2. \A i \in 1 .. Len(ms) : ms[i] = Blank
      BY <2>2, <2>3
    <3>3. Sends(w.conns[q], v.conns[q], v.have, ms)
      BY <2>2, <3>1, <3>2, SendsNothing
    <3> QED BY <3>3 DEF ms
  <2>4. CASE q = peer
    <3>1. \A i \in 1 .. Len(ms) : ms[i] = Request(asked[i]) /\ asked[i] \in SubPieceId
                                 /\ ms[i].type = "request" /\ ms[i].sub = asked[i]
      <4> TAKE i \in 1 .. Len(ms)
      <4>1. ms[i] = Request(asked[i]) /\ asked[i] \in SubPieceId
        BY <1>6, <2>2, <2>4
      <4> QED BY <4>1, MessageTypes
    <3> HIDE DEF c, d
    <3>2. /\ SameSeen(c, d) /\ d.am_choking = c.am_choking /\ d.am_interested = c.am_interested
          /\ d.outstanding = c.outstanding \o asked /\ d.planned = rest
      BY <1>3, <1>5 DEF conn, SameSeen
    <3>3. TellsChoke(c, d, ms) /\ TellsInterest(c, d, ms)
      BY <2>2, <3>1, <3>2, NotTold, InterestNotTold
    <3>4. ASSUME NEW sp \in SubPieceId
          PROVE  Count(ms, Request(sp)) = Count(asked, sp)
      <4>1. \A i \in 1 .. n : ms[i] = Request(sp) <=> asked[i] = sp
        BY <3>1, <2>2, MessageTypes
      <4>2. {i \in 1 .. Len(ms) : ms[i] = Request(sp)} = {i \in 1 .. Len(asked) : asked[i] = sp}
        BY <4>1, <1>4, <2>2
      <4> QED BY <4>2 DEF Count
    <3>5. ASSUME NEW sp \in SubPieceId
          PROVE  /\ Count(d.outstanding, sp) <= Count(c.outstanding, sp) + Count(ms, Request(sp))
                 /\ KeptCount(d, sp) = KeptCount(c, sp)
                 /\ KeptCount(c, sp) = Count(c.outstanding, sp) + Count(asked, sp) + Count(rest, sp)
      <4>1. Count(d.outstanding, sp) = Count(c.outstanding, sp) + Count(asked, sp)
        BY <1>3, <1>4, <3>2, CountConcat
      <4>2. Count(c.planned, sp) = Count(asked, sp) + Count(rest, sp)
        BY <1>4, CountConcat
      <4>3. /\ Count(c.outstanding, sp) \in Nat /\ Count(asked, sp) \in Nat
            /\ Count(rest, sp) \in Nat /\ Count(d.outstanding, sp) \in Nat
        BY <1>3, <1>4, KeptCountType, CountType
      <4> QED BY <3>2, <3>4, <4>1, <4>2, <4>3 DEF KeptCount
    <3>6. ASSUME NEW i \in 1 .. Len(ms)
          PROVE  Sendable(c, v.have, ms[i])
      <4>1. Contains(asked, asked[i])
        BY <1>4, <2>2 DEF Contains
      <4>2. Count(asked, asked[i]) > 0
        BY <1>4, <4>1, CountContains
      <4>3. /\ Count(c.outstanding, asked[i]) \in Nat /\ Count(asked, asked[i]) \in Nat
            /\ Count(rest, asked[i]) \in Nat
        BY <1>3, <1>4, KeptCountType, CountType
      <4>4. KeptCount(c, asked[i]) > 0
        BY <3>1, <3>5, <4>2, <4>3
      <4> QED BY <3>1, <4>4 DEF Sendable
    <3>7. c.handshake_sent
      BY DEF c
    <3>8. Sends(c, d, v.have, ms)
      BY <3>2, <3>3, <3>5, <3>6, <3>7 DEF Sends
    <3> QED BY <2>4, <3>8 DEF ms, c, d
  <2> QED BY <2>3, <2>4
<1>9. WireStep(w, v)
  BY <1>5, <1>7, <1>8 DEF WireStep
<1> QED BY <1>9 DEF v

\* What holds of every connection of a client.
ConnGood(c) ==
  /\ c.handshake_received => c.handshake_sent
  /\ ~c.handshake_received => c.peer_bitfield = {} /\ c.peer_choking
  /\ c.peer_choking => c.outstanding = <<>>
  /\ Len(c.outstanding) <= PipelineDepth
\* Interest is current.
Current(c, have) == c.am_interested <=> c.peer_bitfield \ have # {}

\* The same of a wire, but for interest in the peers of Q.
GoodBut(w, Q) ==
  /\ \A q \in Clients : ConnGood(w.conns[q])
  /\ \A q \in Clients \ Q : Current(w.conns[q], w.have)
Good(w) == GoodBut(w, {})

\* Connections and possessions are all that Good speaks of.
LEMMA GoodSame ==
  ASSUME NEW w, NEW v, NEW Q, GoodBut(w, Q), v.conns = w.conns, v.have = w.have
  PROVE  GoodBut(v, Q)
  BY DEF GoodBut

\* recompute_interest makes interest current towards the peers of Q, as a step.
LEMMA GoodRecompute ==
  ASSUME NEW w \in WireState, NEW Q, Q \subseteq Clients, GoodBut(w, Q)
  PROVE  Good(recompute_interest(w, Q))
<1> DEFINE v == recompute_interest(w, Q)
<1>1. PICK out \in Seq(Entry) : Recomputes(w, v, Q, out)
  BY RecomputeIs
<1> HIDE DEF v
<1>2. /\ v.have = w.have
      /\ \A q \in Clients \ Q : v.conns[q] = w.conns[q]
      /\ \A q \in Q : v.conns[q] = [w.conns[q] EXCEPT !.am_interested = Lacks(w, q)]
  BY <1>1 DEF Recomputes
<1>3. ASSUME NEW q \in Clients
      PROVE  ConnGood(v.conns[q]) /\ Current(v.conns[q], v.have)
  <2>1. CASE q \notin Q
    BY <1>2, <2>1 DEF GoodBut
  <2>2. CASE q \in Q
    <3> DEFINE c == w.conns[q]
               d == v.conns[q]
    <3>1. c \in conn /\ ConnGood(c) /\ d = [c EXCEPT !.am_interested = Lacks(w, q)]
      BY <1>2, <2>2, ConnType DEF GoodBut
    <3>2. Lacks(w, q) <=> c.peer_bitfield \ w.have # {}
      BY DEF Lacks
    <3> HIDE DEF c, d
    <3>3. /\ d.am_interested = Lacks(w, q) /\ d.peer_bitfield = c.peer_bitfield
          /\ d.handshake_sent = c.handshake_sent /\ d.handshake_received = c.handshake_received
          /\ d.peer_choking = c.peer_choking /\ d.outstanding = c.outstanding
      BY <3>1 DEF conn
    <3>4. ConnGood(d)
      BY <3>1, <3>3 DEF ConnGood
    <3>5. Current(d, v.have)
      BY <1>2, <3>2, <3>3 DEF Current
    <3> QED BY <3>4, <3>5 DEF d
  <2> QED BY <2>1, <2>2
<1>4. Good(v)
  BY <1>3 DEF Good, GoodBut
<1> QED BY <1>4 DEF v

\* fill_pipeline keeps connections good, as a step.
LEMMA GoodFill ==
  ASSUME NEW w \in WireState, NEW peer \in Clients, Good(w)
  PROVE  Good(fill_pipeline(w, peer))
<1> DEFINE v == fill_pipeline(w, peer)
           c == w.conns[peer]
           d == v.conns[peer]
<1>0. c \in conn /\ ConnGood(c) /\ Current(c, w.have) /\ Len(c.outstanding) <= PipelineDepth
  BY ConnType DEF Good, GoodBut, ConnGood
<1>1. v \in WireState
  BY <1>0, FillPipelineIs
<1>2. PICK n \in 0 .. Len(c.planned) :
        /\ Len(c.outstanding) + n <= PipelineDepth
        /\ c.peer_choking => n = 0
        /\ Fills(w, v, peer, n)
  BY <1>0, FillPipelineIs
<1> HIDE DEF v
<1> DEFINE asked == SubSeq(c.planned, 1, n)
<1>3. /\ v.have = w.have
      /\ \A q \in Clients \ {peer} : v.conns[q] = w.conns[q]
      /\ d = [c EXCEPT !.outstanding = c.outstanding \o asked,
                       !.planned = SubSeq(c.planned, n + 1, Len(c.planned))]
  BY <1>2 DEF Fills
<1>4. c.outstanding \in Seq(SubPieceId) /\ c.planned \in Seq(SubPieceId)
  BY ConnType
<1>5. asked \in Seq(SubPieceId) /\ Len(asked) = n /\ n \in Nat
  BY <1>2, <1>4, ConcatSplit
<1> HIDE DEF asked, c, d
<1>6. /\ d.handshake_sent = c.handshake_sent /\ d.handshake_received = c.handshake_received
      /\ d.peer_choking = c.peer_choking /\ d.am_interested = c.am_interested
      /\ d.peer_bitfield = c.peer_bitfield /\ d.outstanding = c.outstanding \o asked
  BY <1>0, <1>3 DEF conn
<1>7. Len(d.outstanding) <= PipelineDepth
  <2>1. Len(c.outstanding \o asked) = Len(c.outstanding) + n
    <3> DEFINE o == c.outstanding
    <3>1. o \in Seq(SubPieceId)
      BY <1>4
    <3> HIDE DEF o
    <3>2. Len(o \o asked) = Len(o) + Len(asked)
      BY <1>5, <3>1, ConcatProperties
    <3> QED BY <1>5, <3>2 DEF o
  <2>2. Len(d.outstanding) = Len(c.outstanding) + n
    BY <1>6, <2>1
  <2>3. Len(c.outstanding) + n <= PipelineDepth
    BY <1>2
  <2> QED BY <2>2, <2>3
<1>8. c.peer_choking => d.outstanding = <<>>
  <2>1. SUFFICES ASSUME c.peer_choking PROVE d.outstanding = <<>>
    OBVIOUS
  <2>2. c.outstanding = <<>> /\ Len(asked) = 0
    BY <1>0, <1>2, <1>5, <2>1 DEF ConnGood
  <2>3. asked = <<>>
    BY <1>5, <2>2
  <2> QED BY <1>6, <2>2, <2>3
<1>9. ConnGood(d) /\ Current(d, v.have)
  BY <1>0, <1>3, <1>6, <1>7, <1>8 DEF ConnGood, Current
<1>10. ASSUME NEW q \in Clients
       PROVE  ConnGood(v.conns[q]) /\ Current(v.conns[q], v.have)
  <2>1. CASE q = peer
    BY <1>9, <2>1 DEF d
  <2>2. CASE q # peer
    BY <1>3, <2>2 DEF Good, GoodBut
  <2> QED BY <2>1, <2>2
<1>11. Good(v)
  BY <1>10 DEF Good, GoodBut
<1> QED BY <1>11 DEF v

\* A connection replaced.
LEMMA GoodWithConn ==
  ASSUME NEW w \in WireState, NEW peer \in Clients, NEW c \in conn, NEW Q,
         GoodBut(w, Q), ConnGood(c), peer \in Q \/ Current(c, w.have)
  PROVE  GoodBut(WithConn(w, peer, c), Q)
<1> DEFINE v == WithConn(w, peer, c)
<1>1. /\ v.have = w.have /\ v.conns[peer] = c
      /\ \A q \in Clients \ {peer} : v.conns[q] = w.conns[q]
  BY WithConnIs
<1> HIDE DEF v
<1>2. GoodBut(v, Q)
  BY <1>1 DEF GoodBut
<1> QED BY <1>2 DEF v

-----------------------------------------------------------------------------
\* The handlers.
Unchoked(c) == [c EXCEPT !.peer_choking = FALSE]

\* Unchoked, the client sends requests as a step after the flag is set.
LEMMA OnUnchokeIs ==
  ASSUME NEW w \in WireState, Good(w), NEW src \in Clients, w.conns[src].handshake_received
  PROVE  LET v1 == WithConn(w, src, Unchoked(w.conns[src]))
             v == OnUnchoke(w, src)
         IN  /\ Unchoked(w.conns[src]) \in conn /\ v1 \in WireState
             /\ v \in WireState /\ Good(v)
             /\ v.have = w.have /\ v.out_obs = w.out_obs /\ WireStep(v1, v)
<1> DEFINE c == w.conns[src]
           d == Unchoked(c)
           v1 == WithConn(w, src, d)
           v == OnUnchoke(w, src)
<1>1. c \in conn /\ ConnGood(c) /\ Current(c, w.have) /\ c.handshake_received
  BY ConnType DEF Good, GoodBut
<1>2. d \in conn /\ ConnGood(d) /\ Current(d, w.have) /\ d.handshake_sent
  <2> HIDE DEF c
  <2> QED BY <1>1 DEF conn, ConnGood, Current, Unchoked
<1>3. v = fill_pipeline(v1, src)
  BY DEF OnUnchoke, WithConn, Unchoked
<1>4. /\ v1 \in WireState /\ Good(v1) /\ v1.conns[src] = d
      /\ v1.have = w.have /\ v1.out_obs = w.out_obs
  <2> HIDE DEF d
  <2> QED BY <1>2, WithConnIs, GoodWithConn DEF Good
<1>5. Len(v1.conns[src].outstanding) <= PipelineDepth /\ v1.conns[src].handshake_sent
  BY <1>2, <1>4 DEF ConnGood
<1> HIDE DEF v1, v, d
<1>6. v \in WireState /\ Good(v) /\ WireStep(v1, v)
  BY <1>3, <1>4, <1>5, FillPipelineIs, GoodFill, StepFill
<1>7. v.have = w.have /\ v.out_obs = w.out_obs
  BY <1>3, <1>4, <1>5, FillPipelineIs DEF Fills
<1> QED BY <1>2, <1>4, <1>6, <1>7 DEF v1, v, d

\* Choked: what was requested is planned again, in front.
Choked(c) == [c EXCEPT !.peer_choking = TRUE,
                       !.planned = c.outstanding \o @,
                       !.outstanding = <<>>]

\* Choked, the client sends nothing.
LEMMA OnChokeIs ==
  ASSUME NEW w \in WireState, Good(w), NEW src \in Clients, w.conns[src].handshake_received
  PROVE  LET v == OnChoke(w, src)
         IN  /\ Choked(w.conns[src]) \in conn
             /\ v = WithConn(w, src, Choked(w.conns[src])) /\ v \in WireState /\ Good(v)
<1> DEFINE c == w.conns[src]
           d == Choked(c)
           v == OnChoke(w, src)
<1>1. /\ c \in conn /\ ConnGood(c) /\ Current(c, w.have) /\ c.handshake_received
      /\ c.outstanding \in Seq(SubPieceId) /\ c.planned \in Seq(SubPieceId)
  BY ConnType DEF Good, GoodBut
<1>2. d \in conn /\ ConnGood(d) /\ Current(d, w.have)
  <2> HIDE DEF c
  <2>1. c.outstanding \o c.planned \in Seq(SubPieceId) /\ <<>> \in Seq(SubPieceId)
    BY <1>1
  <2>2. d = [c EXCEPT !.peer_choking = TRUE, !.planned = c.outstanding \o c.planned,
                      !.outstanding = <<>>]
    BY <1>1 DEF conn, Choked
  <2>3. d \in conn
    BY <1>1, <2>1, <2>2 DEF conn
  <2>4. /\ d.handshake_sent = c.handshake_sent /\ d.handshake_received = c.handshake_received
        /\ d.outstanding = <<>> /\ d.am_interested = c.am_interested
        /\ d.peer_bitfield = c.peer_bitfield
    BY <1>1, <2>2 DEF conn
  <2>5. Len(<<>>) <= PipelineDepth
    BY GeometryAssumption
  <2> HIDE DEF d
  <2> QED BY <1>1, <2>3, <2>4, <2>5 DEF ConnGood, Current
<1>3. v = WithConn(w, src, d)
  BY <1>1 DEF OnChoke, WithConn, Choked, WireState, conn
<1> HIDE DEF d
<1> QED BY <1>2, <1>3, WithConnIs, GoodWithConn DEF Good, d

\* The peer's interest has changed.
Interested(c, b) == [c EXCEPT !.peer_interested = b]

\* A change of interest is observed.
LEMMA OnInterestIs ==
  ASSUME NEW w \in WireState, Good(w), NEW src \in Clients, NEW b \in BOOLEAN
  PROVE  LET v1 == WithConn(w, src, Interested(w.conns[src], b))
             v == OnInterest(w, src, b)
         IN  /\ Interested(w.conns[src], b) \in conn /\ v1 \in WireState
             /\ v \in WireState /\ Good(v) /\ v.have = w.have /\ WireStep(v1, v)
             /\ v.out_obs = Append(w.out_obs, obs_peer_interest(src, b))
<1> DEFINE c == w.conns[src]
           d == Interested(c, b)
           v1 == WithConn(w, src, d)
           v == OnInterest(w, src, b)
           o == obs_peer_interest(src, b)
<1>1. c \in conn /\ ConnGood(c) /\ Current(c, w.have)
  BY ConnType DEF Good, GoodBut
<1>2. d \in conn /\ ConnGood(d) /\ Current(d, w.have)
  <2> HIDE DEF c
  <2> QED BY <1>1 DEF conn, ConnGood, Current, Interested
<1>3. v = observe(v1, o)
  BY DEF OnInterest, WithConn, Interested
<1>4. /\ v1 \in WireState /\ Good(v1) /\ v1.have = w.have /\ v1.out_obs = w.out_obs
  <2> HIDE DEF d
  <2> QED BY <1>2, WithConnIs, GoodWithConn DEF Good
<1>5. o \in Obs
  BY ObservationTypes
<1> HIDE DEF v1, v, d, o
<1>6. v \in WireState /\ WireStep(v1, v) /\ v.have = w.have /\ v.out_obs = Append(w.out_obs, o)
  BY <1>3, <1>4, <1>5, ObserveIs, StepObserve
<1>7. v.conns = v1.conns /\ v.have = v1.have
  BY <1>3, <1>4, <1>5, ObserveIs
<1>8. Good(v)
  BY <1>4, <1>7, GoodSame DEF Good
<1> QED BY <1>2, <1>4, <1>6, <1>8 DEF v1, v, d, o

\* The peer has announced.
Announced(c, bits) == [c EXCEPT !.peer_bitfield = bits]

\* An announcement is recorded; then interest is recomputed, as a step, and observed.
LEMMA OnAvailabilityIs ==
  ASSUME NEW w \in WireState, Good(w), NEW src \in Clients, NEW bits \in SUBSET Pieces,
         w.conns[src].handshake_received
  PROVE  LET v1 == WithConn(w, src, Announced(w.conns[src], bits))
             v == OnAvailability(w, src, bits)
         IN  /\ Announced(w.conns[src], bits) \in conn /\ v1 \in WireState
             /\ v \in WireState /\ Good(v) /\ v.have = w.have /\ WireStep(v1, v)
             /\ v.out_obs = Append(w.out_obs, obs_availability(src, bits))
<1> DEFINE c == w.conns[src]
           d == Announced(c, bits)
           v1 == WithConn(w, src, d)
           v2 == recompute_interest(v1, {src})
           v == OnAvailability(w, src, bits)
           o == obs_availability(src, bits)
<1>1. c \in conn /\ ConnGood(c) /\ c.handshake_received /\ GoodBut(w, {src})
  BY ConnType DEF Good, GoodBut
<1>2. d \in conn /\ ConnGood(d) /\ d.handshake_sent
  <2> HIDE DEF c
  <2> QED BY <1>1 DEF conn, ConnGood, Announced
<1>3. v = observe(v2, o)
  BY DEF OnAvailability, WithConn, Announced
<1>4. /\ v1 \in WireState /\ GoodBut(v1, {src}) /\ v1.have = w.have /\ v1.out_obs = w.out_obs
      /\ v1.conns[src] = d
  <2> HIDE DEF d
  <2> QED BY <1>1, <1>2, WithConnIs, GoodWithConn
<1>5. o \in Obs
  BY ObservationTypes
<1> HIDE DEF v1, v, d, o
<1>6. {src} \subseteq Clients /\ \A q \in {src} : v1.conns[q].handshake_sent
  BY <1>2, <1>4
<1>7. v2 \in WireState /\ Good(v2) /\ WireStep(v1, v2)
  BY <1>4, <1>6, RecomputeIs, GoodRecompute, StepRecompute
<1>8. v2.have = w.have /\ v2.out_obs = w.out_obs
  BY <1>4, <1>6, RecomputeIs DEF Recomputes
<1> HIDE DEF v2
<1>9. v \in WireState /\ WireStep(v2, v) /\ v.have = w.have /\ v.out_obs = Append(w.out_obs, o)
      /\ v.conns = v2.conns
  BY <1>3, <1>5, <1>7, <1>8, ObserveIs, StepObserve
<1>10. Good(v)
  BY <1>7, <1>8, <1>9, GoodSame DEF Good
<1>11. WireStep(v1, v)
  BY <1>4, <1>7, <1>9, StepThen
<1> QED BY <1>2, <1>4, <1>9, <1>10, <1>11 DEF v1, v, d, o

\* A request is answered, as a step, or ignored.
LEMMA OnRequestIs ==
  ASSUME NEW w \in WireState, Good(w), NEW src \in Clients, NEW sp \in SubPieceId,
         w.conns[src].handshake_received
  PROVE  LET v == OnRequest(w, src, sp)
         IN  /\ v \in WireState /\ Good(v) /\ v.have = w.have /\ WireStep(w, v)
             /\ \/ v.out_obs = w.out_obs
                \/ v.out_obs = Append(w.out_obs, obs_upload(src, sp[1]))
<1> DEFINE v == OnRequest(w, src, sp)
           u == queue_to(w, src, Piece(sp))
           o == obs_upload(src, sp[1])
           m == Piece(sp)
           c == w.conns[src]
<1>1. CASE w.conns[src].am_choking \/ missing(w, sp[1])
  <2>1. v = w
    BY <1>1 DEF OnRequest
  <2>2. WireStep(w, w)
    <3>1. \A q \in Clients : SameSeen(w.conns[q], w.conns[q])
      BY DEF SameSeen
    <3> QED BY <3>1, StepQuiet
  <2> HIDE DEF v
  <2>3. v.out_obs = w.out_obs
    BY <2>1
  <2> QED BY <2>1, <2>2, <2>3 DEF v
<1>2. CASE ~(w.conns[src].am_choking \/ missing(w, sp[1]))
  <2>1. v = observe(u, o) /\ sp[1] \in w.have
    BY <1>2 DEF OnRequest, missing
  <2>2. /\ m \in WireMsg /\ m.type = "piece" /\ m.sub = sp
    BY MessageTypes
  <2>3. sp[1] \in Pieces /\ o \in Obs
    <3>1. sp[1] \in Pieces
      BY DEF SubPieceId
    <3> QED BY <3>1, ObservationTypes
  <2> HIDE DEF m, o
  <2>4. /\ u \in WireState /\ u.have = w.have /\ u.conns = w.conns /\ u.out_obs = w.out_obs
        /\ u.out_wire = Append(w.out_wire, [dst |-> src, msg |-> m])
    BY <2>2, QueueTo DEF m
  <2>5. c \in conn /\ c.handshake_sent /\ SameSeen(c, c)
    BY ConnType DEF Good, GoodBut, ConnGood, SameSeen
  <2> HIDE DEF c, u, v
  <2>6. TellsChoke(c, c, <<m>>) /\ TellsInterest(c, c, <<m>>)
    <3>1. <<m>> \in Seq(Msgs) /\ \A i \in 1 .. Len(<<m>>) : <<m>>[i].type = "piece"
      BY <2>2 DEF Msgs
    <3> QED BY <3>1, NotTold, InterestNotTold
  <2>7. Sendable(c, u.have, m)
    BY <2>1, <2>2, <2>4 DEF Sendable
  <2>8. Sends(c, c, u.have, <<m>>)
    BY <2>2, <2>5, <2>6, <2>7, SendsOne
  <2>9. WireStep(w, u)
    <3>1. Sends(w.conns[src], u.conns[src], u.have, <<m>>)
      BY <2>4, <2>8 DEF c
    <3> QED BY <2>2, <2>4, <3>1, StepOne
  <2>10. /\ v \in WireState /\ v.have = u.have /\ v.conns = u.conns
         /\ v.out_obs = Append(u.out_obs, o) /\ WireStep(u, v)
    BY <2>1, <2>3, <2>4, ObserveIs, StepObserve
  <2>11. WireStep(w, v)
    BY <2>4, <2>9, <2>10, StepThen
  <2>12. Good(v)
    BY <2>4, <2>10, GoodSame DEF Good
  <2> QED BY <2>4, <2>10, <2>11, <2>12 DEF v, o
<1> QED BY <1>1, <1>2

-----------------------------------------------------------------------------
\* A sub-piece that was requested has come.
Delivered(c, sp) ==
  [c EXCEPT !.outstanding = RemoveFirst(@, sp), !.in_progress[sp[1]] = @ \cup {sp[2]}]

\* A delivered sub-piece leaves the requests.
LEMMA DeliveredType ==
  ASSUME NEW c \in conn, NEW sp \in SubPieceId, Contains(c.outstanding, sp)
  PROVE  LET d == Delivered(c, sp)
         IN  /\ d \in conn /\ SameSeen(c, d)
             /\ d.am_choking = c.am_choking /\ d.am_interested = c.am_interested
             /\ d.planned = c.planned /\ d.outstanding = RemoveFirst(c.outstanding, sp)
             /\ Len(d.outstanding) = Len(c.outstanding) - 1
<1> DEFINE d == Delivered(c, sp)
           r == RemoveFirst(c.outstanding, sp)
<1>1. c.outstanding \in Seq(SubPieceId) /\ c.in_progress \in [Pieces -> SUBSET SubPieces]
  BY DEF conn
<1>2. r \in Seq(SubPieceId) /\ Len(r) = Len(c.outstanding) - 1
  BY <1>1, CountRemoveFirst
<1>3. sp[1] \in Pieces /\ sp[2] \in SubPieces
  BY DEF SubPieceId
<1>4. d = [c EXCEPT !.outstanding = r,
                    !.in_progress = [c.in_progress EXCEPT ![sp[1]] = @ \cup {sp[2]}]]
  BY <1>3 DEF Delivered, conn
<1>5. [c.in_progress EXCEPT ![sp[1]] = @ \cup {sp[2]}] \in [Pieces -> SUBSET SubPieces]
  BY <1>1, <1>3
<1> HIDE DEF r, d
<1>6. /\ d \in conn /\ SameSeen(c, d)
      /\ d.am_choking = c.am_choking /\ d.am_interested = c.am_interested
      /\ d.planned = c.planned /\ d.outstanding = r
  BY <1>2, <1>4, <1>5 DEF conn, SameSeen
<1> QED BY <1>2, <1>6 DEF r, d

\* The piece is complete: it is announced, and interest may end.
LEMMA CompletePieceIs ==
  ASSUME NEW w \in WireState, GoodBut(w, {}), NEW src \in Clients, NEW p \in Pieces,
         w.conns[src].handshake_received
  PROVE  LET v == CompletePiece(w, src, p)
         IN  /\ v \in WireState /\ Good(v) /\ v.have = w.have \cup {p} /\ v.out_obs = w.out_obs
             /\ WireStep(w, v)
<1> DEFINE c == w.conns[src]
           d == [c EXCEPT !.in_progress = [c.in_progress EXCEPT ![p] = {}]]
           m == Have(p)
           w1 == [w EXCEPT !.have = @ \cup {p}, !.conns[src].in_progress[p] = {}]
           u == queue_to(w1, src, m)
           Q == {q \in Clients : HasConn(u, q)}
           v == CompletePiece(w, src, p)
<1>1. c \in conn /\ c.in_progress \in [Pieces -> SUBSET SubPieces] /\ c.handshake_sent
  BY ConnType DEF GoodBut, ConnGood
<1>2. /\ d \in conn /\ SameSeen(c, d)
      /\ d.am_choking = c.am_choking /\ d.am_interested = c.am_interested
      /\ d.planned = c.planned /\ d.outstanding = c.outstanding
  <2>1. [c.in_progress EXCEPT ![p] = {}] \in [Pieces -> SUBSET SubPieces]
    BY <1>1
  <2> HIDE DEF c
  <2> QED BY <1>1, <2>1 DEF conn, SameSeen
<1>3. /\ w1 = [WithConn(w, src, d) EXCEPT !.have = w.have \cup {p}]
  BY <1>1 DEF WithConn, WireState, conn
<1>4. /\ w1 \in WireState /\ w1.have = w.have \cup {p} /\ w1.out_obs = w.out_obs
      /\ w1.out_wire = w.out_wire /\ w1.conns[src] = d
      /\ \A q \in Clients \ {src} : w1.conns[q] = w.conns[q]
  <2> DEFINE x == WithConn(w, src, d)
  <2>1. /\ x \in WireState /\ x.have = w.have /\ x.out_obs = w.out_obs
        /\ x.out_wire = w.out_wire /\ x.conns[src] = d
        /\ \A q \in Clients \ {src} : x.conns[q] = w.conns[q]
    <3> HIDE DEF d
    <3> QED BY <1>2, WithConnIs
  <2>2. w1 = [x EXCEPT !.have = w.have \cup {p}]
    BY <1>3
  <2>3. w.have \cup {p} \in SUBSET Pieces
    BY DEF WireState
  <2> HIDE DEF x, w1, d
  <2> QED BY <2>1, <2>2, <2>3 DEF WireState
<1>5. m \in WireMsg /\ m.type = "have" /\ m.index = p
  BY MessageTypes
<1> HIDE DEF w1, m, d
<1>6. /\ u \in WireState /\ u.have = w.have \cup {p} /\ u.out_obs = w.out_obs
      /\ u.out_wire = Append(w.out_wire, [dst |-> src, msg |-> m])
      /\ u.conns = w1.conns
  BY <1>4, <1>5, QueueTo
<1>7. v = recompute_interest(u, Q)
  BY DEF CompletePiece, RecomputeAllInterest, u, w1, m
<1> HIDE DEF u, v
<1>8. WireStep(w, u)
  <2>1. TellsChoke(c, d, <<m>>) /\ TellsInterest(c, d, <<m>>)
    <3>1. <<m>> \in Seq(Msgs) /\ \A i \in 1 .. Len(<<m>>) : <<m>>[i].type = "have"
      BY <1>5 DEF Msgs
    <3> HIDE DEF c
    <3> QED BY <1>2, <3>1, NotTold, InterestNotTold
  <2>2. Sendable(c, u.have, m)
    BY <1>5, <1>6 DEF Sendable
  <2>3. Sends(c, d, u.have, <<m>>)
    <3> HIDE DEF c
    <3> QED BY <1>1, <1>2, <1>5, <2>1, <2>2, SendsOne
  <2>4. u.conns[src] = d /\ \A q \in Clients \ {src} : u.conns[q] = w.conns[q]
    BY <1>4, <1>6
  <2> QED BY <1>5, <1>6, <2>3, <2>4, StepOne
<1>9. GoodBut(u, Q)
  <2>1. ASSUME NEW q \in Clients
        PROVE  ConnGood(u.conns[q]) /\ (q \in Q \/ Current(u.conns[q], u.have))
    <3>1. CASE q = src
      <4>1. u.conns[q] = d /\ ConnGood(c)
        BY <1>4, <1>6, <3>1 DEF GoodBut
      <4>2. ConnGood(d) /\ d.handshake_sent
        <5> HIDE DEF c
        <5> QED BY <1>1, <1>2, <4>1 DEF ConnGood, SameSeen
      <4> QED BY <4>1, <4>2 DEF HasConn
    <3>2. CASE q # src
      <4>1. u.conns[q] = w.conns[q] /\ ConnGood(w.conns[q]) /\ Current(w.conns[q], w.have)
        BY <1>4, <1>6, <3>2 DEF GoodBut
      <4>2. CASE w.conns[q].handshake_sent
        BY <4>1, <4>2 DEF HasConn
      <4>3. CASE ~w.conns[q].handshake_sent
        <5>1. w.conns[q].peer_bitfield = {}
          BY <4>1, <4>3 DEF ConnGood
        <5> QED BY <4>1, <5>1 DEF Current
      <4> QED BY <4>1, <4>2, <4>3
    <3> QED BY <3>1, <3>2
  <2> QED BY <2>1 DEF GoodBut
<1>10. Q \subseteq Clients /\ \A q \in Q : u.conns[q].handshake_sent
  BY DEF HasConn
<1> HIDE DEF Q
<1>11. v \in WireState /\ Good(v) /\ WireStep(u, v)
  BY <1>6, <1>7, <1>9, <1>10, RecomputeIs, GoodRecompute, StepRecompute
<1>12. v.have = u.have /\ v.out_obs = u.out_obs
  BY <1>6, <1>7, <1>10, RecomputeIs DEF Recomputes
<1>13. WireStep(w, v)
  BY <1>6, <1>8, <1>11, StepThen
<1> QED BY <1>6, <1>11, <1>12, <1>13 DEF v

\* A delivered sub-piece is recorded; what follows, with a completed piece its
\* announcement and interest in all peers, is a step.
LEMMA OnPieceIs ==
  ASSUME NEW w \in WireState, Good(w), NEW src \in Clients, NEW sp \in SubPieceId,
         w.conns[src].handshake_received, Contains(w.conns[src].outstanding, sp)
  PROVE  LET v1 == WithConn(w, src, Delivered(w.conns[src], sp))
             v == OnPiece(w, src, sp)
             full == v1.conns[src].in_progress[sp[1]] = SubPieces
         IN  /\ v1 \in WireState /\ v \in WireState /\ Good(v) /\ WireStep(v1, v)
             /\ v.have = IF full THEN w.have \cup {sp[1]} ELSE w.have
             /\ full \in BOOLEAN
             /\ v.out_obs = Append(w.out_obs, obs_completion(src, sp, full))
<1> DEFINE c == w.conns[src]
           d == Delivered(c, sp)
           r == WithConn(w, src, d)
           full == r.conns[src].in_progress[sp[1]] = SubPieces
           done == IF full THEN CompletePiece(r, src, sp[1]) ELSE r
           o == obs_completion(src, sp, full)
           x == observe(done, o)
           v == OnPiece(w, src, sp)
<1>0. sp[1] \in Pieces /\ o \in Obs /\ full \in BOOLEAN
  <2>1. sp[1] \in Pieces
    BY DEF SubPieceId
  <2>2. full \in BOOLEAN
    OBVIOUS
  <2> HIDE DEF full
  <2> QED BY <2>1, <2>2, ObservationTypes
<1>1. /\ c \in conn /\ ConnGood(c) /\ Current(c, w.have) /\ c.handshake_received
      /\ Contains(c.outstanding, sp) /\ c.outstanding \in Seq(SubPieceId)
  BY ConnType DEF Good, GoodBut
<1>2. /\ d \in conn /\ SameSeen(c, d) /\ d.am_interested = c.am_interested
      /\ d.planned = c.planned /\ d.outstanding = RemoveFirst(c.outstanding, sp)
      /\ Len(d.outstanding) = Len(c.outstanding) - 1 /\ d.am_choking = c.am_choking
  BY <1>1, DeliveredType
<1>3. ConnGood(d) /\ Current(d, w.have) /\ d.handshake_received
  <2>1. c.outstanding # <<>> /\ Len(c.outstanding) \in Nat
    BY <1>1 DEF Contains
  <2>2. Len(d.outstanding) <= PipelineDepth
    BY <1>1, <1>2, <2>1, GeometryAssumption DEF ConnGood
  <2> HIDE DEF c, d
  <2> QED BY <1>1, <1>2, <2>1, <2>2 DEF ConnGood, Current, SameSeen
<1>4. v = fill_pipeline(x, src)
  <2>1. r = [w EXCEPT !.conns[src].outstanding = RemoveFirst(@, sp),
                      !.conns[src].in_progress[sp[1]] = @ \cup {sp[2]}]
    BY DEF WithConn, Delivered, WireState, conn
  <2> QED BY <1>1, <2>1 DEF OnPiece
<1> HIDE DEF d, c
<1>5. /\ r \in WireState /\ Good(r) /\ r.have = w.have /\ r.out_obs = w.out_obs
      /\ r.conns[src] = d
  BY <1>2, <1>3, WithConnIs, GoodWithConn DEF Good
<1> HIDE DEF r, v, o
<1>6. /\ done \in WireState /\ Good(done) /\ done.out_obs = w.out_obs /\ WireStep(r, done)
      /\ done.have = IF full THEN w.have \cup {sp[1]} ELSE w.have
  <2>1. CASE full
    <3>1. done = CompletePiece(r, src, sp[1]) /\ GoodBut(r, {}) /\ r.conns[src].handshake_received
      BY <1>3, <1>5, <2>1 DEF Good
    <3> HIDE DEF done, full
    <3> QED BY <1>0, <1>5, <2>1, <3>1, CompletePieceIs
  <2>2. CASE ~full
    <3>1. done = r
      BY <2>2
    <3>2. WireStep(r, r)
      <4>1. \A q \in Clients : SameSeen(r.conns[q], r.conns[q])
        BY DEF SameSeen
      <4> QED BY <1>5, <4>1, StepQuiet
    <3> HIDE DEF done, full
    <3> QED BY <1>5, <2>2, <3>1, <3>2
  <2> QED BY <2>1, <2>2
<1>7. done.conns[src].handshake_sent
  <2>1. r.conns[src].handshake_sent
    BY <1>3, <1>5 DEF ConnGood
  <2>2. SameSeen(r.conns[src], done.conns[src])
    <3> HIDE DEF done
    <3> QED BY <1>6 DEF WireStep, Sends
  <2> HIDE DEF done
  <2> QED BY <2>1, <2>2 DEF SameSeen
<1> HIDE DEF done, full
<1>8. /\ x \in WireState /\ x.have = done.have /\ x.conns = done.conns
      /\ x.out_obs = Append(w.out_obs, o) /\ WireStep(done, x)
  BY <1>0, <1>6, ObserveIs, StepObserve
<1> HIDE DEF x
<1>9. Good(x) /\ x.conns[src].handshake_sent /\ Len(x.conns[src].outstanding) <= PipelineDepth
  <2>1. Good(x)
    BY <1>6, <1>8, GoodSame DEF Good
  <2> QED BY <2>1, <1>7, <1>8 DEF Good, GoodBut, ConnGood
<1>10. /\ v \in WireState /\ Good(v) /\ WireStep(x, v)
  BY <1>4, <1>8, <1>9, FillPipelineIs, GoodFill, StepFill
<1>11. v.have = x.have /\ v.out_obs = x.out_obs
  BY <1>4, <1>8, <1>9, FillPipelineIs DEF Fills
<1>12. WireStep(r, v)
  <2>1. WireStep(r, x)
    BY <1>5, <1>6, <1>8, StepThen
  <2> QED BY <2>1, <1>5, <1>8, <1>10, StepThen
<1> QED BY <1>0, <1>5, <1>6, <1>8, <1>10, <1>11, <1>12 DEF v, o, r, full, d, c

-----------------------------------------------------------------------------
(* Opening a connection.                                                   *)

\* The opening of a connection: the handshake and what the client has.
Opened(c) == [c EXCEPT !.handshake_sent = TRUE]
Opening(w, peer) == << [dst |-> peer, msg |-> Handshake], [dst |-> peer, msg |-> Bitfield(w.have)] >>
Opens(w, v, peer) ==
  /\ v.have = w.have /\ v.out_obs = w.out_obs
  /\ \A q \in Clients \ {peer} : v.conns[q] = w.conns[q]
  /\ v.conns[peer] = Opened(w.conns[peer])
  /\ v.out_wire = w.out_wire \o Opening(w, peer)

\* An opening is two messages.
LEMMA OpeningType ==
  ASSUME NEW w \in WireState, NEW peer \in Clients
  PROVE  Opening(w, peer) \in Seq(Entry) /\ Len(Opening(w, peer)) = 2
<1>1. Handshake \in WireMsg /\ Bitfield(w.have) \in WireMsg
  BY MessageTypes, ConnType
<1> DEFINE a == [dst |-> peer, msg |-> Handshake]
           b == [dst |-> peer, msg |-> Bitfield(w.have)]
<1>2. a \in Entry /\ b \in Entry
  BY <1>1 DEF Entry
<1> HIDE DEF a, b
<1>3. <<a, b>> \in Seq(Entry) /\ Len(<<a, b>>) = 2
  BY <1>2
<1> QED BY <1>3 DEF a, b, Opening

\* queue_handshake_and_bitfield opens a connection.
LEMMA QueueOpening ==
  ASSUME NEW w \in WireState, NEW peer \in Clients
  PROVE  LET v == queue_handshake_and_bitfield(w, peer)
         IN  v \in WireState /\ Opens(w, v, peer)
<1> DEFINE c == w.conns[peer]
           d == Opened(c)
           w1 == WithConn(w, peer, d)
           u == queue_to(w1, peer, Handshake)
           v == queue_to(u, peer, Bitfield(w.have))
<1>1. d \in conn
  <2>1. c \in conn
    BY ConnType
  <2> HIDE DEF c
  <2> QED BY <2>1 DEF conn, Opened
<1>2. queue_handshake_and_bitfield(w, peer) = v
  BY DEF queue_handshake_and_bitfield, WithConn, Opened
<1>3. Handshake \in WireMsg /\ Bitfield(w.have) \in WireMsg
  BY MessageTypes, ConnType
<1> HIDE DEF d
<1>4. /\ w1 \in WireState /\ w1.have = w.have /\ w1.out_obs = w.out_obs
      /\ w1.out_wire = w.out_wire /\ w1.conns[peer] = d
      /\ \A q \in Clients \ {peer} : w1.conns[q] = w.conns[q]
  BY <1>1, WithConnIs
<1> HIDE DEF w1
<1>5. /\ u \in WireState /\ u.have = w.have /\ u.out_obs = w.out_obs /\ u.conns = w1.conns
      /\ u.out_wire = Append(w.out_wire, [dst |-> peer, msg |-> Handshake])
  BY <1>3, <1>4, QueueTo
<1> HIDE DEF u
<1>6. /\ v \in WireState /\ v.have = w.have /\ v.out_obs = w.out_obs /\ v.conns = w1.conns
      /\ v.out_wire = Append(u.out_wire, [dst |-> peer, msg |-> Bitfield(w.have)])
  BY <1>3, <1>5, QueueTo
<1> HIDE DEF v
<1>7. v.out_wire = w.out_wire \o Opening(w, peer)
  <2> DEFINE s == w.out_wire
             a == [dst |-> peer, msg |-> Handshake]
             b == [dst |-> peer, msg |-> Bitfield(w.have)]
  <2>1. s \in Seq(Entry) /\ a \in Entry /\ b \in Entry
    BY <1>3, ConnType DEF Entry
  <2>2. v.out_wire = Append(Append(s, a), b)
    BY <1>5, <1>6
  <2> HIDE DEF s, a, b
  <2>3. Append(Append(s, a), b) = s \o <<a, b>>
    BY <2>1
  <2> QED BY <2>2, <2>3 DEF s, a, b, Opening
<1> QED BY <1>2, <1>4, <1>6, <1>7 DEF Opens, d

\* The handshake has come.
Greeted(c) == [c EXCEPT !.handshake_received = TRUE]

\* A handshake is recorded, and answered with an opening unless one was sent.
LEMMA OnHandshakeIs ==
  ASSUME NEW w \in WireState, Good(w), NEW src \in Clients
  PROVE  LET v1 == WithConn(w, src, Greeted(w.conns[src]))
             v == OnHandshake(w, src)
         IN  /\ Greeted(w.conns[src]) \in conn /\ v1 \in WireState
             /\ v \in WireState /\ Good(v) /\ v.have = w.have /\ v.out_obs = w.out_obs
             /\ \/ v = v1
                \/ ~w.conns[src].handshake_sent /\ Opens(v1, v, src)
<1> DEFINE c == w.conns[src]
           d == Greeted(c)
           v1 == WithConn(w, src, d)
           v == OnHandshake(w, src)
<1>1. c \in conn /\ ConnGood(c) /\ Current(c, w.have)
  BY ConnType DEF Good, GoodBut
<1>2. /\ d \in conn /\ Current(d, w.have) /\ d.handshake_sent = c.handshake_sent
      /\ (d.handshake_sent => ConnGood(d)) /\ ConnGood(Opened(d)) /\ Current(Opened(d), w.have)
  <2> HIDE DEF c
  <2> QED BY <1>1 DEF conn, ConnGood, Current, Greeted, Opened
<1>3. /\ v1 \in WireState /\ v1.have = w.have /\ v1.out_obs = w.out_obs
      /\ v1.conns[src] = d /\ \A q \in Clients \ {src} : v1.conns[q] = w.conns[q]
  <2> HIDE DEF d
  <2> QED BY <1>2, WithConnIs
<1>4. CASE c.handshake_received
  <2>1. v = w /\ c.handshake_sent
    BY <1>1, <1>4 DEF OnHandshake, ConnGood
  <2>2. d = c
    <3> HIDE DEF c
    <3> QED BY <1>1, <1>4 DEF Greeted, conn
  <2>3. WithConn(w, src, c) = w
    BY DEF WithConn, WireState
  <2>4. v1 = w
    BY <2>2, <2>3
  <2> HIDE DEF v1, v, d, c
  <2> QED BY <1>2, <1>3, <2>1, <2>4 DEF v1, v, d, c
<1>5. CASE ~c.handshake_received /\ c.handshake_sent
  <2>1. v1 = [w EXCEPT !.conns[src].handshake_received = TRUE]
    BY DEF WithConn, Greeted
  <2>2. v = v1
    <3> HIDE DEF v1, d
    <3>1. v1.conns[src].handshake_sent
      BY <1>2, <1>3, <1>5
    <3>2. v = IF v1.conns[src].handshake_sent THEN v1 ELSE queue_handshake_and_bitfield(v1, src)
      BY <1>5, <2>1 DEF OnHandshake
    <3> QED BY <3>1, <3>2
  <2>3. Good(v1)
    <3> HIDE DEF d
    <3> QED BY <1>2, <1>5, GoodWithConn DEF Good
  <2> HIDE DEF v1, v, d, c
  <2> QED BY <1>2, <1>3, <2>2, <2>3 DEF v1, v, d, c
<1>6. CASE ~c.handshake_received /\ ~c.handshake_sent
  <2>1. v1 = [w EXCEPT !.conns[src].handshake_received = TRUE]
    BY DEF WithConn, Greeted
  <2>2. v = queue_handshake_and_bitfield(v1, src)
    <3> HIDE DEF v1, d
    <3>1. ~v1.conns[src].handshake_sent
      BY <1>2, <1>3, <1>6
    <3>2. v = IF v1.conns[src].handshake_sent THEN v1 ELSE queue_handshake_and_bitfield(v1, src)
      BY <1>6, <2>1 DEF OnHandshake
    <3> QED BY <3>1, <3>2
  <2> HIDE DEF v1, d
  <2>3. v \in WireState /\ Opens(v1, v, src)
    BY <1>3, <2>2, QueueOpening
  <2> HIDE DEF v
  <2>4. v.have = w.have /\ v.out_obs = w.out_obs /\ v.conns[src] = Opened(d)
        /\ \A q \in Clients \ {src} : v.conns[q] = w.conns[q]
    BY <1>3, <2>3 DEF Opens
  <2>5. Good(v)
    <3>1. ASSUME NEW q \in Clients
          PROVE  ConnGood(v.conns[q]) /\ Current(v.conns[q], v.have)
      <4>1. CASE q = src
        BY <1>2, <2>4, <4>1
      <4>2. CASE q # src
        BY <2>4, <4>2 DEF Good, GoodBut
      <4> QED BY <4>1, <4>2
    <3> QED BY <3>1 DEF Good, GoodBut
  <2> QED BY <1>2, <1>3, <1>6, <2>3, <2>4, <2>5 DEF v1, v, d
<1> QED BY <1>4, <1>5, <1>6

-----------------------------------------------------------------------------
\* A choking command that is obeyed.
Commanded(w, peer, unchoke) ==
  queue_to([w EXCEPT !.conns[peer].am_choking = ~unchoke], peer, Choke(unchoke))

\* A command is a step that tells the peer.
LEMMA CommandedIs ==
  ASSUME NEW w \in WireState, Good(w), NEW peer \in Clients, NEW unchoke \in BOOLEAN,
         w.conns[peer].handshake_sent, w.conns[peer].am_choking = unchoke
  PROVE  LET v == Commanded(w, peer, unchoke)
         IN  /\ v \in WireState /\ Good(v) /\ v.have = w.have /\ v.out_obs = w.out_obs
             /\ WireStep(w, v)
<1> DEFINE c == w.conns[peer]
           d == [c EXCEPT !.am_choking = ~unchoke]
           w1 == WithConn(w, peer, d)
           m == Choke(unchoke)
           v == queue_to(w1, peer, m)
<1>1. v = Commanded(w, peer, unchoke)
  BY DEF Commanded, WithConn
<1>2. c \in conn /\ ConnGood(c) /\ Current(c, w.have) /\ c.handshake_sent
  BY ConnType DEF Good, GoodBut
<1>3. /\ d \in conn /\ ConnGood(d) /\ Current(d, w.have) /\ SameSeen(c, d)
      /\ d.am_interested = c.am_interested /\ d.am_choking = ~unchoke
      /\ d.outstanding = c.outstanding /\ d.planned = c.planned
  <2> HIDE DEF c
  <2> QED BY <1>2 DEF conn, ConnGood, Current, SameSeen
<1>4. m \in WireMsg /\ m.type = IF unchoke THEN "unchoke" ELSE "choke"
  BY MessageTypes
<1> HIDE DEF d, m
<1>5. /\ w1 \in WireState /\ w1.have = w.have /\ w1.out_obs = w.out_obs
      /\ w1.out_wire = w.out_wire /\ w1.conns[peer] = d
      /\ \A q \in Clients \ {peer} : w1.conns[q] = w.conns[q]
  BY <1>3, WithConnIs
<1>6. Good(w1)
  BY <1>3, GoodWithConn DEF Good
<1> HIDE DEF w1
<1>7. /\ v \in WireState /\ v.have = w.have /\ v.out_obs = w.out_obs /\ v.conns = w1.conns
      /\ v.out_wire = Append(w.out_wire, [dst |-> peer, msg |-> m])
  BY <1>4, <1>5, QueueTo
<1> HIDE DEF v
<1>8. Good(v)
  BY <1>5, <1>6, <1>7, GoodSame DEF Good
<1>9. TellsChoke(c, d, <<m>>)
  <2>1. LastOf(<<m>>, {"choke", "unchoke"}) = m.type
    BY <1>4, LastSingle
  <2> HIDE DEF c
  <2> QED BY <1>3, <1>4, <2>1 DEF TellsChoke
<1>10. TellsInterest(c, d, <<m>>)
  <2>1. <<m>> \in Seq(Msgs) /\ \A i \in 1 .. Len(<<m>>) : <<m>>[i].type \in {"choke", "unchoke"}
    BY <1>4 DEF Msgs
  <2> HIDE DEF c
  <2> QED BY <1>3, <2>1, InterestNotTold
<1>11. Sendable(c, v.have, m) /\ m.type # "request"
  BY <1>4 DEF Sendable
<1>12. Sends(c, d, v.have, <<m>>)
  <2> HIDE DEF c
  <2> QED BY <1>2, <1>3, <1>4, <1>9, <1>10, <1>11, SendsOne
<1>13. WireStep(w, v)
  BY <1>4, <1>5, <1>7, <1>12, StepOne
<1> QED BY <1>1, <1>7, <1>8, <1>13

-----------------------------------------------------------------------------
(* Sub-pieces are asked only of peers that announced their piece.          *)

\* Doing nothing is a step.
LEMMA StepSame ==
  ASSUME NEW w \in WireState
  PROVE  WireStep(w, w)
<1>1. \A q \in Clients : SameSeen(w.conns[q], w.conns[q])
  BY DEF SameSeen
<1> QED BY <1>1, StepQuiet

\* A cancellation sent.
LEMMA StepCancel ==
  ASSUME NEW w \in WireState, NEW peer \in Clients, NEW sp \in SubPieceId,
         w.conns[peer].handshake_sent
  PROVE  WireStep(w, queue_to(w, peer, Cancel(sp)))
<1> DEFINE c == w.conns[peer]
           m == Cancel(sp)
           v == queue_to(w, peer, m)
<1>1. m \in WireMsg /\ m.type = "cancel"
  BY MessageTypes
<1> HIDE DEF m
<1>2. /\ v \in WireState /\ v.have = w.have /\ v.conns = w.conns
      /\ v.out_wire = Append(w.out_wire, [dst |-> peer, msg |-> m])
  BY <1>1, QueueTo
<1> HIDE DEF v
<1>3. c \in conn /\ c.handshake_sent /\ SameSeen(c, c)
  BY ConnType DEF SameSeen
<1> HIDE DEF c
<1>4. TellsChoke(c, c, <<m>>) /\ TellsInterest(c, c, <<m>>)
  <2>1. <<m>> \in Seq(Msgs) /\ \A i \in 1 .. Len(<<m>>) : <<m>>[i].type = "cancel"
    BY <1>1 DEF Msgs
  <2> QED BY <2>1, NotTold, InterestNotTold
<1>5. Sendable(c, v.have, m) /\ m.type # "request"
  BY <1>1 DEF Sendable
<1>6. Sends(c, c, v.have, <<m>>)
  BY <1>1, <1>3, <1>4, <1>5, SendsOne
<1>7. Sends(w.conns[peer], v.conns[peer], v.have, <<m>>)
  BY <1>2, <1>6 DEF c
<1>8. WireStep(w, v)
  BY <1>1, <1>2, <1>7, StepOne
<1> QED BY <1>8 DEF v, m

\* What is kept of a connection changes, and nothing more is requested.
KeptChange(c, d) ==
  /\ SameSeen(c, d) /\ d.am_choking = c.am_choking /\ d.am_interested = c.am_interested
  /\ \A sp \in SubPieceId : Count(d.outstanding, sp) <= Count(c.outstanding, sp)
\* That is all that changes in a wire.
Keeps(w, v, peer) ==
  \E d \in conn : v = WithConn(w, peer, d) /\ KeptChange(w.conns[peer], d)

\* Only pieces the peer has announced are kept.
AsksOf(c) == \A sp \in SubPieceId : KeptCount(c, sp) > 0 => sp[1] \in c.peer_bitfield
Asks(w) == \A q \in Clients : AsksOf(w.conns[q])

\* A connection that keeps fewer sub-pieces asks for no more.
LEMMA AsksFewer ==
  ASSUME NEW c \in conn, NEW d \in conn, AsksOf(c), d.peer_bitfield = c.peer_bitfield,
         \A sp \in SubPieceId : KeptCount(d, sp) <= KeptCount(c, sp)
  PROVE  AsksOf(d)
<1>1. \A sp \in SubPieceId : KeptCount(d, sp) \in Nat /\ KeptCount(c, sp) \in Nat
  BY KeptCountType
<1> QED BY <1>1 DEF AsksOf

\* A step asks for nothing the peer has not announced, if before it that was so.
LEMMA AsksStep ==
  ASSUME NEW w \in WireState, NEW v \in WireState, WireStep(w, v)
  PROVE  Asks(w) <=> Asks(v)
<1>1. ASSUME NEW q \in Clients
      PROVE  AsksOf(w.conns[q]) <=> AsksOf(v.conns[q])
  <2>1. PICK ms : Sends(w.conns[q], v.conns[q], v.have, ms)
    BY DEF WireStep
  <2>2. /\ v.conns[q].peer_bitfield = w.conns[q].peer_bitfield
        /\ \A sp \in SubPieceId : KeptCount(v.conns[q], sp) = KeptCount(w.conns[q], sp)
    BY <2>1 DEF Sends, SameSeen
  <2> QED BY <2>2 DEF AsksOf
<1> QED BY <1>1 DEF Asks

\* Another record for one peer asks for what it keeps.
LEMMA AsksWithConn ==
  ASSUME NEW w \in WireState, NEW peer \in Clients, NEW d \in conn, Asks(w), AsksOf(d)
  PROVE  Asks(WithConn(w, peer, d))
<1> DEFINE v == WithConn(w, peer, d)
<1>1. v.conns[peer] = d /\ \A q \in Clients \ {peer} : v.conns[q] = w.conns[q]
  BY WithConnIs
<1> HIDE DEF v
<1>2. Asks(v)
  BY <1>1 DEF Asks
<1> QED BY <1>2 DEF v

\* A step leaves what has been heard from the peers.
LEMMA SeenStep ==
  ASSUME NEW w \in WireState, NEW v \in WireState, WireStep(w, v), NEW q \in Clients
  PROVE  SameSeen(w.conns[q], v.conns[q])
  BY DEF WireStep, Sends

-----------------------------------------------------------------------------
\* A cancellation of the selector's.
LEMMA CancelOneIs ==
  ASSUME NEW w \in WireState, Good(w), Asks(w), NEW peer \in Clients, NEW sp \in SubPieceId,
         w.conns[peer].handshake_sent
  PROVE  LET v == CancelOne(peer, w, sp)
         IN  /\ v \in WireState /\ Good(v) /\ Asks(v) /\ v.have = w.have /\ v.out_obs = w.out_obs
             /\ SameSeen(w.conns[peer], v.conns[peer])
             /\ \E x \in WireState : Keeps(w, x, peer) /\ WireStep(x, v)
<1> DEFINE c == w.conns[peer]
           v == CancelOne(peer, w, sp)
<1>1. /\ c \in conn /\ ConnGood(c) /\ Current(c, w.have) /\ AsksOf(c) /\ c.handshake_sent
      /\ c.outstanding \in Seq(SubPieceId) /\ c.planned \in Seq(SubPieceId)
  BY ConnType DEF Good, GoodBut, Asks
\* A connection on which less is kept.
<1>2. ASSUME NEW d \in conn, KeptChange(c, d), Len(d.outstanding) <= Len(c.outstanding),
             \A x \in SubPieceId : Count(d.planned, x) <= Count(c.planned, x)
      PROVE  LET u == WithConn(w, peer, d)
             IN  /\ u \in WireState /\ Good(u) /\ Asks(u) /\ Keeps(w, u, peer)
                 /\ u.have = w.have /\ u.out_obs = w.out_obs /\ u.conns[peer] = d
                 /\ SameSeen(c, d)
  <2>1. ConnGood(d) /\ Current(d, w.have) /\ SameSeen(c, d)
    <3>1. d.outstanding \in Seq(SubPieceId)
      BY DEF conn
    <3>2. c.outstanding = <<>> => d.outstanding = <<>>
      BY <1>1, <1>2, <3>1
    <3>3. Len(d.outstanding) <= PipelineDepth
      <4> DEFINE a == Len(d.outstanding)
                 b == Len(c.outstanding)
      <4>1. a \in Nat /\ b \in Nat
        BY <1>1, <3>1
      <4>2. a <= b /\ b <= PipelineDepth
        BY <1>1, <1>2 DEF ConnGood
      <4> HIDE DEF a, b
      <4>3. a <= PipelineDepth
        BY <4>1, <4>2, GeometryAssumption
      <4> QED BY <4>3 DEF a
    <3> HIDE DEF c
    <3> QED BY <1>1, <1>2, <3>2, <3>3 DEF ConnGood, Current, KeptChange, SameSeen
  <2>2. AsksOf(d)
    <3>1. \A x \in SubPieceId : KeptCount(d, x) <= KeptCount(c, x)
      <4>1. ASSUME NEW x \in SubPieceId
            PROVE  KeptCount(d, x) <= KeptCount(c, x)
        <5>1. Count(d.outstanding, x) <= Count(c.outstanding, x)
          BY <1>2 DEF KeptChange
        <5>2. /\ Count(d.outstanding, x) \in Nat /\ Count(c.outstanding, x) \in Nat
              /\ Count(d.planned, x) \in Nat /\ Count(c.planned, x) \in Nat
          BY <1>1, KeptCountType
        <5> HIDE DEF c
        <5> QED BY <1>2, <5>1, <5>2 DEF KeptCount
      <4> QED BY <4>1
    <3> HIDE DEF c
    <3> QED BY <1>1, <2>1, <3>1, AsksFewer DEF SameSeen
  <2> QED BY <1>2, <2>1, <2>2, WithConnIs, GoodWithConn, AsksWithConn DEF Good, Keeps
<1>3. CASE Contains(c.planned, sp)
  <2> DEFINE d == [c EXCEPT !.planned = RemoveFirst(@, sp)]
             r == RemoveFirst(c.planned, sp)
  <2>1. r \in Seq(SubPieceId) /\ \A x \in SubPieceId : Count(r, x) <= Count(c.planned, x)
    <3>1. \A x \in SubPieceId : Count(r, x) = Count(c.planned, x) - (IF sp = x THEN 1 ELSE 0)
      BY <1>1, <1>3, CountRemoveFirst
    <3>2. \A x \in SubPieceId : Count(c.planned, x) \in Nat
      BY <1>1, KeptCountType
    <3>3. r \in Seq(SubPieceId)
      BY <1>1, <1>3, CountRemoveFirst
    <3> HIDE DEF r, c
    <3> QED BY <3>1, <3>2, <3>3
  <2>2. /\ d \in conn /\ SameSeen(c, d) /\ d.am_choking = c.am_choking
        /\ d.am_interested = c.am_interested /\ d.outstanding = c.outstanding /\ d.planned = r
    <3> HIDE DEF c
    <3> QED BY <1>1, <2>1 DEF conn, SameSeen
  <2>3. v = WithConn(w, peer, d)
    BY <1>3 DEF CancelOne, WithConn
  <2>4. /\ KeptChange(c, d) /\ Len(d.outstanding) <= Len(c.outstanding)
        /\ \A x \in SubPieceId : Count(d.planned, x) <= Count(c.planned, x)
    <3>1. \A x \in SubPieceId : Count(c.outstanding, x) \in Nat
      BY <1>1, KeptCountType
    <3> HIDE DEF c, d, r
    <3> QED BY <1>1, <2>1, <2>2, <3>1 DEF KeptChange
  <2> HIDE DEF d, v, r
  <2>5. /\ v \in WireState /\ Good(v) /\ Asks(v) /\ Keeps(w, v, peer)
        /\ v.have = w.have /\ v.out_obs = w.out_obs /\ SameSeen(c, v.conns[peer])
    <3> HIDE DEF c
    <3> QED BY <1>2, <2>2, <2>3, <2>4
  <2>6. WireStep(v, v)
    BY <2>5, StepSame
  <2> QED BY <2>5, <2>6 DEF v
<1>4. CASE ~Contains(c.planned, sp) /\ Contains(c.outstanding, sp)
  <2> DEFINE d == [c EXCEPT !.outstanding = RemoveFirst(@, sp)]
             r == RemoveFirst(c.outstanding, sp)
             u == WithConn(w, peer, d)
  <2>1. /\ r \in Seq(SubPieceId) /\ \A x \in SubPieceId : Count(r, x) <= Count(c.outstanding, x)
        /\ Len(r) <= Len(c.outstanding)
    <3>1. \A x \in SubPieceId : Count(r, x) = Count(c.outstanding, x) - (IF sp = x THEN 1 ELSE 0)
      BY <1>1, <1>4, CountRemoveFirst
    <3>2. \A x \in SubPieceId : Count(c.outstanding, x) \in Nat
      BY <1>1, KeptCountType
    <3>3. r \in Seq(SubPieceId) /\ Len(r) = Len(c.outstanding) - 1
      BY <1>1, <1>4, CountRemoveFirst
    <3>4. Len(c.outstanding) \in Nat
      BY <1>1
    <3> HIDE DEF r, c
    <3> QED BY <3>1, <3>2, <3>3, <3>4
  <2>2. /\ d \in conn /\ SameSeen(c, d) /\ d.am_choking = c.am_choking
        /\ d.am_interested = c.am_interested /\ d.outstanding = r /\ d.planned = c.planned
    <3> HIDE DEF c
    <3> QED BY <1>1, <2>1 DEF conn, SameSeen
  <2>3. v = queue_to(u, peer, Cancel(sp))
    BY <1>4 DEF CancelOne, WithConn
  <2>4. /\ KeptChange(c, d) /\ Len(d.outstanding) <= Len(c.outstanding)
        /\ \A x \in SubPieceId : Count(d.planned, x) <= Count(c.planned, x)
    <3>1. \A x \in SubPieceId : Count(c.planned, x) \in Nat
      BY <1>1, KeptCountType
    <3> HIDE DEF c, d, r
    <3> QED BY <1>1, <2>1, <2>2, <3>1 DEF KeptChange
  <2> HIDE DEF d, v, r
  <2>5. /\ u \in WireState /\ Good(u) /\ Asks(u) /\ Keeps(w, u, peer)
        /\ u.have = w.have /\ u.out_obs = w.out_obs /\ u.conns[peer] = d
    <3> HIDE DEF c
    <3> QED BY <1>2, <2>2, <2>4
  <2> HIDE DEF u
  <2>6. u.conns[peer].handshake_sent
    BY <1>1, <2>2, <2>5 DEF SameSeen
  <2>7. Cancel(sp) \in WireMsg
    BY MessageTypes
  <2>8. /\ v \in WireState /\ v.have = w.have /\ v.out_obs = w.out_obs /\ v.conns = u.conns
        /\ WireStep(u, v)
    BY <2>3, <2>5, <2>6, <2>7, QueueTo, StepCancel
  <2>9. Good(v) /\ Asks(v)
    BY <2>5, <2>8, AsksStep, GoodSame DEF Good
  <2> QED BY <2>2, <2>5, <2>8, <2>9 DEF v
<1>5. CASE ~Contains(c.planned, sp) /\ ~Contains(c.outstanding, sp)
  <2>1. v = w
    BY <1>5 DEF CancelOne
  <2>2. KeptChange(c, c)
    <3>1. \A x \in SubPieceId : Count(c.outstanding, x) \in Nat
      BY <1>1, KeptCountType
    <3> HIDE DEF c
    <3> QED BY <3>1 DEF KeptChange, SameSeen
  <2>3. WithConn(w, peer, c) = w
    BY DEF WithConn, WireState
  <2>4. Keeps(w, w, peer) /\ SameSeen(c, c)
    BY <1>1, <2>2, <2>3 DEF Keeps, SameSeen
  <2>5. WireStep(w, w)
    BY StepSame
  <2> HIDE DEF v
  <2> QED BY <2>1, <2>4, <2>5 DEF v
<1> QED BY <1>3, <1>4, <1>5

\* What the cancellations of a plan leave.
Cancelled(peer, w, cs) == FoldLeft(LAMBDA v, sp : CancelOne(peer, v, sp), w, cs)

\* The maximum of a singleton.
LEMMA MaxOne ==
  Max({1}) = 1
  BY DEF Max

\* A plan that cancels nothing.
LEMMA CancelledNone ==
  ASSUME NEW peer, NEW w, NEW cs, DOMAIN cs = {}
  PROVE  Cancelled(peer, w, cs) = w
<1> DEFINE Is(iter) == iter = [s \in SUBSET DOMAIN cs |-> IF s = {} THEN w
                         ELSE CancelOne(peer, iter[s \ {Max(s)}], cs[Max(s)])]
           g == [s \in SUBSET DOMAIN cs |-> w]
<1>1. Is(g)
  OBVIOUS
<1>2. Is(CHOOSE iter : Is(iter))
  <2> HIDE DEF Is
  <2> QED BY <1>1
<1>3. Cancelled(peer, w, cs) = (CHOOSE iter : Is(iter))[DOMAIN cs]
  BY DEF Cancelled, FoldLeft, MapThenFoldSet
<1> QED BY <1>2, <1>3

\* A plan that cancels one sub-piece.
LEMMA CancelledOne ==
  ASSUME NEW peer, NEW w, NEW cs, DOMAIN cs = {1}
  PROVE  Cancelled(peer, w, cs) = CancelOne(peer, w, cs[1])
<1> DEFINE Is(iter) == iter = [s \in SUBSET DOMAIN cs |-> IF s = {} THEN w
                         ELSE CancelOne(peer, iter[s \ {Max(s)}], cs[Max(s)])]
           g == [s \in SUBSET DOMAIN cs |-> IF s = {} THEN w ELSE CancelOne(peer, w, cs[1])]
<1>0. \A s \in SUBSET DOMAIN cs : s = {} \/ (s = {1} /\ Max(s) = 1)
  BY MaxOne
<1>1. Is(g)
  BY <1>0
<1>2. Is(CHOOSE iter : Is(iter))
  <2> HIDE DEF Is
  <2> QED BY <1>1
<1>3. Cancelled(peer, w, cs) = (CHOOSE iter : Is(iter))[DOMAIN cs]
  BY DEF Cancelled, FoldLeft, MapThenFoldSet
<1> DEFINE it == CHOOSE iter : Is(iter)
<1>4. /\ it[{}] = w
      /\ it[{1}] = CancelOne(peer, it[{1} \ {Max({1})}], cs[Max({1})])
  BY <1>2
<1>5. {1} \ {Max({1})} = {} /\ Max({1}) = 1
  BY MaxOne
<1>6. Cancelled(peer, w, cs) = it[{1}]
  BY <1>3
<1> HIDE DEF it
<1> QED BY <1>4, <1>5, <1>6

\* What a plan's items add.
Planned(c, items) == [c EXCEPT !.planned = @ \o items]
PlanHandled(w, pl) ==
  LET x == Cancelled(pl.peer, w, pl.cancellations)
  IN  fill_pipeline(WithConn(x, pl.peer, Planned(x.conns[pl.peer], pl.items)), pl.peer)

\* The peer of a plan has announced what is planned.
ItemsAnnounced(w, pl) ==
  \A i \in 1 .. Len(pl.items) : pl.items[i][1] \in w.conns[pl.peer].peer_bitfield

\* A plan is handled by forgetting, telling, planning and requesting.
PlanSteps(w, v, peer) ==
  \E x1, x2, x3 \in WireState :
    /\ Keeps(w, x1, peer) /\ WireStep(x1, x2) /\ Asks(x2)
    /\ Keeps(x2, x3, peer) /\ WireStep(x3, v)

\* Keeping everything is keeping.
LEMMA KeepsSame ==
  ASSUME NEW w \in WireState, NEW peer \in Clients
  PROVE  Keeps(w, w, peer)
<1> DEFINE c == w.conns[peer]
<1>1. c \in conn
  BY ConnType
<1>2. \A x \in SubPieceId : Count(c.outstanding, x) \in Nat
  BY <1>1, KeptCountType
<1>3. KeptChange(c, c)
  <2> HIDE DEF c
  <2> QED BY <1>2 DEF KeptChange, SameSeen
<1>4. WithConn(w, peer, c) = w
  BY DEF WithConn, WireState
<1> QED BY <1>1, <1>3, <1>4 DEF Keeps

\* Cancellations forget sub-pieces, and tell the peer of the requested ones.
LEMMA CancelledIs ==
  ASSUME NEW w \in WireState, Good(w), Asks(w), NEW peer \in Clients, NEW cs \in Seq(SubPieceId),
         Len(cs) <= 1, w.conns[peer].handshake_sent
  PROVE  LET v == Cancelled(peer, w, cs)
         IN  /\ v \in WireState /\ Good(v) /\ Asks(v) /\ v.have = w.have /\ v.out_obs = w.out_obs
             /\ SameSeen(w.conns[peer], v.conns[peer])
             /\ \E x \in WireState : Keeps(w, x, peer) /\ WireStep(x, v)
<1> DEFINE v == Cancelled(peer, w, cs)
<1>0. Len(cs) \in Nat /\ DOMAIN cs = 1 .. Len(cs)
  OBVIOUS
<1>1. CASE Len(cs) = 0
  <2>1. v = w
    <3>1. DOMAIN cs = {}
      BY <1>0, <1>1
    <3> QED BY <3>1, CancelledNone
  <2>2. Keeps(w, w, peer) /\ WireStep(w, w) /\ SameSeen(w.conns[peer], w.conns[peer])
    BY KeepsSame, StepSame DEF SameSeen
  <2> HIDE DEF v
  <2> QED BY <2>1, <2>2 DEF v
<1>2. CASE Len(cs) = 1
  <2>1. v = CancelOne(peer, w, cs[1])
    <3>1. DOMAIN cs = {1}
      BY <1>0, <1>2
    <3> QED BY <3>1, CancelledOne
  <2>2. cs[1] \in SubPieceId
    <3>1. \A i \in 1 .. Len(cs) : cs[i] \in SubPieceId
      OBVIOUS
    <3> QED BY <1>2, <3>1
  <2> HIDE DEF v
  <2> QED BY <2>1, <2>2, CancelOneIs DEF v
<1> QED BY <1>0, <1>1, <1>2

\* A plan handled: sub-pieces are forgotten, a step tells of it, others are
\* planned, and a step requests what fits.
LEMMA PlanHandledIs ==
  ASSUME NEW w \in WireState, Good(w), Asks(w), NEW pl \in request_plan,
         Len(pl.cancellations) <= 1, ItemsAnnounced(w, pl), w.conns[pl.peer].handshake_sent
  PROVE  LET v == PlanHandled(w, pl)
         IN  /\ v \in WireState /\ Good(v) /\ Asks(v) /\ v.have = w.have /\ v.out_obs = w.out_obs
             /\ PlanSteps(w, v, pl.peer)
<1> DEFINE peer == pl.peer
           items == pl.items
           x2 == Cancelled(peer, w, pl.cancellations)
           c == x2.conns[peer]
           d == Planned(c, items)
           x3 == WithConn(x2, peer, d)
           v == fill_pipeline(x3, peer)
<1>1. peer \in Clients /\ items \in Seq(SubPieceId) /\ pl.cancellations \in Seq(SubPieceId)
  BY DEF request_plan
<1>2. v = PlanHandled(w, pl)
  BY DEF PlanHandled
<1>3. /\ x2 \in WireState /\ Good(x2) /\ Asks(x2) /\ x2.have = w.have /\ x2.out_obs = w.out_obs
      /\ SameSeen(w.conns[peer], x2.conns[peer])
  BY <1>1, CancelledIs
<1>4. PICK x1 \in WireState : Keeps(w, x1, peer) /\ WireStep(x1, x2)
  BY <1>1, CancelledIs
<1> HIDE DEF x2
<1>5. /\ c \in conn /\ ConnGood(c) /\ Current(c, x2.have) /\ AsksOf(c) /\ c.handshake_sent
      /\ c.planned \in Seq(SubPieceId)
  BY <1>1, <1>3, ConnType DEF Good, GoodBut, Asks, SameSeen
<1>6. c.peer_bitfield = w.conns[peer].peer_bitfield
  BY <1>3 DEF SameSeen
<1> HIDE DEF c
<1>7. \A sp \in SubPieceId : Count(items, sp) > 0 => sp[1] \in c.peer_bitfield
  <2>1. ASSUME NEW sp \in SubPieceId, Count(items, sp) > 0
        PROVE  sp[1] \in c.peer_bitfield
    <3>1. Contains(items, sp)
      BY <1>1, <2>1, CountContains
    <3>2. PICK i \in 1 .. Len(items) : items[i] = sp
      BY <3>1 DEF Contains
    <3> QED BY <1>6, <3>2 DEF ItemsAnnounced
  <2> QED BY <2>1
<1>8. /\ d \in conn /\ SameSeen(c, d) /\ d.am_choking = c.am_choking
      /\ d.am_interested = c.am_interested /\ d.outstanding = c.outstanding
      /\ d.planned = c.planned \o items
  <2>1. c.planned \o items \in Seq(SubPieceId)
    <3> DEFINE s == c.planned
    <3>1. s \in Seq(SubPieceId)
      BY <1>5
    <3> HIDE DEF s, items
    <3>2. s \o items \in Seq(SubPieceId)
      BY <1>1, <3>1
    <3> QED BY <3>2 DEF s
  <2> HIDE DEF items
  <2> QED BY <1>5, <2>1 DEF conn, SameSeen, Planned
<1> HIDE DEF d, items
<1>9. AsksOf(d)
  <2>1. ASSUME NEW sp \in SubPieceId, KeptCount(d, sp) > 0
        PROVE  sp[1] \in d.peer_bitfield
    <3>1. Count(d.planned, sp) = Count(c.planned, sp) + Count(items, sp)
      <4> DEFINE s == c.planned
      <4>1. s \in Seq(SubPieceId)
        BY <1>5
      <4> HIDE DEF s
      <4>2. Count(s \o items, sp) = Count(s, sp) + Count(items, sp)
        BY <1>1, <4>1, CountConcat DEF items
      <4> QED BY <1>8, <4>2 DEF s
    <3>2. /\ Count(c.planned, sp) \in Nat /\ Count(items, sp) \in Nat /\ Count(c.outstanding, sp) \in Nat
      <4>1. items \in Seq(SubPieceId)
        BY <1>1 DEF items
      <4> QED BY <1>5, <4>1, KeptCountType, CountType
    <3>3. KeptCount(d, sp) = KeptCount(c, sp) + Count(items, sp) /\ KeptCount(c, sp) \in Nat
      BY <1>8, <3>1, <3>2 DEF KeptCount
    <3>4. KeptCount(c, sp) > 0 \/ Count(items, sp) > 0
      BY <2>1, <3>2, <3>3
    <3> QED BY <1>5, <1>7, <1>8, <3>4 DEF AsksOf, SameSeen
  <2> QED BY <2>1 DEF AsksOf
<1>10. KeptChange(c, d)
  <2>1. \A sp \in SubPieceId : Count(c.outstanding, sp) \in Nat
    BY <1>5, KeptCountType
  <2> QED BY <1>8, <2>1 DEF KeptChange
<1>11. ConnGood(d) /\ Current(d, x2.have) /\ d.handshake_sent
  BY <1>5, <1>8 DEF ConnGood, Current, SameSeen
<1>12. /\ x3 \in WireState /\ Good(x3) /\ Asks(x3) /\ x3.have = w.have /\ x3.out_obs = w.out_obs
       /\ x3.conns[peer] = d
  BY <1>1, <1>3, <1>8, <1>9, <1>11, WithConnIs, GoodWithConn, AsksWithConn DEF Good
<1>13. Keeps(x2, x3, peer)
  BY <1>8, <1>10 DEF Keeps, c
<1> HIDE DEF x3
<1>14. Len(x3.conns[peer].outstanding) <= PipelineDepth /\ x3.conns[peer].handshake_sent
  BY <1>11, <1>12 DEF ConnGood
<1>15. v \in WireState /\ Good(v) /\ WireStep(x3, v) /\ v.have = w.have /\ v.out_obs = w.out_obs
  <2>1. v \in WireState /\ Good(v) /\ WireStep(x3, v)
    BY <1>1, <1>12, <1>14, FillPipelineIs, GoodFill, StepFill
  <2>2. v.have = x3.have /\ v.out_obs = x3.out_obs
    BY <1>1, <1>12, <1>14, FillPipelineIs DEF Fills
  <2> QED BY <1>12, <2>1, <2>2
<1> HIDE DEF v
<1>16. Asks(v)
  BY <1>12, <1>15, AsksStep
<1>17. PlanSteps(w, v, peer)
  BY <1>3, <1>4, <1>12, <1>13, <1>15 DEF PlanSteps
<1> QED BY <1>2, <1>15, <1>16, <1>17

-----------------------------------------------------------------------------
(* The selector.                                                           *)

\* The state of one client's selector.
Progress == UNION {[D -> SUBSET SubPieces] : D \in SUBSET Pieces}
SelState == [have : SUBSET Pieces, peer_bitfields : [Clients -> SUBSET Pieces],
             availability : [Pieces -> Nat], in_progress_pieces : Progress,
             requested_from : [SubPieceId -> SUBSET Clients], completed_count : Nat,
             pending : Seq(request_plan)]

\* The parts of a selector, by type.
LEMMA SelType ==
  ASSUME NEW s \in SelState
  PROVE  /\ s.have \in SUBSET Pieces /\ s.peer_bitfields \in [Clients -> SUBSET Pieces]
         /\ s.availability \in [Pieces -> Nat] /\ s.in_progress_pieces \in Progress
         /\ s.requested_from \in [SubPieceId -> SUBSET Clients] /\ s.completed_count \in Nat
         /\ s.pending \in Seq(request_plan)
  BY DEF SelState

\* What is known of pieces in progress.
LEMMA ProgressIs ==
  ASSUME NEW f \in Progress
  PROVE  /\ DOMAIN f \subseteq Pieces /\ f = [x \in DOMAIN f |-> f[x]]
         /\ \A x \in DOMAIN f : f[x] \in SUBSET SubPieces
  BY DEF Progress

\* Progress on the pieces of D.
LEMMA ProgressMade ==
  ASSUME NEW D \in SUBSET Pieces, NEW f \in [D -> SUBSET SubPieces]
  PROVE  f \in Progress
  BY DEF Progress

\* Progress on one more piece.
LEMMA ProgressPut ==
  ASSUME NEW f \in Progress, NEW p \in Pieces, NEW S \in SUBSET SubPieces
  PROVE  /\ Put(f, p, S) \in Progress
         /\ DOMAIN Put(f, p, S) = DOMAIN f \cup {p}
<1> DEFINE g == Put(f, p, S)
           D == DOMAIN f \cup {p}
<1>1. g = [x \in D |-> IF x = p THEN S ELSE f[x]]
  BY DEF Put
<1>2. D \in SUBSET Pieces /\ \A x \in DOMAIN f : f[x] \in SUBSET SubPieces
  BY ProgressIs
<1>3. g \in [D -> SUBSET SubPieces] /\ DOMAIN g = D
  BY <1>1, <1>2
<1> HIDE DEF g, D
<1>4. g \in Progress
  BY <1>2, <1>3, ProgressMade
<1> QED BY <1>3, <1>4 DEF g, D

\* Progress on one piece less.
LEMMA ProgressWithout ==
  ASSUME NEW f \in Progress, NEW p
  PROVE  [x \in DOMAIN f \ {p} |-> f[x]] \in Progress
<1> DEFINE D == DOMAIN f \ {p}
<1>1. D \in SUBSET Pieces /\ [x \in D |-> f[x]] \in [D -> SUBSET SubPieces]
  BY ProgressIs
<1> HIDE DEF D
<1>2. [x \in D |-> f[x]] \in Progress
  BY <1>1, ProgressMade
<1> QED BY <1>2 DEF D

-----------------------------------------------------------------------------
\* The count by which rarity is judged.
Counted(s) ==
  \A x \in Pieces : s.availability[x] = Cardinality({q \in Clients : x \in s.peer_bitfields[q]})

\* What update_availability changes.
Updates(s, v, peer, bits) ==
  /\ v.pending = s.pending /\ v.requested_from = s.requested_from
  /\ v.in_progress_pieces = s.in_progress_pieces
  /\ v.peer_bitfields = [s.peer_bitfields EXCEPT ![peer] = bits]
  /\ v.availability = [p \in Pieces |-> IF p \in bits \ s.peer_bitfields[peer]
                                        THEN s.availability[p] + 1 ELSE s.availability[p]]

\* update_availability keeps the types and changes what Updates says.
LEMMA UpdateIs ==
  ASSUME NEW s \in SelState, NEW peer \in Clients, NEW bits \in SUBSET Pieces
  PROVE  /\ update_availability(s, peer, bits) \in SelState
         /\ Updates(s, update_availability(s, peer, bits), peer, bits)
<1> DEFINE a == [p \in Pieces |-> IF p \in bits \ s.peer_bitfields[peer]
                                  THEN s.availability[p] + 1 ELSE s.availability[p]]
           b == [s.peer_bitfields EXCEPT ![peer] = bits]
           v == update_availability(s, peer, bits)
<1>1. a \in [Pieces -> Nat] /\ b \in [Clients -> SUBSET Pieces]
  BY SelType
<1>2. v = [s EXCEPT !.availability = a, !.peer_bitfields = b]
  BY SelType DEF update_availability
<1> HIDE DEF a, b, v
<1>3. /\ v \in SelState /\ v.peer_bitfields = b /\ v.availability = a
      /\ v.pending = s.pending /\ v.requested_from = s.requested_from
      /\ v.in_progress_pieces = s.in_progress_pieces
  BY <1>1, <1>2 DEF SelState
<1>4. Updates(s, v, peer, bits)
  BY <1>3 DEF Updates, a, b
<1> QED BY <1>3, <1>4 DEF v

\* A growing announcement keeps the count the number of those that announced.
LEMMA UpdateCounts ==
  ASSUME NEW s \in SelState, NEW peer \in Clients, NEW bits \in SUBSET Pieces,
         Counted(s), s.peer_bitfields[peer] \subseteq bits
  PROVE  Counted(update_availability(s, peer, bits))
<1> DEFINE v == update_availability(s, peer, bits)
<1>1. /\ v.peer_bitfields = [s.peer_bitfields EXCEPT ![peer] = bits]
      /\ \A p \in Pieces : v.availability[p] = IF p \in bits \ s.peer_bitfields[peer]
                                               THEN s.availability[p] + 1 ELSE s.availability[p]
  <2>1. Updates(s, v, peer, bits)
    BY UpdateIs
  <2> HIDE DEF v
  <2> QED BY <2>1 DEF Updates
<1> HIDE DEF v
<1>2. s.peer_bitfields \in [Clients -> SUBSET Pieces]
  BY SelType
<1>3. ASSUME NEW x \in Pieces
      PROVE  v.availability[x] = Cardinality({q \in Clients : x \in v.peer_bitfields[q]})
  <2> DEFINE A == {q \in Clients : x \in s.peer_bitfields[q]}
             B == {q \in Clients : x \in v.peer_bitfields[q]}
  <2>1. IsFiniteSet(A) /\ Cardinality(A) = s.availability[x]
    BY ClientsAssumption, FS_Subset DEF Counted
  <2>2. CASE x \in bits \ s.peer_bitfields[peer]
    <3>1. B = A \cup {peer} /\ peer \notin A
      BY <1>1, <1>2, <2>2
    <3> HIDE DEF A, B
    <3>2. Cardinality(B) = Cardinality(A) + 1
      BY <2>1, <3>1, FS_AddElement
    <3>3. v.availability[x] = s.availability[x] + 1
      BY <1>1, <2>2
    <3>4. v.availability[x] = Cardinality(B)
      BY <2>1, <3>2, <3>3
    <3> QED BY <3>4 DEF B
  <2>3. CASE x \notin bits \ s.peer_bitfields[peer]
    <3>1. B = A
      BY <1>1, <1>2, <2>3
    <3> QED BY <1>1, <2>1, <2>3, <3>1
  <2> QED BY <2>2, <2>3
<1> QED BY <1>3 DEF Counted, v

-----------------------------------------------------------------------------
\* Some piece is the best of those not started.
LEMMA BestExists ==
  ASSUME NEW s \in SelState, NEW fresh \in SUBSET Pieces, fresh # {}
  PROVE  \E p \in fresh : \A q \in fresh \ {p} : Better(s, p, q)
<1>1. fresh \subseteq Nat
  BY GeometryAssumption DEF Pieces
<1>2. \A p \in fresh : s.availability[p] \in Nat
  BY SelType
<1>3. CASE s.completed_count = 0
  <2>1. PICK p \in fresh : \A q \in fresh : p <= q
    BY <1>1, LeastElement
  <2>2. \A q \in fresh \ {p} : p < q
    BY <1>1, <2>1
  <2> QED BY <1>3, <2>2 DEF Better
<1>4. CASE s.completed_count # 0
  <2> DEFINE A == {s.availability[p] : p \in fresh}
  <2>1. A \subseteq Nat /\ A # {}
    BY <1>2
  <2>2. PICK a \in A : \A b \in A : a <= b
    <3> HIDE DEF A
    <3> QED BY <2>1, LeastElement
  <2> DEFINE F == {p \in fresh : s.availability[p] = a}
  <2>3. F \subseteq Nat /\ F # {}
    BY <1>1, <2>2
  <2>4. PICK p \in F : \A q \in F : p <= q
    <3> HIDE DEF F
    <3> QED BY <2>3, LeastElement
  <2>5. ASSUME NEW q \in fresh \ {p}
        PROVE  Better(s, p, q)
    <3>1. s.availability[p] = a /\ a <= s.availability[q] /\ s.availability[q] \in Nat /\ a \in Nat
      BY <1>2, <2>1, <2>2, <2>4
    <3>2. CASE s.availability[q] = a
      <4>1. p <= q /\ p \in Nat /\ q \in Nat
        BY <1>1, <2>4, <3>2
      <4>2. p < q
        BY <4>1
      <4> QED BY <3>1, <3>2, <4>2 DEF Better
    <3>3. CASE s.availability[q] # a
      <4>1. a < s.availability[q]
        BY <3>1, <3>3
      <4> QED BY <1>4, <3>1, <3>3, <4>1 DEF Better
    <3> QED BY <3>2, <3>3
  <2> QED BY <2>4, <2>5
<1> QED BY <1>3, <1>4

\* A plan asks only for what its peer has announced, and cancels at most one.
PlanFits(s, pl) ==
  /\ Len(pl.cancellations) <= 1
  /\ \A i \in 1 .. Len(pl.items) : pl.items[i][1] \in s.peer_bitfields[pl.peer]
PlansFit(s) == \A i \in 1 .. Len(s.pending) : PlanFits(s, s.pending[i])
SelGood(s) == Counted(s) /\ PlansFit(s)

\* More plans, no other change that matters.
LEMMA MorePlans ==
  ASSUME NEW s \in SelState, NEW v, NEW more \in Seq(request_plan), SelGood(s),
         v.pending = s.pending \o more, v.peer_bitfields = s.peer_bitfields,
         v.availability = s.availability,
         \A i \in 1 .. Len(more) : PlanFits(s, more[i])
  PROVE  SelGood(v)
<1>1. Counted(v)
  BY DEF SelGood, Counted
<1> DEFINE p == s.pending
<1>2. p \in Seq(request_plan) /\ \A i \in 1 .. Len(p) : PlanFits(s, p[i])
  BY SelType DEF SelGood, PlansFit
<1>3. v.pending = p \o more
  OBVIOUS
<1> HIDE DEF p
<1>4. /\ Len(p \o more) = Len(p) + Len(more) /\ Len(p) \in Nat /\ Len(more) \in Nat
      /\ \A i \in 1 .. Len(p) + Len(more) :
           (p \o more)[i] = IF i <= Len(p) THEN p[i] ELSE more[i - Len(p)]
  BY <1>2, ConcatProperties
<1>5. ASSUME NEW i \in 1 .. Len(v.pending)
      PROVE  PlanFits(v, v.pending[i])
  <2>1. CASE i <= Len(p)
    BY <1>2, <1>3, <1>4, <2>1 DEF PlanFits
  <2>2. CASE i > Len(p)
    <3>1. i - Len(p) \in 1 .. Len(more) /\ v.pending[i] = more[i - Len(p)]
      BY <1>3, <1>4, <2>2
    <3> QED BY <3>1 DEF PlanFits
  <2> QED BY <1>3, <1>4, <2>1, <2>2
<1> QED BY <1>1, <1>5 DEF SelGood, PlansFit

\* A completion is recorded and the others asked are to be cancelled.
Completes(s, v, peer, sp, full) ==
  LET p == sp[1]
      before == IF p \in Started(s) THEN s.in_progress_pieces[p] ELSE {}
      O == s.requested_from[sp] \ {peer}
  IN  /\ v.peer_bitfields = s.peer_bitfields /\ v.availability = s.availability
      /\ v.requested_from = [s.requested_from EXCEPT ![sp] = {}]
      /\ v.in_progress_pieces = IF full THEN [x \in Started(s) \ {p} |-> s.in_progress_pieces[x]]
                                ELSE Put(s.in_progress_pieces, p, before \cup {sp[2]})
      /\ \E more \in Seq(request_plan) :
           /\ v.pending = s.pending \o more
           /\ \A i \in 1 .. Len(more) :
                more[i].peer \in O /\ more[i].items = <<>> /\ more[i].cancellations = <<sp>>
           /\ \A q \in O : \E i \in 1 .. Len(more) :
                more[i].peer = q /\ \A j \in 1 .. Len(more) : more[j].peer = q => j = i

\* handle_completion changes progress and cancels at the others asked.
LEMMA CompletionIs ==
  ASSUME NEW s \in SelState, NEW peer \in Clients, NEW sp \in SubPieceId, NEW full \in BOOLEAN
  PROVE  LET v == handle_completion(s, peer, sp, full)
         IN  v \in SelState /\ Completes(s, v, peer, sp, full)
<1> DEFINE v == handle_completion(s, peer, sp, full)
           p == sp[1]
           f == s.in_progress_pieces
           before == IF p \in Started(s) THEN f[p] ELSE {}
           O == s.requested_from[sp] \ {peer}
           others == Ascending(O)
           more == [i \in DOMAIN others |-> plan(others[i], <<>>, <<sp>>)]
           rf == [s.requested_from EXCEPT ![sp] = {}]
           pend == s.pending \o more
           r == [s EXCEPT !.requested_from = rf, !.pending = pend]
<1>1. p \in Pieces /\ sp[2] \in SubPieces
  BY DEF SubPieceId
<1>2. /\ O \subseteq Clients /\ O \subseteq Nat /\ IsFiniteSet(O)
  <2>1. O \subseteq Clients
    BY SelType
  <2> HIDE DEF O
  <2> QED BY <2>1, ClientsAssumption, FS_Subset
<1>3. /\ \A i \in 1 .. Cardinality(O) : others[i] \in Clients /\ others[i] \in O
      /\ \A q \in O : \E i \in 1 .. Cardinality(O) :
           others[i] = q /\ \A j \in 1 .. Cardinality(O) : others[j] = q => j = i
  <2> HIDE DEF O
  <2>1. /\ \A i \in 1 .. Cardinality(O) : others[i] \in O
        /\ \A q \in O : \E i \in 1 .. Cardinality(O) :
             others[i] = q /\ \A j \in 1 .. Cardinality(O) : others[j] = q => j = i
    BY <1>2, AscendingLists
  <2> QED BY <1>2, <2>1
<1>4. DOMAIN others = 1 .. Cardinality(O) /\ Cardinality(O) \in Nat
  <2> HIDE DEF O
  <2> QED BY <1>2, FS_CardinalityType DEF Ascending
<1>5. \A i \in 1 .. Cardinality(O) :
        /\ more[i] \in request_plan /\ more[i].peer = others[i]
        /\ more[i].items = <<>> /\ more[i].cancellations = <<sp>>
  <2> HIDE DEF others, O
  <2>1. ASSUME NEW i \in 1 .. Cardinality(O)
        PROVE  /\ more[i] \in request_plan /\ more[i].peer = others[i]
               /\ more[i].items = <<>> /\ more[i].cancellations = <<sp>>
    <3>1. more[i] = plan(others[i], <<>>, <<sp>>) /\ others[i] \in Clients
      BY <1>3, <1>4
    <3>2. <<>> \in Seq(SubPieceId) /\ <<sp>> \in Seq(SubPieceId)
      OBVIOUS
    <3> HIDE DEF more
    <3> QED BY <3>1, <3>2 DEF plan, request_plan
  <2> QED BY <2>1
<1>6. more \in Seq(request_plan) /\ Len(more) = Cardinality(O)
  <2>1. more \in [1 .. Cardinality(O) -> request_plan]
    <3> HIDE DEF others, O
    <3> QED BY <1>4, <1>5
  <2> HIDE DEF more, O
  <2> QED BY <1>4, <2>1, SequenceOfFunction
<1>7. rf \in [SubPieceId -> SUBSET Clients]
  BY SelType
<1>8. pend \in Seq(request_plan)
  <2> DEFINE a == s.pending
  <2>1. a \in Seq(request_plan)
    BY SelType
  <2> HIDE DEF a, more
  <2>2. a \o more \in Seq(request_plan)
    BY <1>6, <2>1
  <2> QED BY <2>2 DEF a
<1> HIDE DEF more
<1>9. f \in Progress /\ before \in SUBSET SubPieces
  BY SelType, ProgressIs DEF Started
<1>10. v = IF full
           THEN [r EXCEPT !.have = @ \cup {p}, !.completed_count = @ + 1,
                          !.in_progress_pieces = [x \in DOMAIN f \ {p} |-> f[x]]]
           ELSE [r EXCEPT !.in_progress_pieces = Put(f, p, before \cup {sp[2]})]
  <2>1. r = [s EXCEPT !.requested_from[sp] = {}, !.pending = @ \o more]
    BY SelType DEF SelState
  <2> DEFINE x == [s EXCEPT !.requested_from[sp] = {}, !.pending = @ \o more]
  <2>2. x.in_progress_pieces = f
    BY DEF SelState
  <2>3. v = IF full
            THEN [x EXCEPT !.have = @ \cup {p}, !.completed_count = @ + 1,
                           !.in_progress_pieces = [y \in Started(s) \ {p} |-> x.in_progress_pieces[y]]]
            ELSE [x EXCEPT !.in_progress_pieces = Put(x.in_progress_pieces, p, before \cup {sp[2]})]
    BY DEF handle_completion, more
  <2> HIDE DEF x, v, r, before
  <2>4. x = r
    BY <2>1 DEF x
  <2> QED BY <2>2, <2>3, <2>4 DEF Started
<1> DEFINE f1 == [x \in DOMAIN f \ {p} |-> f[x]]
           f2 == Put(f, p, before \cup {sp[2]})
<1>11. f1 \in Progress
  <2> HIDE DEF f
  <2> QED BY <1>9, ProgressWithout
<1>12. f2 \in Progress
  <2>1. before \cup {sp[2]} \in SUBSET SubPieces
    BY <1>1, <1>9
  <2> HIDE DEF f, before
  <2> QED BY <1>1, <1>9, <2>1, ProgressPut
<1>13. v = IF full THEN [r EXCEPT !.have = @ \cup {p}, !.completed_count = @ + 1, !.in_progress_pieces = f1]
           ELSE [r EXCEPT !.in_progress_pieces = f2]
  BY <1>10
<1> HIDE DEF f1, f2, before, f, v, rf, pend, p
<1>14. r \in SelState /\ r.peer_bitfields = s.peer_bitfields /\ r.availability = s.availability
       /\ r.pending = pend /\ r.requested_from = rf
  BY <1>7, <1>8 DEF SelState
<1> HIDE DEF r
<1>15. v \in SelState /\ v.peer_bitfields = s.peer_bitfields /\ v.availability = s.availability
       /\ v.pending = pend /\ v.requested_from = rf
       /\ v.in_progress_pieces = IF full THEN f1 ELSE f2
  <2>1. CASE full
    <3>1. v = [r EXCEPT !.have = @ \cup {p}, !.completed_count = @ + 1, !.in_progress_pieces = f1]
      BY <1>13, <2>1
    <3> DEFINE h == r.have \cup {p}
               n == r.completed_count + 1
    <3>2. h \in SUBSET Pieces /\ n \in Nat
      BY <1>1, <1>14, SelType
    <3>3. v = [r EXCEPT !.have = h, !.completed_count = n, !.in_progress_pieces = f1]
      BY <3>1, <1>14 DEF SelState
    <3> HIDE DEF h, n
    <3> QED BY <1>11, <1>14, <2>1, <3>2, <3>3 DEF SelState
  <2>2. CASE ~full
    <3>1. v = [r EXCEPT !.in_progress_pieces = f2]
      BY <1>13, <2>2
    <3> QED BY <1>12, <1>14, <2>2, <3>1 DEF SelState
  <2> QED BY <2>1, <2>2
<1>16. /\ \A i \in 1 .. Len(more) :
            more[i].peer \in O /\ more[i].items = <<>> /\ more[i].cancellations = <<sp>>
       /\ \A q \in O : \E i \in 1 .. Len(more) :
            more[i].peer = q /\ \A j \in 1 .. Len(more) : more[j].peer = q => j = i
  <2> HIDE DEF O, others
  <2> DEFINE n == Cardinality(O)
  <2>1. Len(more) = n /\ \A i \in 1 .. n : more[i].peer = others[i]
    BY <1>5, <1>6
  <2>2. \A i \in 1 .. n : more[i].items = <<>> /\ more[i].cancellations = <<sp>>
    BY <1>5
  <2>3. \A q \in O : \E i \in 1 .. n : others[i] = q /\ \A j \in 1 .. n : others[j] = q => j = i
    BY <1>3
  <2>4. \A i \in 1 .. n : others[i] \in O
    BY <1>3
  <2> HIDE DEF n
  <2>5. \A q \in O : \E i \in 1 .. n : more[i].peer = q /\ \A j \in 1 .. n : more[j].peer = q => j = i
    BY <2>1, <2>3
  <2> QED BY <2>1, <2>2, <2>4, <2>5
<1> HIDE DEF others
<1>17. Completes(s, v, peer, sp, full)
  BY <1>6, <1>15, <1>16 DEF Completes, pend, rf, f1, f2, f, before, p, Started
<1> QED BY <1>15, <1>17 DEF v

\* Sub-pieces of one piece are asked for.
AsksFor(s, v, peer, p, subs) ==
  /\ v.peer_bitfields = s.peer_bitfields /\ v.availability = s.availability
  /\ v.in_progress_pieces = s.in_progress_pieces
  /\ v.requested_from = [sp \in SubPieceId |-> IF sp[1] = p /\ sp[2] \in subs
                                               THEN s.requested_from[sp] \cup {peer}
                                               ELSE s.requested_from[sp]]
  /\ \E pl \in request_plan :
       /\ v.pending = Append(s.pending, pl)
       /\ pl.peer = peer /\ pl.cancellations = <<>>
       /\ \A i \in 1 .. Len(pl.items) : pl.items[i][1] = p /\ pl.items[i][2] \in subs
       /\ \A k \in subs : \E i \in 1 .. Len(pl.items) :
            pl.items[i][2] = k /\ \A j \in 1 .. Len(pl.items) : pl.items[j][2] = k => j = i

\* Ask adds one plan for peer, of sub-pieces of p.
LEMMA AskIs ==
  ASSUME NEW s \in SelState, NEW peer \in Clients, NEW p \in Pieces, NEW subs \in SUBSET SubPieces
  PROVE  LET v == Ask(s, peer, p, subs)
         IN  v \in SelState /\ AsksFor(s, v, peer, p, subs)
<1> DEFINE v == Ask(s, peer, p, subs)
           order == Ascending(subs)
           items == [i \in DOMAIN order |-> <<p, order[i]>>]
           n == Cardinality(subs)
           rf == [sp \in SubPieceId |-> IF sp[1] = p /\ sp[2] \in subs
                                        THEN s.requested_from[sp] \cup {peer} ELSE s.requested_from[sp]]
           pl == plan(peer, items, <<>>)
<1>1. subs \subseteq Nat /\ IsFiniteSet(subs)
  <2>1. SubPieces = 0 .. SubPiecesPerPiece - 1 /\ SubPiecesPerPiece - 1 \in Int
    BY GeometryAssumption DEF SubPieces
  <2>2. SubPieces \subseteq Nat /\ IsFiniteSet(SubPieces)
    BY <2>1, FS_Interval
  <2> QED BY <2>2, FS_Subset
<1>2. /\ n \in Nat /\ DOMAIN order = 1 .. n /\ \A i \in 1 .. n : order[i] \in subs
      /\ \A k \in subs : \E i \in 1 .. n : order[i] = k /\ \A j \in 1 .. n : order[j] = k => j = i
  BY <1>1, AscendingLists, FS_CardinalityType DEF Ascending
<1> HIDE DEF order, n
<1>3. /\ items \in Seq(SubPieceId) /\ Len(items) = n
      /\ \A i \in 1 .. n : items[i][1] = p /\ items[i][2] \in subs
      /\ \A k \in subs : \E i \in 1 .. n :
           items[i][2] = k /\ \A j \in 1 .. n : items[j][2] = k => j = i
  <2>1. items \in [1 .. n -> SubPieceId]
    BY <1>2 DEF SubPieceId
  <2>2. \A i \in 1 .. n : items[i][1] = p /\ items[i][2] = order[i]
    BY <1>2
  <2> HIDE DEF items
  <2> QED BY <1>2, <2>1, <2>2, SequenceOfFunction
<1> HIDE DEF items
<1>4. pl \in request_plan /\ pl.peer = peer /\ pl.cancellations = <<>> /\ pl.items = items
  BY <1>3 DEF plan, request_plan
<1>5. rf \in [SubPieceId -> SUBSET Clients]
  BY SelType
<1>6. v = [s EXCEPT !.requested_from = rf, !.pending = Append(s.pending, pl)]
  BY DEF Ask, items, order, SelState
<1> HIDE DEF rf, pl, v
<1>7. Append(s.pending, pl) \in Seq(request_plan)
  BY <1>4, SelType
<1>8. /\ v \in SelState /\ v.peer_bitfields = s.peer_bitfields /\ v.availability = s.availability
      /\ v.pending = Append(s.pending, pl) /\ v.requested_from = rf
      /\ v.in_progress_pieces = s.in_progress_pieces
  BY <1>5, <1>6, <1>7 DEF SelState
<1>9. AsksFor(s, v, peer, p, subs)
  <2>1. v.requested_from = [sp \in SubPieceId |-> IF sp[1] = p /\ sp[2] \in subs
                                               THEN s.requested_from[sp] \cup {peer}
                                               ELSE s.requested_from[sp]]
    BY <1>8 DEF rf
  <2>2. /\ \A i \in 1 .. Len(pl.items) : pl.items[i][1] = p /\ pl.items[i][2] \in subs
        /\ \A k \in subs : \E i \in 1 .. Len(pl.items) :
             pl.items[i][2] = k /\ \A j \in 1 .. Len(pl.items) : pl.items[j][2] = k => j = i
    BY <1>3, <1>4
  <2> QED BY <1>4, <1>8, <2>1, <2>2 DEF AsksFor
<1> QED BY <1>8, <1>9 DEF v

\* A plan for a piece peer has announced fits.
LEMMA AsksForFits ==
  ASSUME NEW s \in SelState, NEW v, NEW peer, NEW p, NEW subs, SelGood(s),
         AsksFor(s, v, peer, p, subs),
         p \in s.peer_bitfields[peer]
  PROVE  SelGood(v)
<1>1. PICK pl \in request_plan :
       /\ v.pending = Append(s.pending, pl)
       /\ pl.peer = peer /\ pl.cancellations = <<>>
       /\ \A i \in 1 .. Len(pl.items) : pl.items[i][1] = p
  BY DEF AsksFor
<1>2. PlanFits(s, pl)
  BY <1>1 DEF PlanFits
<1>3. <<pl>> \in Seq(request_plan) /\ \A i \in 1 .. Len(<<pl>>) : PlanFits(s, <<pl>>[i])
  BY <1>2
<1>4. v.pending = s.pending \o <<pl>>
  <2> DEFINE a == s.pending
  <2>1. a \in Seq(request_plan) /\ v.pending = Append(a, pl)
    BY <1>1, SelType
  <2> HIDE DEF a
  <2>2. Append(a, pl) = a \o <<pl>>
    BY <2>1, AppendIsConcat
  <2> QED BY <2>1, <2>2 DEF a
<1> DEFINE more == <<pl>>
<1> HIDE DEF more
<1>5. more \in Seq(request_plan) /\ \A i \in 1 .. Len(more) : PlanFits(s, more[i])
  BY <1>3 DEF more
<1>6. v.pending = s.pending \o more
  BY <1>4 DEF more
<1> QED BY <1>5, <1>6, MorePlans DEF AsksFor

\* What try_plan_for asks for, if anything: sub-pieces wanted of a started piece,
\* or all of one that starts with it.
Tries(s, v, peer) ==
  \/ v = s
  \/ \E p \in Started(s) \cap Pieces : AsksFor(s, v, peer, p, Wanted(s, peer, p))
  \/ \E p \in Pieces \ Started(s) : \E u \in SelState :
       /\ u = [s EXCEPT !.in_progress_pieces = Put(@, p, {})]
       /\ AsksFor(u, v, peer, p, SubPieces)

\* try_plan_for keeps the selector good.
LEMMA TryPlanIs ==
  ASSUME NEW s \in SelState, SelGood(s), NEW peer \in Clients
  PROVE  LET v == try_plan_for(s, peer)
         IN  v \in SelState /\ SelGood(v) /\ v.peer_bitfields = s.peer_bitfields /\ Tries(s, v, peer)
<1> DEFINE bits == s.peer_bitfields[peer]
           W(p) == Wanted(s, peer, p)
           started == {p \in Started(s) \cap bits : W(p) # {}}
           fresh == bits \ (s.have \cup Started(s))
           best == CHOOSE p \in fresh : \A q \in fresh \ {p} : Better(s, p, q)
           first == Min(started)
           s1 == [s EXCEPT !.in_progress_pieces = Put(@, best, {})]
           v == try_plan_for(s, peer)
<1>1. bits \in SUBSET Pieces
  BY SelType
<1>2. v = IF started # {} THEN Ask(s, peer, first, W(first))
          ELSE IF fresh # {} THEN Ask(s1, peer, best, SubPieces) ELSE s
  BY DEF try_plan_for
<1> HIDE DEF bits, v
<1>3. \A p : W(p) \in SUBSET SubPieces
  BY DEF Wanted
<1> HIDE DEF W
<1>4. CASE started # {}
  <2>1. started \subseteq bits /\ started \subseteq Nat
    <3>1. Pieces \subseteq Nat
      BY GeometryAssumption DEF Pieces
    <3>2. started \subseteq bits
      OBVIOUS
    <3> HIDE DEF started
    <3> QED BY <1>1, <3>1, <3>2
  <2>2. first \in started
    <3> HIDE DEF started
    <3>1. \E m \in started : \A i \in started : m <= i
      BY <1>4, <2>1, LeastElement
    <3> QED BY <3>1 DEF Min
  <2>3. v = Ask(s, peer, first, W(first))
    BY <1>2, <1>4
  <2> HIDE DEF started, first
  <2>4. first \in Pieces /\ first \in bits
    BY <1>1, <2>1, <2>2
  <2>5. v \in SelState /\ AsksFor(s, v, peer, first, W(first))
    BY <1>3, <2>3, <2>4, AskIs
  <2>6. SelGood(v) /\ v.peer_bitfields = s.peer_bitfields
    <3>1. SelGood(v)
      BY <2>4, <2>5, AsksForFits DEF bits
    <3> QED BY <2>5, <3>1 DEF AsksFor
  <2>7. first \in Started(s)
    BY <2>2 DEF started
  <2>8. Tries(s, v, peer)
    BY <2>4, <2>5, <2>7 DEF Tries, W
  <2> QED BY <2>5, <2>6, <2>8 DEF v
<1>5. CASE started = {} /\ fresh # {}
  <2>1. fresh \in SUBSET Pieces /\ fresh \subseteq bits
    BY <1>1
  <2>2. best \in fresh
    <3> HIDE DEF fresh
    <3> QED BY <1>5, <2>1, BestExists
  <2>3. v = Ask(s1, peer, best, SubPieces)
    BY <1>2, <1>5
  <2> DEFINE f == Put(s.in_progress_pieces, best, {})
  <2>4. s1 = [s EXCEPT !.in_progress_pieces = f]
    BY DEF SelState
  <2> HIDE DEF started, fresh, best, s1
  <2>5. best \in Pieces /\ best \in bits /\ best \notin Started(s)
    BY <2>1, <2>2 DEF fresh
  <2>6. f \in Progress
    BY <2>5, SelType, ProgressPut
  <2> HIDE DEF f
  <2>7. s1 \in SelState /\ s1.peer_bitfields = s.peer_bitfields /\ s1.availability = s.availability
        /\ s1.pending = s.pending
    BY <2>4, <2>6 DEF SelState
  <2>8. SelGood(s1)
    BY <2>7 DEF SelGood, Counted, PlansFit, PlanFits
  <2>9. v \in SelState /\ AsksFor(s1, v, peer, best, SubPieces)
    BY <2>3, <2>5, <2>7, AskIs
  <2>10. SelGood(v) /\ v.peer_bitfields = s.peer_bitfields
    <3>1. best \in s1.peer_bitfields[peer]
      BY <2>5, <2>7 DEF bits
    <3>2. SelGood(v)
      BY <2>7, <2>8, <2>9, <3>1, AsksForFits
    <3> QED BY <2>7, <2>9, <3>2 DEF AsksFor
  <2>11. Tries(s, v, peer)
    <3>1. s1 = [s EXCEPT !.in_progress_pieces = Put(@, best, {})]
      BY DEF s1
    <3> QED BY <2>5, <2>7, <2>9, <3>1 DEF Tries
  <2> QED BY <2>9, <2>10, <2>11 DEF v
<1>6. CASE started = {} /\ fresh = {}
  <2>1. v = s
    BY <1>2, <1>6
  <2> QED BY <2>1 DEF v, Tries
<1> QED BY <1>4, <1>5, <1>6

\* What an observation is, by its kind.
LEMMA ObsIs ==
  ASSUME NEW o \in Obs
  PROVE  /\ o.peer \in Clients
         /\ o.kind = "availability" => o.bitfield \in SUBSET Pieces
                                       /\ o = obs_availability(o.peer, o.bitfield)
         /\ o.kind = "completion" =>
              /\ o.sub \in SubPieceId /\ o.full_piece \in BOOLEAN
              /\ o = obs_completion(o.peer, o.sub, o.full_piece)
<1>1. CASE \E q \in Clients : \E b \in BOOLEAN : o = obs_peer_interest(q, b)
  BY <1>1 DEF obs_peer_interest
<1>2. CASE \E q \in Clients : \E b \in SUBSET Pieces : o = obs_availability(q, b)
  BY <1>2 DEF obs_availability
<1>3. CASE \E q \in Clients : \E sp \in SubPieceId : \E b \in BOOLEAN : o = obs_completion(q, sp, b)
  BY <1>3 DEF obs_completion
<1>4. CASE \E q \in Clients : \E p \in Pieces : o = obs_upload(q, p)
  BY <1>4 DEF obs_upload
<1> QED BY <1>1, <1>2, <1>3, <1>4 DEF Obs

\* What one observation changes of what the peers are known to have.
Learns(s, v, o) ==
  \A q \in Clients : v.peer_bitfields[q] =
    IF o.kind = "availability" /\ q = o.peer THEN o.bitfield ELSE s.peer_bitfields[q]

\* How an observation is handled: it is recorded, then the peer it came of is asked.
Handles(s, v, o) ==
  \/ /\ o.kind = "availability"
     /\ \E u \in SelState : Updates(s, u, o.peer, o.bitfield) /\ Tries(u, v, o.peer)
  \/ /\ o.kind = "completion" /\ o.sub \in SubPieceId /\ o.full_piece \in BOOLEAN
     /\ \E u \in SelState : Completes(s, u, o.peer, o.sub, o.full_piece) /\ Tries(u, v, o.peer)
  \/ o.kind \notin {"availability", "completion"} /\ v = s

\* An observation keeps the selector good if announcements only grow.
LEMMA OnObsIs ==
  ASSUME NEW s \in SelState, SelGood(s), NEW o \in Obs,
         o.kind = "availability" => s.peer_bitfields[o.peer] \subseteq o.bitfield
  PROVE  LET v == OnObs(s, o)
         IN  v \in SelState /\ SelGood(v) /\ Learns(s, v, o) /\ Handles(s, v, o)
<1> DEFINE v == OnObs(s, o)
<1>0. s.peer_bitfields \in [Clients -> SUBSET Pieces]
  BY SelType
<1>1. CASE o.kind = "availability"
  <2> DEFINE u == update_availability(s, o.peer, o.bitfield)
  <2>1. v = try_plan_for(u, o.peer)
    BY <1>1 DEF OnObs
  <2>2. o.peer \in Clients /\ o.bitfield \in SUBSET Pieces
    BY <1>1, ObsIs
  <2>3. u \in SelState /\ Updates(s, u, o.peer, o.bitfield) /\ Counted(u)
    BY <1>1, <2>2, UpdateIs, UpdateCounts DEF SelGood
  <2> HIDE DEF u, v
  <2>4. /\ u.pending = s.pending
        /\ \A q \in Clients : u.peer_bitfields[q] = IF q = o.peer THEN o.bitfield ELSE s.peer_bitfields[q]
    BY <1>0, <2>2, <2>3 DEF Updates
  <2>5. \A q \in Clients : s.peer_bitfields[q] \subseteq u.peer_bitfields[q]
    BY <1>1, <2>4
  <2>6. PlansFit(u)
    <3>1. ASSUME NEW i \in 1 .. Len(s.pending)
          PROVE  PlanFits(u, s.pending[i])
      <4>1. s.pending[i].peer \in Clients
        <5>1. s.pending \in Seq(request_plan)
          BY SelType
        <5>2. s.pending[i] \in request_plan
          BY <5>1
        <5> QED BY <5>2 DEF request_plan
      <4>2. PlanFits(s, s.pending[i])
        BY DEF SelGood, PlansFit
      <4> QED BY <2>5, <4>1, <4>2 DEF PlanFits
    <3> QED BY <2>4, <3>1 DEF PlansFit
  <2>7. SelGood(u)
    BY <2>3, <2>6 DEF SelGood
  <2>8. v \in SelState /\ SelGood(v) /\ v.peer_bitfields = u.peer_bitfields /\ Tries(u, v, o.peer)
    BY <2>1, <2>2, <2>3, <2>7, TryPlanIs
  <2>9. Learns(s, v, o)
    BY <1>1, <2>4, <2>8 DEF Learns
  <2>10. Handles(s, v, o)
    BY <1>1, <2>3, <2>8 DEF Handles
  <2> QED BY <2>8, <2>9, <2>10 DEF v
<1>2. CASE o.kind = "completion"
  <2> DEFINE u == handle_completion(s, o.peer, o.sub, o.full_piece)
  <2>1. v = try_plan_for(u, o.peer)
    BY <1>2 DEF OnObs
  <2>2. o.peer \in Clients /\ o.sub \in SubPieceId /\ o.full_piece \in BOOLEAN
    BY <1>2, ObsIs
  <2>3. u \in SelState /\ Completes(s, u, o.peer, o.sub, o.full_piece)
    BY <2>2, CompletionIs
  <2> HIDE DEF u, v
  <2>4. u.peer_bitfields = s.peer_bitfields /\ u.availability = s.availability
    BY <2>3 DEF Completes
  <2>5. SelGood(u)
    <3>1. PICK more \in Seq(request_plan) :
       /\ u.pending = s.pending \o more
       /\ \A i \in 1 .. Len(more) : more[i].items = <<>> /\ more[i].cancellations = <<o.sub>>
      BY <2>3 DEF Completes
    <3>2. \A i \in 1 .. Len(more) : PlanFits(s, more[i])
      <4>1. ASSUME NEW i \in 1 .. Len(more)
            PROVE  PlanFits(s, more[i])
        <5>1. more[i].items = <<>> /\ more[i].cancellations = <<o.sub>>
          BY <3>1
        <5>2. Len(more[i].items) = 0 /\ Len(more[i].cancellations) = 1
          BY <5>1
        <5> QED BY <5>1, <5>2 DEF PlanFits
      <4> QED BY <4>1
    <3> QED BY <2>4, <3>1, <3>2, MorePlans
  <2>6. v \in SelState /\ SelGood(v) /\ v.peer_bitfields = u.peer_bitfields /\ Tries(u, v, o.peer)
    BY <2>1, <2>2, <2>3, <2>5, TryPlanIs
  <2>7. Learns(s, v, o)
    BY <1>2, <2>4, <2>6 DEF Learns
  <2>8. Handles(s, v, o)
    BY <1>2, <2>2, <2>3, <2>6 DEF Handles
  <2> QED BY <2>6, <2>7, <2>8 DEF v
<1>3. CASE o.kind \notin {"availability", "completion"}
  <2>1. v = s
    BY <1>3 DEF OnObs
  <2>2. Learns(s, s, o) /\ Handles(s, s, o)
    BY <1>3 DEF Learns, Handles
  <2> HIDE DEF v
  <2> QED BY <2>1, <2>2 DEF v
<1> QED BY <1>1, <1>2, <1>3

-----------------------------------------------------------------------------
\* One direction of a connection: p's connection c to q, q's connection d to p,
\* what p has and q has, and what is under way from p to q and back.
AllBlank(u) == \A i \in 1 .. Len(u) : u[i] = Blank
\* The first message under way is the handshake.
HandshakeFirst(u) == \E i \in 1 .. Len(u) : u[i] = Handshake /\ \A j \in 1 .. i - 1 : u[j] = Blank
\* A bitfield is under way only before every other announcement.
BitfieldFirst(u, bits) ==
  \A i \in 1 .. Len(u) : u[i].type = "bitfield" =>
    bits = {} /\ \A j \in 1 .. i - 1 : u[j].type \notin {"have", "bitfield"}
\* Messages that tell the truth: pieces announced are owned, and requests are for
\* pieces the peer owns.
Honest(hp, hq) ==
  {m \in Msgs : /\ m.type = "have" => m.index \in hp
                /\ m.type = "bitfield" => m.pieces \subseteq hp
                /\ m.type = "request" => m.sub[1] \in hq}
\* What the last message under way says of choking is so, or else the peer knows it.
ChokeAgrees(c, d, u) ==
  LET last == LastOf(u, {"choke", "unchoke"})
  IN  \/ last = "none" /\ c.am_choking = d.peer_choking
      \/ last = "choke" /\ c.am_choking
      \/ last = "unchoke" /\ ~c.am_choking
\* The same of interest.
InterestAgrees(c, d, u) ==
  LET last == LastOf(u, {"interested", "not_interested"})
  IN  \/ last = "none" /\ c.am_interested = d.peer_interested
      \/ last = "interested" /\ c.am_interested
      \/ last = "not_interested" /\ ~c.am_interested
\* Each request outstanding is under way, or its answer is, unless a choke is.
Owed(c, u, back) ==
  \/ Count(back, Choke(FALSE)) > 0
  \/ \A sp \in SubPieceId :
       Count(c.outstanding, sp) <= Count(u, Request(sp)) + Count(back, Piece(sp))

\* All of that but what is owed.
HalfBut(c, d, hp, hq, u) ==
  /\ ChokeAgrees(c, d, u) /\ InterestAgrees(c, d, u)
  /\ ~c.handshake_sent => AllBlank(u) /\ ~d.handshake_received
  /\ c.handshake_sent => d.handshake_received \/ HandshakeFirst(u)
  /\ BitfieldFirst(u, d.peer_bitfield)
  /\ d.peer_bitfield \subseteq hp
  /\ u \in Seq(Honest(hp, hq))

\* What is under way, on the link and still in the queue; W are the wires, L the links.
Way(W, L, p, q) == L[p][q] \o For(q, W[p].out_wire)
\* One direction between two clients.
Half(W, L, p, q) ==
  /\ HalfBut(W[p].conns[q], W[q].conns[p], W[p].have, W[q].have, Way(W, L, p, q))
  /\ Owed(W[p].conns[q], Way(W, L, p, q), Way(W, L, q, p))
\* A client has no connection to itself.
NoSelf(W, L, p) ==
  L[p][p] = <<>> /\ ~W[p].conns[p].handshake_sent /\ AllBlank(For(p, W[p].out_wire))
\* Every two clients are in order.
Pairs(W, L) ==
  /\ \A p, q \in Clients : p # q => Half(W, L, p, q)
  /\ \A p \in Clients : NoSelf(W, L, p)

-----------------------------------------------------------------------------
\* The selector lags behind the wire only by the observations queued, which grow.
Tells(o, q) == o.kind = "availability" /\ o.peer = q
Follows(w, s) ==
  \A q \in Clients :
    /\ s.peer_bitfields[q] \subseteq w.conns[q].peer_bitfield
    /\ \A i \in 1 .. Len(w.out_obs) : Tells(w.out_obs[i], q) =>
         /\ s.peer_bitfields[q] \subseteq w.out_obs[i].bitfield
         /\ w.out_obs[i].bitfield \subseteq w.conns[q].peer_bitfield
         /\ \A j \in 1 .. i - 1 : Tells(w.out_obs[j], q) =>
              w.out_obs[j].bitfield \subseteq w.out_obs[i].bitfield
\* All that concerns one client.
Local(w, s) == Good(w) /\ Asks(w) /\ SelGood(s) /\ Follows(w, s)

\* Nothing and then nothing is nothing.
LEMMA AllBlankConcat ==
  ASSUME NEW S, NEW s \in Seq(S), NEW t \in Seq(S)
  PROVE  AllBlank(s \o t) <=> AllBlank(s) /\ AllBlank(t)
<1> DEFINE u == s \o t
<1>1. /\ Len(u) = Len(s) + Len(t) /\ Len(s) \in Nat /\ Len(t) \in Nat
      /\ \A i \in 1 .. Len(s) + Len(t) : u[i] = IF i <= Len(s) THEN s[i] ELSE t[i - Len(s)]
  BY ConcatIs
<1> HIDE DEF u
<1>2. ASSUME AllBlank(u)
      PROVE  AllBlank(s) /\ AllBlank(t)
  <2>1. ASSUME NEW i \in 1 .. Len(s)
        PROVE  s[i] = Blank
    BY <1>1, <1>2 DEF AllBlank
  <2>2. ASSUME NEW i \in 1 .. Len(t)
        PROVE  t[i] = Blank
    <3>1. i + Len(s) \in 1 .. Len(u) /\ u[i + Len(s)] = t[i]
      BY <1>1
    <3> QED BY <1>2, <3>1 DEF AllBlank
  <2> QED BY <2>1, <2>2 DEF AllBlank
<1>3. ASSUME AllBlank(s), AllBlank(t)
      PROVE  AllBlank(u)
  <2>1. ASSUME NEW i \in 1 .. Len(u)
        PROVE  u[i] = Blank
    <3>1. CASE i <= Len(s)
      BY <1>1, <1>3, <3>1 DEF AllBlank
    <3>2. CASE i > Len(s)
      <4>1. i - Len(s) \in 1 .. Len(t) /\ u[i] = t[i - Len(s)]
        BY <1>1, <3>2
      <4> QED BY <1>3, <4>1 DEF AllBlank
    <3> QED BY <1>1, <3>1, <3>2
  <2> QED BY <2>1 DEF AllBlank
<1>4. AllBlank(u) <=> AllBlank(s) /\ AllBlank(t)
  BY <1>2, <1>3
<1> QED BY <1>4 DEF u

\* Sequences of a set, one after the other.
LEMMA SeqConcat ==
  ASSUME NEW S, NEW s \in Seq(S), NEW t \in Seq(S), NEW T
  PROVE  s \o t \in Seq(T) <=> s \in Seq(T) /\ t \in Seq(T)
<1> DEFINE u == s \o t
<1>1. /\ Len(u) = Len(s) + Len(t) /\ Len(s) \in Nat /\ Len(t) \in Nat
      /\ \A i \in 1 .. Len(s) + Len(t) : u[i] = IF i <= Len(s) THEN s[i] ELSE t[i - Len(s)]
  BY ConcatIs
<1>2. ASSUME s \in Seq(T), t \in Seq(T)
      PROVE  u \in Seq(T)
  BY <1>2, ConcatIs
<1>3. \A x \in Seq(S) : (\A i \in 1 .. Len(x) : x[i] \in T) => x \in Seq(T)
  OBVIOUS
<1>4. u \in Seq(S)
  BY ConcatIs
<1> HIDE DEF u
<1>5. ASSUME u \in Seq(T)
      PROVE  s \in Seq(T) /\ t \in Seq(T)
  <2>0. \A i \in 1 .. Len(u) : u[i] \in T
    BY <1>5
  <2>1. ASSUME NEW i \in 1 .. Len(s)
        PROVE  s[i] \in T
    BY <1>1, <2>0
  <2>2. ASSUME NEW i \in 1 .. Len(t)
        PROVE  t[i] \in T
    <3>1. i + Len(s) \in 1 .. Len(u) /\ u[i + Len(s)] = t[i]
      BY <1>1
    <3> QED BY <2>0, <3>1
  <2> QED BY <1>3, <2>1, <2>2
<1>6. u \in Seq(T) <=> s \in Seq(T) /\ t \in Seq(T)
  BY <1>2, <1>5
<1> QED BY <1>6 DEF u

\* What is sent later leaves the handshake first.
LEMMA HandshakeStaysFirst ==
  ASSUME NEW S, NEW s \in Seq(S), NEW t \in Seq(S), HandshakeFirst(s)
  PROVE  HandshakeFirst(s \o t)
<1> DEFINE u == s \o t
<1>1. /\ Len(u) = Len(s) + Len(t) /\ Len(s) \in Nat /\ Len(t) \in Nat
      /\ \A i \in 1 .. Len(s) + Len(t) : u[i] = IF i <= Len(s) THEN s[i] ELSE t[i - Len(s)]
  BY ConcatIs
<1> HIDE DEF u
<1>2. PICK i \in 1 .. Len(s) : s[i] = Handshake /\ \A j \in 1 .. i - 1 : s[j] = Blank
  BY DEF HandshakeFirst
<1>3. i \in 1 .. Len(u) /\ u[i] = Handshake /\ \A j \in 1 .. i - 1 : u[j] = Blank
  BY <1>1, <1>2
<1>4. HandshakeFirst(u)
  BY <1>3 DEF HandshakeFirst
<1> QED BY <1>4 DEF u

\* Blank messages behind which the handshake comes.
LEMMA HandshakeAfterBlanks ==
  ASSUME NEW S, NEW s \in Seq(S), NEW t \in Seq(S), AllBlank(s), Len(t) > 0, t[1] = Handshake
  PROVE  HandshakeFirst(s \o t)
<1> DEFINE u == s \o t
<1>1. /\ Len(u) = Len(s) + Len(t) /\ Len(s) \in Nat /\ Len(t) \in Nat
      /\ \A i \in 1 .. Len(s) + Len(t) : u[i] = IF i <= Len(s) THEN s[i] ELSE t[i - Len(s)]
  BY ConcatIs
<1> HIDE DEF u
<1> DEFINE i == Len(s) + 1
<1>3. i \in 1 .. Len(u) /\ u[i] = Handshake /\ \A j \in 1 .. i - 1 : u[j] = Blank
  BY <1>1 DEF AllBlank
<1>4. HandshakeFirst(u)
  BY <1>3 DEF HandshakeFirst
<1> QED BY <1>4 DEF u

\* What is sent later, other than a bitfield, leaves the bitfield before all announcements.
LEMMA BitfieldStaysFirst ==
  ASSUME NEW S, NEW s \in Seq(S), NEW t \in Seq(S), NEW bits, BitfieldFirst(s, bits),
         \A i \in 1 .. Len(t) : t[i].type # "bitfield"
  PROVE  BitfieldFirst(s \o t, bits)
<1> DEFINE u == s \o t
<1>1. /\ Len(u) = Len(s) + Len(t) /\ Len(s) \in Nat /\ Len(t) \in Nat
      /\ \A i \in 1 .. Len(s) + Len(t) : u[i] = IF i <= Len(s) THEN s[i] ELSE t[i - Len(s)]
  BY ConcatIs
<1> HIDE DEF u
<1>2. ASSUME NEW i \in 1 .. Len(u), u[i].type = "bitfield"
      PROVE  bits = {} /\ \A j \in 1 .. i - 1 : u[j].type \notin {"have", "bitfield"}
  <2>1. CASE i <= Len(s)
    <3>1. i \in 1 .. Len(s) /\ s[i].type = "bitfield"
      BY <1>1, <1>2, <2>1
    <3>2. bits = {} /\ \A j \in 1 .. i - 1 : s[j].type \notin {"have", "bitfield"}
      BY <3>1 DEF BitfieldFirst
    <3>3. \A j \in 1 .. i - 1 : u[j] = s[j]
      BY <1>1, <2>1
    <3> QED BY <3>2, <3>3
  <2>2. CASE i > Len(s)
    <3>1. i - Len(s) \in 1 .. Len(t) /\ u[i] = t[i - Len(s)]
      BY <1>1, <2>2
    <3> QED BY <1>2, <3>1
  <2> QED BY <1>1, <2>1, <2>2
<1>3. BitfieldFirst(u, bits)
  BY <1>2 DEF BitfieldFirst
<1> QED BY <1>3 DEF u

\* The bitfield behind nothing of the kind.
LEMMA BitfieldAfterNone ==
  ASSUME NEW S, NEW s \in Seq(S), NEW t \in Seq(S), Len(t) = 2,
         \A i \in 1 .. Len(s) : s[i].type \notin {"have", "bitfield"},
         t[1].type \notin {"have", "bitfield"}
  PROVE  BitfieldFirst(s \o t, {})
<1> DEFINE u == s \o t
<1>1. /\ Len(u) = Len(s) + Len(t) /\ Len(s) \in Nat /\ Len(t) \in Nat
      /\ \A i \in 1 .. Len(s) + Len(t) : u[i] = IF i <= Len(s) THEN s[i] ELSE t[i - Len(s)]
  BY ConcatIs
<1> HIDE DEF u
<1>2. \A j \in 1 .. Len(u) - 1 : u[j].type \notin {"have", "bitfield"}
  <2>1. ASSUME NEW j \in 1 .. Len(u) - 1
        PROVE  u[j].type \notin {"have", "bitfield"}
    <3>1. CASE j <= Len(s)
      BY <1>1, <3>1
    <3>2. CASE j > Len(s)
      <4>1. j - Len(s) = 1 /\ u[j] = t[j - Len(s)]
        BY <1>1, <3>2
      <4> QED BY <4>1
    <3> QED BY <1>1, <3>1, <3>2
  <2> QED BY <2>1
<1>3. BitfieldFirst(u, {})
  BY <1>1, <1>2 DEF BitfieldFirst
<1> QED BY <1>3 DEF u

-----------------------------------------------------------------------------
\* The message in front has come.
LEMMA FrontIs ==
  ASSUME NEW S, NEW m \in S, NEW t \in Seq(S)
  PROVE  /\ <<m>> \o t \in Seq(S) /\ Len(<<m>> \o t) = 1 + Len(t) /\ Len(t) \in Nat
         /\ (<<m>> \o t)[1] = m
         /\ \A i \in 1 .. Len(t) : (<<m>> \o t)[i+1] = t[i]
<1> DEFINE h == <<m>>
           u == h \o t
<1>1. h \in Seq(S) /\ Len(h) = 1 /\ h[1] = m
  OBVIOUS
<1> HIDE DEF h
<1>2. /\ u \in Seq(S) /\ Len(u) = Len(h) + Len(t) /\ Len(t) \in Nat
      /\ \A i \in 1 .. Len(h) + Len(t) : u[i] = IF i <= Len(h) THEN h[i] ELSE t[i - Len(h)]
  BY <1>1, ConcatIs
<1> HIDE DEF u
<1>3. u[1] = m /\ \A i \in 1 .. Len(t) : u[i+1] = t[i]
  BY <1>1, <1>2
<1>4. u \in Seq(S) /\ Len(u) = 1 + Len(t) /\ Len(t) \in Nat
  BY <1>1, <1>2
<1> QED BY <1>3, <1>4 DEF u, h

\* If the handshake is first, it arrives first.
LEMMA HandshakeTaken ==
  ASSUME NEW S, NEW m \in S, NEW t \in Seq(S), HandshakeFirst(<<m>> \o t), m # Blank
  PROVE  m = Handshake
<1> DEFINE u == <<m>> \o t
<1>1. Len(u) = 1 + Len(t) /\ Len(t) \in Nat /\ u[1] = m
  BY FrontIs
<1>2. HandshakeFirst(u)
  OBVIOUS
<1> HIDE DEF u
<1>4. PICK i \in 1 .. Len(u) : u[i] = Handshake /\ \A j \in 1 .. i - 1 : u[j] = Blank
  BY <1>2 DEF HandshakeFirst
<1>5. i = 1
  BY <1>1, <1>4
<1> QED BY <1>1, <1>4, <1>5

\* A bitfield arrives before any other announcement, and leaves the rest in order.
LEMMA BitfieldTaken ==
  ASSUME NEW S, NEW m \in S, NEW t \in Seq(S), NEW bits, BitfieldFirst(<<m>> \o t, bits)
  PROVE  /\ BitfieldFirst(t, bits)
         /\ m.type = "bitfield" => bits = {}
         /\ m.type \in {"have", "bitfield"} => \A b : BitfieldFirst(t, b)
<1> DEFINE u == <<m>> \o t
<1>1. Len(u) = 1 + Len(t) /\ Len(t) \in Nat /\ u[1] = m /\ \A i \in 1 .. Len(t) : u[i+1] = t[i]
  BY FrontIs
<1>2. BitfieldFirst(u, bits)
  OBVIOUS
<1> HIDE DEF u
<1>3. u[1] = m /\ 1 \in 1 .. Len(u)
  BY <1>1
<1>4. \A i \in 1 .. Len(t) : i + 1 \in 1 .. Len(u) /\ u[i+1] = t[i]
  BY <1>1
<1>5. BitfieldFirst(t, bits)
  <2>1. ASSUME NEW i \in 1 .. Len(t), t[i].type = "bitfield"
        PROVE  bits = {} /\ \A j \in 1 .. i - 1 : t[j].type \notin {"have", "bitfield"}
    <3>1. bits = {} /\ \A j \in 1 .. (i + 1) - 1 : u[j].type \notin {"have", "bitfield"}
      BY <1>2, <1>4, <2>1 DEF BitfieldFirst
    <3>2. \A j \in 1 .. i - 1 : j + 1 \in 1 .. (i + 1) - 1 /\ u[j+1] = t[j]
      BY <1>1, <1>4
    <3> QED BY <3>1, <3>2
  <2> QED BY <2>1 DEF BitfieldFirst
<1>6. m.type = "bitfield" => bits = {}
  BY <1>2, <1>3 DEF BitfieldFirst
<1>7. ASSUME m.type \in {"have", "bitfield"}, NEW i \in 1 .. Len(t)
      PROVE  t[i].type # "bitfield"
  <2>1. 1 \in 1 .. (i + 1) - 1
    OBVIOUS
  <2> QED BY <1>2, <1>3, <1>4, <1>7, <2>1 DEF BitfieldFirst
<1> QED BY <1>5, <1>6, <1>7 DEF BitfieldFirst
-----------------------------------------------------------------------------
\* A blank message in the middle has left.
LEMMA GapIs ==
  ASSUME NEW S, NEW a \in Seq(S), NEW b \in S, NEW t \in Seq(S)
  PROVE  LET u == a \o (<<b>> \o t)
             v == a \o t
         IN  /\ u \in Seq(S) /\ v \in Seq(S)
             /\ Len(a) \in Nat /\ Len(t) \in Nat
             /\ Len(v) = Len(a) + Len(t) /\ Len(u) = Len(a) + Len(t) + 1
             /\ u[Len(a) + 1] = b
             /\ \A i \in 1 .. Len(a) : u[i] = v[i]
             /\ \A i \in 1 .. Len(a) + Len(t) : i > Len(a) => u[i+1] = v[i]
<1> DEFINE bt == <<b>> \o t
           u == a \o bt
           v == a \o t
<1>1. /\ bt \in Seq(S) /\ Len(bt) = 1 + Len(t) /\ Len(t) \in Nat /\ bt[1] = b
      /\ \A i \in 1 .. Len(t) : bt[i+1] = t[i]
  BY FrontIs
<1>0. bt \in Seq(S)
  BY FrontIs
<1> HIDE DEF bt
<1>2. /\ u \in Seq(S) /\ Len(u) = Len(a) + Len(bt) /\ Len(a) \in Nat
      /\ \A i \in 1 .. Len(a) + Len(bt) : u[i] = IF i <= Len(a) THEN a[i] ELSE bt[i - Len(a)]
  BY <1>0, ConcatIs
<1>3. /\ v \in Seq(S) /\ Len(v) = Len(a) + Len(t)
      /\ \A i \in 1 .. Len(a) + Len(t) : v[i] = IF i <= Len(a) THEN a[i] ELSE t[i - Len(a)]
  BY ConcatIs
<1> HIDE DEF u, v
<1>4. u[Len(a) + 1] = b
  <2> DEFINE k == Len(a) + 1
  <2>1. k \in 1 .. Len(a) + Len(bt) /\ k > Len(a) /\ k - Len(a) = 1
    BY <1>1, <1>2
  <2> HIDE DEF k
  <2>2. u[k] = bt[k - Len(a)]
    BY <1>2, <2>1
  <2>3. u[k] = b
    BY <1>1, <2>1, <2>2
  <2> QED BY <2>3 DEF k
<1>5. \A i \in 1 .. Len(a) : u[i] = v[i]
  BY <1>1, <1>2, <1>3
<1>6. ASSUME NEW i \in 1 .. Len(a) + Len(t), i > Len(a)
      PROVE  u[i+1] = v[i]
  <2> DEFINE k == i - Len(a)
  <2>1. k \in 1 .. Len(t) /\ v[i] = t[k]
    BY <1>1, <1>2, <1>3, <1>6
  <2>2. u[i+1] = bt[(i+1) - Len(a)] /\ (i+1) - Len(a) = k + 1
    BY <1>1, <1>2, <1>6
  <2> HIDE DEF k
  <2> QED BY <1>1, <2>1, <2>2
<1> QED BY <1>1, <1>2, <1>3, <1>4, <1>5, <1>6 DEF u, v, bt

\* A blank under way does not matter for the handshake,
LEMMA HandshakeGap ==
  ASSUME NEW S, NEW a \in Seq(S), NEW t \in Seq(S), Blank \in S,
         HandshakeFirst(a \o (<<Blank>> \o t))
  PROVE  HandshakeFirst(a \o t)
<1> DEFINE u == a \o (<<Blank>> \o t)
           v == a \o t
<1>1. /\ Len(a) \in Nat /\ Len(t) \in Nat
      /\ Len(v) = Len(a) + Len(t) /\ Len(u) = Len(a) + Len(t) + 1
      /\ u[Len(a) + 1] = Blank
      /\ \A i \in 1 .. Len(a) : u[i] = v[i]
      /\ \A i \in 1 .. Len(a) + Len(t) : i > Len(a) => u[i+1] = v[i]
  BY GapIs
<1>2. HandshakeFirst(u)
  OBVIOUS
<1> HIDE DEF u, v
<1>3. PICK i \in 1 .. Len(u) : u[i] = Handshake /\ \A j \in 1 .. i - 1 : u[j] = Blank
  BY <1>2 DEF HandshakeFirst
<1>4. CASE i <= Len(a)
  <2>1. i \in 1 .. Len(v) /\ v[i] = Handshake /\ \A j \in 1 .. i - 1 : v[j] = Blank
    BY <1>1, <1>3, <1>4
  <2>2. HandshakeFirst(v)
    BY <2>1 DEF HandshakeFirst
  <2> QED BY <2>2 DEF v
<1>5. CASE i > Len(a)
  <2>1. i # Len(a) + 1
    BY <1>1, <1>3 DEF Blank, Handshake
  <2> DEFINE k == i - 1
  <2>2. k \in 1 .. Len(v) /\ k > Len(a) /\ k + 1 = i
    BY <1>1, <1>3, <1>5, <2>1
  <2>3. v[k] = Handshake
    BY <1>1, <1>3, <2>2
  <2>4. \A j \in 1 .. k - 1 : v[j] = Blank
    <3>1. ASSUME NEW j \in 1 .. k - 1
          PROVE  v[j] = Blank
      <4>1. CASE j <= Len(a)
        BY <1>1, <1>3, <2>2, <4>1
      <4>2. CASE j > Len(a)
        <5>1. j + 1 \in 1 .. i - 1 /\ u[j+1] = v[j]
          BY <1>1, <1>3, <2>2, <4>2
        <5> QED BY <1>3, <5>1
      <4> QED BY <1>1, <4>1, <4>2
    <3> QED BY <3>1
  <2> HIDE DEF k
  <2>5. HandshakeFirst(v)
    BY <2>2, <2>3, <2>4 DEF HandshakeFirst
  <2> QED BY <2>5 DEF v
<1> QED BY <1>1, <1>3, <1>4, <1>5

\* nor for the bitfield,
LEMMA BitfieldGap ==
  ASSUME NEW S, NEW a \in Seq(S), NEW t \in Seq(S), Blank \in S, NEW bits,
         BitfieldFirst(a \o (<<Blank>> \o t), bits)
  PROVE  BitfieldFirst(a \o t, bits)
<1> DEFINE u == a \o (<<Blank>> \o t)
           v == a \o t
<1>1. /\ Len(a) \in Nat /\ Len(t) \in Nat
      /\ Len(v) = Len(a) + Len(t) /\ Len(u) = Len(a) + Len(t) + 1
      /\ \A i \in 1 .. Len(a) : u[i] = v[i]
      /\ \A i \in 1 .. Len(a) + Len(t) : i > Len(a) => u[i+1] = v[i]
  BY GapIs
<1>2. BitfieldFirst(u, bits)
  OBVIOUS
<1> HIDE DEF u, v
<1>3. ASSUME NEW i \in 1 .. Len(v), v[i].type = "bitfield"
      PROVE  bits = {} /\ \A j \in 1 .. i - 1 : v[j].type \notin {"have", "bitfield"}
  <2>1. CASE i <= Len(a)
    <3>1. i \in 1 .. Len(u) /\ u[i].type = "bitfield"
      BY <1>1, <1>3, <2>1
    <3>2. bits = {} /\ \A j \in 1 .. i - 1 : u[j].type \notin {"have", "bitfield"}
      BY <1>2, <3>1 DEF BitfieldFirst
    <3> QED BY <1>1, <2>1, <3>2
  <2>2. CASE i > Len(a)
    <3>1. i + 1 \in 1 .. Len(u) /\ u[i+1].type = "bitfield"
      BY <1>1, <1>3, <2>2
    <3>2. bits = {} /\ \A j \in 1 .. (i + 1) - 1 : u[j].type \notin {"have", "bitfield"}
      BY <1>2, <3>1 DEF BitfieldFirst
    <3>3. ASSUME NEW j \in 1 .. i - 1
          PROVE  v[j].type \notin {"have", "bitfield"}
      <4>1. CASE j <= Len(a)
        BY <1>1, <3>2, <4>1
      <4>2. CASE j > Len(a)
        <5>1. j + 1 \in 1 .. (i + 1) - 1 /\ u[j+1] = v[j]
          BY <1>1, <2>2, <4>2
        <5> QED BY <3>2, <5>1
      <4> QED BY <1>1, <4>1, <4>2
    <3> QED BY <3>2, <3>3
  <2> QED BY <1>1, <2>1, <2>2
<1>4. BitfieldFirst(v, bits)
  BY <1>3 DEF BitfieldFirst
<1> QED BY <1>4 DEF v

-----------------------------------------------------------------------------
(* Sending in one direction of a connection.                               *)

SameHeard(c, e) ==
  /\ e.handshake_received = c.handshake_received
  /\ e.peer_choking = c.peer_choking /\ e.peer_interested = c.peer_interested
  /\ e.peer_bitfield = c.peer_bitfield

\* What the last message of a kind tells is of that kind, or there was none.
LEMMA LastTelling ==
  ASSUME NEW s \in Seq(Msgs), NEW t \in Seq(Msgs)
  PROVE  /\ LastOf(s \o t, {"choke", "unchoke"}) =
              IF LastOf(t, {"choke", "unchoke"}) = "none" THEN LastOf(s, {"choke", "unchoke"})
              ELSE LastOf(t, {"choke", "unchoke"})
         /\ LastOf(s \o t, {"interested", "not_interested"}) =
              IF LastOf(t, {"interested", "not_interested"}) = "none"
              THEN LastOf(s, {"interested", "not_interested"})
              ELSE LastOf(t, {"interested", "not_interested"})
<1>1. "none" \notin {"choke", "unchoke"} /\ "none" \notin {"interested", "not_interested"}
  OBVIOUS
<1> QED BY <1>1, LastConcat

\* The elements of a sequence of messages.
LEMMA SeqMembers ==
  ASSUME NEW S, NEW s \in Seq(S), NEW T, \A i \in 1 .. Len(s) : s[i] \in T
  PROVE  s \in Seq(T)
  OBVIOUS

\* A blank is no message.
LEMMA BlankMsgs ==
  /\ Blank \in Msgs /\ <<>> \in Seq(Msgs)
  /\ \A m \in WireMsg : m # Blank /\ m \in Msgs
<1>1. \A m \in WireMsg : m # Blank
  BY MessageIs, MessageTypes
<1> QED BY <1>1 DEF Msgs

\* Messages go out on p's connection to q.
LEMMA HalfSend ==
  ASSUME NEW c \in conn, NEW d \in conn, NEW e \in conn, NEW hp, NEW g, NEW hq,
         NEW u \in Seq(Msgs), NEW ms \in Seq(Msgs), hp \subseteq g,
         HalfBut(c, d, hp, hq, u), Sends(c, e, g, ms), AsksOf(c), c.peer_bitfield \subseteq hq
  PROVE  HalfBut(e, d, g, hq, u \o ms)
<1>1. u \o ms \in Seq(Msgs)
  BY ConcatIs
<1>2. ChokeAgrees(e, d, u \o ms)
  <2>1. ChokeAgrees(c, d, u) /\ TellsChoke(c, e, ms)
    BY DEF HalfBut, Sends
  <2> QED BY <2>1, LastTelling DEF ChokeAgrees, TellsChoke
<1>3. InterestAgrees(e, d, u \o ms)
  <2>1. InterestAgrees(c, d, u) /\ TellsInterest(c, e, ms)
    BY DEF HalfBut, Sends
  <2> QED BY <2>1, LastTelling DEF InterestAgrees, TellsInterest
<1>4. e.handshake_sent = c.handshake_sent /\ c.handshake_sent \in BOOLEAN
  BY DEF Sends, SameSeen, conn
<1>5. ~e.handshake_sent => AllBlank(u \o ms) /\ ~d.handshake_received
  BY <1>4, AllBlankConcat DEF HalfBut, Sends, AllBlank
<1>6. e.handshake_sent => d.handshake_received \/ HandshakeFirst(u \o ms)
  BY <1>4, HandshakeStaysFirst DEF HalfBut
<1>7. BitfieldFirst(u \o ms, d.peer_bitfield)
  <2>1. \A i \in 1 .. Len(ms) : ms[i].type # "bitfield"
    BY DEF Sends, Sendable
  <2> QED BY <2>1, BitfieldStaysFirst DEF HalfBut
<1>8. u \o ms \in Seq(Honest(g, hq))
  <2>1. u \in Seq(Honest(g, hq))
    <3>1. Honest(hp, hq) \subseteq Honest(g, hq)
      BY DEF Honest
    <3>2. u \in Seq(Honest(hp, hq))
      BY DEF HalfBut
    <3> DEFINE S == Honest(hp, hq)
               T == Honest(g, hq)
    <3> HIDE DEF S, T
    <3>3. S \subseteq T /\ u \in Seq(S)
      BY <3>1, <3>2 DEF S, T
    <3>4. u \in Seq(T)
      BY <3>3
    <3> QED BY <3>4 DEF T
  <2>2. ms \in Seq(Honest(g, hq))
    <3>1. ASSUME NEW i \in 1 .. Len(ms)
          PROVE  ms[i] \in Honest(g, hq)
      <4>1. ms[i] \in Msgs /\ Sendable(c, g, ms[i])
        BY DEF Sends
      <4>2. ms[i].type = "request" => ms[i].sub[1] \in hq
        <5>1. SUFFICES ASSUME ms[i].type = "request" PROVE ms[i].sub[1] \in hq
          OBVIOUS
        <5>2. ms[i] \in WireMsg
          BY <4>1, <5>1, MessageTypes DEF Msgs
        <5>3. ms[i].sub \in SubPieceId /\ KeptCount(c, ms[i].sub) > 0
          BY <4>1, <5>1, <5>2, MessageIs DEF Sendable
        <5> QED BY <5>3 DEF AsksOf
      <4> QED BY <4>1, <4>2 DEF Honest, Sendable
    <3> DEFINE T == Honest(g, hq)
    <3> HIDE DEF T
    <3>2. \A i \in 1 .. Len(ms) : ms[i] \in T
      BY <3>1 DEF T
    <3>3. ms \in Seq(T)
      BY <3>2
    <3> QED BY <3>3 DEF T
  <2> QED BY <2>1, <2>2, SeqConcat
<1>9. d.peer_bitfield \subseteq g
  BY DEF HalfBut
<1> QED BY <1>2, <1>3, <1>5, <1>6, <1>7, <1>8, <1>9 DEF HalfBut

\* Sending keeps every request accounted for: what is asked is sent.
LEMMA OwedSend ==
  ASSUME NEW c \in conn, NEW e \in conn, NEW g,
         NEW u \in Seq(Msgs), NEW ms \in Seq(Msgs), NEW back \in Seq(Msgs),
         Owed(c, u, back), Sends(c, e, g, ms)
  PROVE  Owed(e, u \o ms, back)
<1>1. CASE Count(back, Choke(FALSE)) > 0
  BY <1>1 DEF Owed
<1>2. CASE ~(Count(back, Choke(FALSE)) > 0)
  <2>1. ASSUME NEW sp \in SubPieceId
        PROVE  Count(e.outstanding, sp) <= Count(u \o ms, Request(sp)) + Count(back, Piece(sp))
    <3>1. Count(u \o ms, Request(sp)) = Count(u, Request(sp)) + Count(ms, Request(sp))
      BY CountConcat
    <3>2. /\ Count(u, Request(sp)) \in Nat /\ Count(ms, Request(sp)) \in Nat
          /\ Count(back, Piece(sp)) \in Nat
      BY CountType
    <3>3. Count(c.outstanding, sp) \in Nat /\ Count(e.outstanding, sp) \in Nat
      BY KeptCountType
    <3>4. Count(c.outstanding, sp) <= Count(u, Request(sp)) + Count(back, Piece(sp))
      BY <1>2 DEF Owed
    <3>5. Count(e.outstanding, sp) <= Count(c.outstanding, sp) + Count(ms, Request(sp))
      BY DEF Sends
    <3> QED BY <3>1, <3>2, <3>3, <3>4, <3>5
  <2> QED BY <2>1 DEF Owed
<1> QED BY <1>1, <1>2

\* The same, seen from the other side.
LEMMA HalfBack ==
  ASSUME NEW c \in conn, NEW d \in conn, NEW e \in conn, NEW hp, NEW g, NEW hq,
         NEW u \in Seq(Msgs), hp \subseteq g,
         HalfBut(d, c, hq, hp, u), SameHeard(c, e)
  PROVE  HalfBut(d, e, hq, g, u)
<1>1. u \in Seq(Honest(hq, g))
  <2> DEFINE S == Honest(hq, hp)
             T == Honest(hq, g)
  <2>1. S \subseteq T
    BY DEF Honest
  <2>2. u \in Seq(S)
    BY DEF HalfBut
  <2> HIDE DEF S, T
  <2>3. u \in Seq(T)
    BY <2>1, <2>2
  <2> QED BY <2>3 DEF T
<1>2. ChokeAgrees(d, e, u) /\ InterestAgrees(d, e, u)
  BY DEF HalfBut, SameHeard, ChokeAgrees, InterestAgrees
<1> QED BY <1>1, <1>2 DEF HalfBut, SameHeard

\* What the peer sends takes nothing away.
LEMMA OwedBack ==
  ASSUME NEW d \in conn, NEW u \in Seq(Msgs), NEW ms \in Seq(Msgs), NEW back \in Seq(Msgs),
         Owed(d, back, u)
  PROVE  Owed(d, back, u \o ms)
<1>1. CASE Count(u, Choke(FALSE)) > 0
  <2> DEFINE m == Choke(FALSE)
  <2>0. Count(u, m) > 0
    BY <1>1
  <2> HIDE DEF m
  <2>1. /\ Count(u \o ms, m) = Count(u, m) + Count(ms, m)
    BY CountConcat
  <2>2. Count(u, m) \in Nat /\ Count(ms, m) \in Nat
    BY CountType
  <2>3. Count(u \o ms, m) > 0
    BY <2>0, <2>1, <2>2
  <2> QED BY <2>3 DEF Owed, m
<1>2. CASE ~(Count(u, Choke(FALSE)) > 0)
  <2>1. ASSUME NEW sp \in SubPieceId
        PROVE  Count(d.outstanding, sp) <= Count(back, Request(sp)) + Count(u \o ms, Piece(sp))
    <3>1. Count(u \o ms, Piece(sp)) = Count(u, Piece(sp)) + Count(ms, Piece(sp))
      BY CountConcat
    <3>2. /\ Count(u, Piece(sp)) \in Nat /\ Count(ms, Piece(sp)) \in Nat
          /\ Count(back, Request(sp)) \in Nat
      BY CountType
    <3>3. Count(d.outstanding, sp) \in Nat
      BY KeptCountType
    <3>4. Count(d.outstanding, sp) <= Count(back, Request(sp)) + Count(u, Piece(sp))
      BY <1>2 DEF Owed
    <3> QED BY <3>1, <3>2, <3>3, <3>4
  <2> QED BY <2>1 DEF Owed
<1> QED BY <1>1, <1>2

\* More goes out while nothing more is requested.
LEMMA OwedMore ==
  ASSUME NEW c \in conn, NEW e \in conn,
         NEW u \in Seq(Msgs), NEW ms \in Seq(Msgs), NEW back \in Seq(Msgs), Owed(c, u, back),
         \A sp \in SubPieceId : Count(e.outstanding, sp) <= Count(c.outstanding, sp)
  PROVE  Owed(e, u, back) /\ Owed(e, u \o ms, back)
<1>1. CASE Count(back, Choke(FALSE)) > 0
  BY <1>1 DEF Owed
<1>2. CASE ~(Count(back, Choke(FALSE)) > 0)
  <2>1. ASSUME NEW sp \in SubPieceId
        PROVE  /\ Count(e.outstanding, sp) <= Count(u \o ms, Request(sp)) + Count(back, Piece(sp))
               /\ Count(e.outstanding, sp) <= Count(u, Request(sp)) + Count(back, Piece(sp))
    <3>1. Count(u \o ms, Request(sp)) = Count(u, Request(sp)) + Count(ms, Request(sp))
      BY CountConcat
    <3>2. /\ Count(u, Request(sp)) \in Nat /\ Count(ms, Request(sp)) \in Nat
          /\ Count(back, Piece(sp)) \in Nat
      BY CountType
    <3>3. Count(c.outstanding, sp) \in Nat /\ Count(e.outstanding, sp) \in Nat
      BY KeptCountType
    <3>4. Count(c.outstanding, sp) <= Count(u, Request(sp)) + Count(back, Piece(sp))
      BY <1>2 DEF Owed
    <3>5. Count(e.outstanding, sp) <= Count(c.outstanding, sp)
      OBVIOUS
    <3> QED BY <3>1, <3>2, <3>3, <3>4, <3>5
  <2> QED BY <2>1 DEF Owed
<1> QED BY <1>1, <1>2

\* p opens the connection.
LEMMA HalfOpen ==
  ASSUME NEW c \in conn, NEW d \in conn, NEW hp \in SUBSET Pieces, NEW hq,
         NEW u \in Seq(Msgs), NEW ms \in Seq(Msgs),
         HalfBut(c, d, hp, hq, u), ~c.handshake_sent, ~d.handshake_received => d.peer_bitfield = {},
         Len(ms) = 2, ms[1] = Handshake, ms[2] = Bitfield(hp)
  PROVE  HalfBut(Opened(c), d, hp, hq, u \o ms)
<1> DEFINE e == Opened(c)
<1>1. e.handshake_sent /\ e.am_choking = c.am_choking /\ e.am_interested = c.am_interested
  BY DEF Opened, conn
<1> HIDE DEF e
<1>2. AllBlank(u) /\ ~d.handshake_received /\ d.peer_bitfield = {}
  BY DEF HalfBut
<1>3. /\ ms[1].type = "handshake" /\ ms[2].type = "bitfield" /\ ms[2].pieces = hp
      /\ ms[1] \in WireMsg /\ ms[2] \in WireMsg
  BY MessageTypes
<1>4. \A i \in 1 .. Len(ms) : ms[i].type \in {"handshake", "bitfield"}
  BY <1>3
<1>5. ChokeAgrees(e, d, u \o ms)
  <2>1. LastOf(ms, {"choke", "unchoke"}) = "none"
    BY <1>4, LastNone
  <2> QED BY <1>1, <2>1, LastTelling DEF HalfBut, ChokeAgrees
<1>6. InterestAgrees(e, d, u \o ms)
  <2>1. LastOf(ms, {"interested", "not_interested"}) = "none"
    BY <1>4, LastNone
  <2> QED BY <1>1, <2>1, LastTelling DEF HalfBut, InterestAgrees
<1>7. HandshakeFirst(u \o ms)
  <2>1. Len(ms) > 0
    OBVIOUS
  <2> QED BY <1>2, <2>1, HandshakeAfterBlanks
<1>8. BitfieldFirst(u \o ms, d.peer_bitfield)
  <2>1. \A i \in 1 .. Len(u) : u[i].type \notin {"have", "bitfield"}
    BY <1>2, MessageTypes DEF AllBlank
  <2> QED BY <1>2, <1>3, <2>1, BitfieldAfterNone
<1>9. u \o ms \in Seq(Honest(hp, hq))
  <2> DEFINE T == Honest(hp, hq)
  <2>1. \A i \in 1 .. Len(ms) : ms[i] \in T
    <3>1. ms[1] \in T /\ ms[2] \in T
      BY <1>3 DEF Honest, Msgs
    <3> HIDE DEF T
    <3> QED BY <3>1
  <2>2. u \in Seq(T)
    BY DEF HalfBut
  <2> HIDE DEF T
  <2>3. ms \in Seq(T)
    BY <2>1, SeqMembers
  <2>4. u \o ms \in Seq(T)
    BY <2>2, <2>3, SeqConcat
  <2> QED BY <2>4 DEF T
<1>10. HalfBut(e, d, hp, hq, u \o ms)
  BY <1>1, <1>2, <1>5, <1>6, <1>7, <1>8, <1>9 DEF HalfBut
<1> QED BY <1>10 DEF e

-----------------------------------------------------------------------------
\* A blank message, for another connection, leaves the queue.
LEMMA LastGap ==
  ASSUME NEW a \in Seq(Msgs), NEW t \in Seq(Msgs)
  PROVE  /\ LastOf(a \o (<<Blank>> \o t), {"choke", "unchoke"}) = LastOf(a \o t, {"choke", "unchoke"})
         /\ LastOf(a \o (<<Blank>> \o t), {"interested", "not_interested"}) =
              LastOf(a \o t, {"interested", "not_interested"})
<1> DEFINE b == <<Blank>>
           bt == b \o t
<1>1. b \in Seq(Msgs) /\ LastOf(b, {"choke", "unchoke"}) = "none"
      /\ LastOf(b, {"interested", "not_interested"}) = "none"
  BY BlankMsgs, LastSingle, MessageTypes
<1> HIDE DEF b
<1>2. bt \in Seq(Msgs)
  BY <1>1, ConcatIs
<1>3. /\ LastOf(bt, {"choke", "unchoke"}) = LastOf(t, {"choke", "unchoke"})
      /\ LastOf(bt, {"interested", "not_interested"}) = LastOf(t, {"interested", "not_interested"})
  BY <1>1, LastTelling
<1> HIDE DEF bt
<1>4. /\ LastOf(a \o bt, {"choke", "unchoke"}) = LastOf(a \o t, {"choke", "unchoke"})
      /\ LastOf(a \o bt, {"interested", "not_interested"}) = LastOf(a \o t, {"interested", "not_interested"})
  BY <1>2, <1>3, LastTelling
<1> QED BY <1>4 DEF b, bt

\* A blank does not count.
LEMMA CountGap ==
  ASSUME NEW a \in Seq(Msgs), NEW t \in Seq(Msgs), NEW m \in WireMsg
  PROVE  Count(a \o (<<Blank>> \o t), m) = Count(a \o t, m)
<1> DEFINE b == <<Blank>>
           bt == b \o t
<1>1. b \in Seq(Msgs) /\ Count(b, m) = 0
  BY BlankMsgs, CountSingle
<1> HIDE DEF b
<1>2. bt \in Seq(Msgs)
  BY <1>1, ConcatIs
<1>3. Count(bt, m) = Count(t, m)
  <2>1. Count(bt, m) = Count(b, m) + Count(t, m)
    BY <1>1, CountConcat
  <2>2. Count(t, m) \in Nat
    BY CountType
  <2> QED BY <1>1, <2>1, <2>2
<1> HIDE DEF bt
<1>4. Count(a \o bt, m) = Count(a \o t, m)
  BY <1>2, <1>3, CountConcat
<1> QED BY <1>4 DEF b, bt

\* A blank under way does not matter for one direction,
LEMMA HalfGap ==
  ASSUME NEW c, NEW d, NEW hp, NEW hq, NEW a \in Seq(Msgs), NEW t \in Seq(Msgs),
         HalfBut(c, d, hp, hq, a \o (<<Blank>> \o t))
  PROVE  HalfBut(c, d, hp, hq, a \o t)
<1> DEFINE u == a \o (<<Blank>> \o t)
           v == a \o t
           bt == <<Blank>> \o t
<1>1. HalfBut(c, d, hp, hq, u)
  OBVIOUS
<1>2. bt \in Seq(Msgs)
  BY BlankMsgs, FrontIs
<1>3. ChokeAgrees(c, d, v) /\ InterestAgrees(c, d, v)
  BY <1>1, LastGap DEF HalfBut, ChokeAgrees, InterestAgrees
<1>4. AllBlank(u) => AllBlank(v)
  <2>1. AllBlank(bt) => AllBlank(t)
    <3> DEFINE b == <<Blank>>
    <3>1. b \in Seq(Msgs)
      BY BlankMsgs
    <3> HIDE DEF b
    <3>2. AllBlank(b \o t) => AllBlank(t)
      BY <3>1, AllBlankConcat
    <3> QED BY <3>2 DEF b
  <2>2. u = a \o bt
    OBVIOUS
  <2> HIDE DEF bt, u
  <2> QED BY <1>2, <2>1, <2>2, AllBlankConcat
<1>5. HandshakeFirst(u) => HandshakeFirst(v)
  BY BlankMsgs, HandshakeGap
<1>6. BitfieldFirst(v, d.peer_bitfield)
  BY <1>1, BlankMsgs, BitfieldGap DEF HalfBut
<1>7. v \in Seq(Honest(hp, hq))
  <2> DEFINE T == Honest(hp, hq)
             b == <<Blank>>
  <2>1. u \in Seq(T) /\ u = a \o bt /\ bt = b \o t
    BY <1>1 DEF HalfBut
  <2>2. b \in Seq(Msgs)
    BY BlankMsgs
  <2> HIDE DEF T, u, bt, b
  <2>3. a \in Seq(T) /\ bt \in Seq(T)
    BY <1>2, <2>1, SeqConcat
  <2>4. t \in Seq(T)
    BY <2>1, <2>2, <2>3, SeqConcat
  <2>5. v \in Seq(T)
    BY <2>3, <2>4, SeqConcat
  <2> QED BY <2>5 DEF T
<1> HIDE DEF u, v
<1>8. HalfBut(c, d, hp, hq, v)
  BY <1>1, <1>3, <1>4, <1>5, <1>6, <1>7 DEF HalfBut
<1> QED BY <1>8 DEF v

\* nor for what is owed.
LEMMA OwedGap ==
  ASSUME NEW c, NEW a \in Seq(Msgs), NEW t \in Seq(Msgs), NEW back
  PROVE  /\ Owed(c, a \o (<<Blank>> \o t), back) => Owed(c, a \o t, back)
         /\ Owed(c, back, a \o (<<Blank>> \o t)) => Owed(c, back, a \o t)
<1> DEFINE u == a \o (<<Blank>> \o t)
           v == a \o t
<1>1. /\ Count(u, Choke(FALSE)) = Count(v, Choke(FALSE))
      /\ \A sp \in SubPieceId : /\ Count(u, Request(sp)) = Count(v, Request(sp))
                                /\ Count(u, Piece(sp)) = Count(v, Piece(sp))
  <2>1. \A m \in WireMsg : Count(u, m) = Count(v, m)
    BY CountGap
  <2> HIDE DEF u, v
  <2> QED BY <2>1, MessageTypes
<1> HIDE DEF u, v
<1>2. /\ Owed(c, u, back) => Owed(c, v, back)
      /\ Owed(c, back, u) => Owed(c, back, v)
  BY <1>1 DEF Owed
<1> QED BY <1>2 DEF u, v

-----------------------------------------------------------------------------
(* Receiving in one direction of a connection.                             *)

\* d becomes e as the message m comes, a request apart from what is sent back.
Takes(m, d, e) ==
  /\ m.type = "handshake" => e = Greeted(d)
  /\ m.type # "handshake" => d.handshake_received
  /\ m.type = "choke" => e = Choked(d)
  /\ m.type = "unchoke" => e = Unchoked(d)
  /\ m.type = "interested" => e = Interested(d, TRUE)
  /\ m.type = "not_interested" => e = Interested(d, FALSE)
  /\ m.type = "have" => e = Announced(d, d.peer_bitfield \cup {m.index})
  /\ m.type = "bitfield" => e = Announced(d, m.pieces)
  /\ m.type = "piece" /\ Contains(d.outstanding, m.sub) => e = Delivered(d, m.sub)
  /\ m.type = "piece" /\ ~Contains(d.outstanding, m.sub) => e = d
  /\ m.type \in {"request", "cancel"} => e = d

\* Handling a message, other than a request, changes no possession and keeps the type.
LEMMA TakesIs ==
  ASSUME NEW m \in WireMsg, NEW d \in conn, NEW e, Takes(m, d, e)
  PROVE  /\ e.handshake_received /\ e.handshake_sent = d.handshake_sent
         /\ e.am_choking = d.am_choking /\ e.am_interested = d.am_interested
         /\ m.type = "choke" => e.peer_choking
         /\ m.type = "unchoke" => ~e.peer_choking
         /\ m.type \notin {"choke", "unchoke"} => e.peer_choking = d.peer_choking
         /\ m.type = "interested" => e.peer_interested
         /\ m.type = "not_interested" => ~e.peer_interested
         /\ m.type \notin {"interested", "not_interested"} => e.peer_interested = d.peer_interested
         /\ m.type = "have" => e.peer_bitfield = d.peer_bitfield \cup {m.index}
         /\ m.type = "bitfield" => e.peer_bitfield = m.pieces
         /\ m.type \notin {"have", "bitfield"} => e.peer_bitfield = d.peer_bitfield
         /\ m.type = "choke" => e.outstanding = <<>>
         /\ m.type \notin {"choke", "piece"} => e.outstanding = d.outstanding
         /\ m.type = "piece" /\ ~Contains(d.outstanding, m.sub) => e.outstanding = d.outstanding
         /\ m.type = "piece" /\ Contains(d.outstanding, m.sub) =>
              e.outstanding = RemoveFirst(d.outstanding, m.sub)
<1>1. CASE m.type = "handshake"
  <2>1. e = Greeted(d)
    BY <1>1 DEF Takes
  <2> QED BY <1>1, <2>1 DEF Greeted, conn
<1>2. CASE m.type = "choke"
  <2>1. e = Choked(d) /\ d.handshake_received
    BY <1>2 DEF Takes
  <2> QED BY <1>2, <2>1 DEF Choked, conn
<1>3. CASE m.type = "unchoke"
  <2>1. e = Unchoked(d) /\ d.handshake_received
    BY <1>3 DEF Takes
  <2> QED BY <1>3, <2>1 DEF Unchoked, conn
<1>4. CASE m.type = "interested"
  <2>1. e = Interested(d, TRUE) /\ d.handshake_received
    BY <1>4 DEF Takes
  <2> QED BY <1>4, <2>1 DEF Interested, conn
<1>5. CASE m.type = "not_interested"
  <2>1. e = Interested(d, FALSE) /\ d.handshake_received
    BY <1>5 DEF Takes
  <2> QED BY <1>5, <2>1 DEF Interested, conn
<1>6. CASE m.type = "have"
  <2>1. e = Announced(d, d.peer_bitfield \cup {m.index}) /\ d.handshake_received
    BY <1>6 DEF Takes
  <2> QED BY <1>6, <2>1 DEF Announced, conn
<1>7. CASE m.type = "bitfield"
  <2>1. e = Announced(d, m.pieces) /\ d.handshake_received
    BY <1>7 DEF Takes
  <2> QED BY <1>7, <2>1 DEF Announced, conn
<1>8. CASE m.type = "piece"
  <2>1. d.handshake_received /\ m.sub \in SubPieceId
    BY <1>8, MessageIs DEF Takes
  <2>2. CASE Contains(d.outstanding, m.sub)
    <3>1. e = Delivered(d, m.sub)
      BY <1>8, <2>2 DEF Takes
    <3>2. /\ SameSeen(d, e) /\ e.am_choking = d.am_choking /\ e.am_interested = d.am_interested
          /\ e.outstanding = RemoveFirst(d.outstanding, m.sub)
      BY <2>1, <2>2, <3>1, DeliveredType
    <3> QED BY <1>8, <2>1, <2>2, <3>2 DEF SameSeen
  <2>3. CASE ~Contains(d.outstanding, m.sub)
    <3>1. e = d
      BY <1>8, <2>3 DEF Takes
    <3> QED BY <1>8, <2>1, <2>3, <3>1
  <2> QED BY <2>2, <2>3
<1>9. CASE m.type \in {"request", "cancel"}
  <2>1. e = d /\ d.handshake_received
    BY <1>9 DEF Takes
  <2> QED BY <1>9, <2>1
<1> QED BY <1>1, <1>2, <1>3, <1>4, <1>5, <1>6, <1>7, <1>8, <1>9, MessageIs

\* Handling the oldest message under way keeps this direction in order.
LEMMA HalfTake ==
  ASSUME NEW c \in conn, NEW d \in conn, NEW e \in conn, NEW hp, NEW hq,
         NEW m \in WireMsg, NEW t \in Seq(Msgs),
         HalfBut(c, d, hp, hq, <<m>> \o t), Takes(m, d, e)
  PROVE  HalfBut(c, e, hp, hq, t)
<1> DEFINE h == <<m>>
           u == h \o t
<1>0. m \in Msgs /\ m # Blank
  BY BlankMsgs
<1>1. h \in Seq(Msgs) /\ Len(h) = 1 /\ h[1] = m
  BY <1>0
<1>2. /\ LastOf(h, {"choke", "unchoke"}) = IF m.type \in {"choke", "unchoke"} THEN m.type ELSE "none"
      /\ LastOf(h, {"interested", "not_interested"}) =
           IF m.type \in {"interested", "not_interested"} THEN m.type ELSE "none"
  BY LastSingle
<1>3. HalfBut(c, d, hp, hq, u)
  OBVIOUS
<1>4. BitfieldFirst(t, d.peer_bitfield) /\ (m.type = "bitfield" => d.peer_bitfield = {})
      /\ (m.type \in {"have", "bitfield"} => \A b : BitfieldFirst(t, b))
  BY <1>0, <1>3, BitfieldTaken DEF HalfBut
<1> HIDE DEF h
<1>5. ChokeAgrees(c, e, t)
  <2>1. ChokeAgrees(c, d, u)
    BY <1>3 DEF HalfBut
  <2>2. LastOf(u, {"choke", "unchoke"}) =
              IF LastOf(t, {"choke", "unchoke"}) = "none" THEN LastOf(h, {"choke", "unchoke"})
              ELSE LastOf(t, {"choke", "unchoke"})
    BY <1>1, LastTelling
  <2>3. /\ m.type = "choke" => e.peer_choking
        /\ m.type = "unchoke" => ~e.peer_choking
        /\ m.type \notin {"choke", "unchoke"} => e.peer_choking = d.peer_choking
    BY TakesIs
  <2>4. c.am_choking \in BOOLEAN /\ e.peer_choking \in BOOLEAN /\ d.peer_choking \in BOOLEAN
    BY DEF conn
  <2> HIDE DEF u
  <2> QED BY <1>2, <2>1, <2>2, <2>3, <2>4 DEF ChokeAgrees
<1>6. InterestAgrees(c, e, t)
  <2>1. InterestAgrees(c, d, u)
    BY <1>3 DEF HalfBut
  <2>2. LastOf(u, {"interested", "not_interested"}) =
              IF LastOf(t, {"interested", "not_interested"}) = "none"
              THEN LastOf(h, {"interested", "not_interested"})
              ELSE LastOf(t, {"interested", "not_interested"})
    BY <1>1, LastTelling
  <2>3. /\ m.type = "interested" => e.peer_interested
        /\ m.type = "not_interested" => ~e.peer_interested
        /\ m.type \notin {"interested", "not_interested"} => e.peer_interested = d.peer_interested
    BY TakesIs
  <2>4. c.am_interested \in BOOLEAN /\ e.peer_interested \in BOOLEAN /\ d.peer_interested \in BOOLEAN
    BY DEF conn
  <2> HIDE DEF u
  <2> QED BY <1>2, <2>1, <2>2, <2>3, <2>4 DEF InterestAgrees
<1>7. c.handshake_sent
  <2>1. ~AllBlank(u)
    <3>1. ~AllBlank(h)
      BY <1>0, <1>1 DEF AllBlank
    <3> QED BY <1>1, <3>1, AllBlankConcat
  <2> QED BY <1>3, <2>1 DEF HalfBut
<1>8. m \in Honest(hp, hq) /\ t \in Seq(Honest(hp, hq))
  <2> DEFINE T == Honest(hp, hq)
  <2>1. u \in Seq(T)
    BY <1>3 DEF HalfBut
  <2> HIDE DEF T
  <2>2. h \in Seq(T) /\ t \in Seq(T)
    BY <1>1, <2>1, SeqConcat
  <2>3. \A i \in 1 .. Len(h) : h[i] \in T
    BY <2>2
  <2>4. 1 \in 1 .. Len(h)
    BY <1>1
  <2>5. m \in T
    BY <1>1, <2>3, <2>4
  <2> QED BY <2>2, <2>5 DEF T
<1>9. e.peer_bitfield \subseteq hp
  BY <1>3, <1>8, TakesIs DEF HalfBut, Honest
<1>10. BitfieldFirst(t, e.peer_bitfield)
  BY <1>4, TakesIs
<1> QED BY <1>5, <1>6, <1>7, <1>8, <1>9, <1>10, TakesIs DEF HalfBut

\* What the receiver holds for its own direction is as before.
LEMMA HalfTaken ==
  ASSUME NEW c \in conn, NEW d \in conn, NEW e \in conn, NEW hp, NEW hq, NEW m \in WireMsg, NEW u,
         HalfBut(d, c, hq, hp, u), Takes(m, d, e)
  PROVE  HalfBut(e, c, hq, hp, u)
<1>1. /\ e.handshake_sent = d.handshake_sent
      /\ e.am_choking = d.am_choking /\ e.am_interested = d.am_interested
  BY TakesIs
<1> QED BY <1>1 DEF HalfBut, ChokeAgrees, InterestAgrees

\* What is counted, with the oldest message taken away.
LEMMA CountFront ==
  ASSUME NEW m \in Msgs, NEW t \in Seq(Msgs), NEW x
  PROVE  /\ Count(<<m>> \o t, x) = (IF m = x THEN 1 ELSE 0) + Count(t, x)
         /\ Count(t, x) \in Nat
<1> DEFINE h == <<m>>
<1>1. h \in Seq(Msgs) /\ Count(h, x) = IF m = x THEN 1 ELSE 0
  BY CountSingle
<1> HIDE DEF h
<1>2. Count(h \o t, x) = Count(h, x) + Count(t, x) /\ Count(t, x) \in Nat
  BY <1>1, CountConcat, CountType
<1> QED BY <1>1, <1>2 DEF h

\* What the sender of m is owed, unless m is a request.
LEMMA OwedTaken ==
  ASSUME NEW c \in conn, NEW m \in WireMsg, NEW t \in Seq(Msgs), NEW back \in Seq(Msgs),
         Owed(c, <<m>> \o t, back), m.type # "request"
  PROVE  Owed(c, t, back)
<1>1. \A sp \in SubPieceId : Count(<<m>> \o t, Request(sp)) = Count(t, Request(sp))
  <2>1. ASSUME NEW sp \in SubPieceId
        PROVE  Count(<<m>> \o t, Request(sp)) = Count(t, Request(sp))
    <3>1. m # Request(sp) /\ m \in Msgs
      BY MessageTypes, BlankMsgs
    <3> DEFINE x == Request(sp)
    <3> HIDE DEF x
    <3>2. m # x => Count(<<m>> \o t, x) = Count(t, x)
      BY <3>1, CountFront
    <3> QED BY <3>1, <3>2 DEF x
  <2> QED BY <2>1
<1> QED BY <1>1 DEF Owed

\* What the receiver of m is owed.
LEMMA OwedReceived ==
  ASSUME NEW d \in conn, NEW e \in conn, NEW m \in WireMsg, NEW t \in Seq(Msgs),
         NEW back \in Seq(Msgs), Owed(d, back, <<m>> \o t), Takes(m, d, e)
  PROVE  Owed(e, back, t)
<1> DEFINE u == <<m>> \o t
<1>0. m \in Msgs
  BY BlankMsgs
<1> DEFINE z == Choke(FALSE)
<1>1. /\ Count(u, z) = (IF m = z THEN 1 ELSE 0) + Count(t, z)
      /\ Count(t, z) \in Nat
  <2> HIDE DEF z
  <2> QED BY <1>0, CountFront
<1>11. ASSUME NEW sp \in SubPieceId
       PROVE  /\ Count(u, Piece(sp)) = (IF m = Piece(sp) THEN 1 ELSE 0) + Count(t, Piece(sp))
              /\ Count(t, Piece(sp)) \in Nat
  <2> DEFINE x == Piece(sp)
  <2> HIDE DEF x
  <2>1. /\ Count(u, x) = (IF m = x THEN 1 ELSE 0) + Count(t, x)
        /\ Count(t, x) \in Nat
    BY <1>0, CountFront
  <2> QED BY <2>1 DEF x
<1>12. Owed(d, back, u)
  OBVIOUS
<1>2. \/ Count(u, z) > 0
      \/ \A sp \in SubPieceId :
           Count(d.outstanding, sp) <= Count(back, Request(sp)) + Count(u, Piece(sp))
  BY <1>12 DEF Owed
<1>21. ASSUME Count(t, z) > 0 PROVE Owed(e, back, t)
  BY <1>21 DEF Owed
<1> HIDE DEF z
<1> HIDE DEF u
<1>3. \A sp \in SubPieceId :
        /\ Count(d.outstanding, sp) \in Nat /\ Count(e.outstanding, sp) \in Nat
        /\ Count(back, Request(sp)) \in Nat
  BY KeptCountType, CountType
<1>31. ASSUME \A sp \in SubPieceId :
                Count(e.outstanding, sp) <= Count(back, Request(sp)) + Count(t, Piece(sp))
       PROVE  Owed(e, back, t)
  BY <1>31 DEF Owed
<1>4. CASE m.type = "choke"
  <2>1. \A sp \in SubPieceId : Count(e.outstanding, sp) = 0
    BY <1>4, TakesIs, CountEmpty
  <2>2. ASSUME NEW sp \in SubPieceId
        PROVE  Count(e.outstanding, sp) <= Count(back, Request(sp)) + Count(t, Piece(sp))
    BY <1>11, <1>3, <2>1
  <2> QED BY <1>31, <2>2
<1>5. CASE m.type # "choke"
  <2>1. m # z
    BY <1>5, MessageTypes DEF z
  <2>2. CASE Count(t, z) > 0
    BY <1>21, <2>2
  <2>3. CASE ~(Count(t, z) > 0)
    <3>1. ~(Count(u, z) > 0)
      BY <1>1, <2>1, <2>3
    <3>2. ASSUME NEW sp \in SubPieceId
          PROVE  Count(e.outstanding, sp) <= Count(back, Request(sp)) + Count(t, Piece(sp))
      <4>1. Count(d.outstanding, sp) <= Count(back, Request(sp)) + Count(u, Piece(sp))
        BY <1>2, <3>1
      <4>2. CASE m = Piece(sp)
        <5>1. m.type = "piece" /\ m.sub = sp
          BY <4>2, MessageTypes
        <5>2. Count(u, Piece(sp)) = 1 + Count(t, Piece(sp)) /\ Count(t, Piece(sp)) \in Nat
          BY <1>11, <4>2
        <5>3. d.outstanding \in Seq(SubPieceId)
          BY DEF conn
        <5>4. CASE Contains(d.outstanding, sp)
          <6>1. e.outstanding = RemoveFirst(d.outstanding, sp)
            BY <5>1, <5>4, TakesIs
          <6>2. Count(e.outstanding, sp) = Count(d.outstanding, sp) - 1
            BY <5>3, <5>4, <6>1, CountRemoveFirst
          <6> QED BY <1>3, <4>1, <5>2, <6>2
        <5>5. CASE ~Contains(d.outstanding, sp)
          <6>1. e.outstanding = d.outstanding
            BY <5>1, <5>5, TakesIs
          <6>2. ~(Count(d.outstanding, sp) > 0)
            BY <5>3, <5>5, CountContains
          <6>3. Count(e.outstanding, sp) = 0
            BY <1>3, <6>1, <6>2
          <6> QED BY <1>3, <5>2, <6>3
        <5> QED BY <5>4, <5>5
      <4>3. CASE m # Piece(sp)
        <5>1. Count(u, Piece(sp)) = Count(t, Piece(sp))
          BY <1>11, <4>3
        <5>2. Count(e.outstanding, sp) <= Count(d.outstanding, sp)
          <6>1. CASE m.type = "piece" /\ Contains(d.outstanding, m.sub)
            <7>1. d.outstanding \in Seq(SubPieceId)
              BY DEF conn
            <7>2. e.outstanding = RemoveFirst(d.outstanding, m.sub)
              BY <6>1, TakesIs
            <7>3. Count(e.outstanding, sp) = Count(d.outstanding, sp) - (IF m.sub = sp THEN 1 ELSE 0)
              BY <6>1, <7>1, <7>2, CountRemoveFirst
            <7> QED BY <1>3, <7>3
          <6>2. CASE ~(m.type = "piece" /\ Contains(d.outstanding, m.sub))
            <7>1. e.outstanding = d.outstanding
              BY <1>5, <6>2, TakesIs
            <7> QED BY <1>3, <7>1
          <6> QED BY <6>1, <6>2
        <5>3. Count(t, Piece(sp)) \in Nat
          BY <1>11
        <5> QED BY <1>3, <4>1, <5>1, <5>2, <5>3
      <4> QED BY <4>2, <4>3
    <3> QED BY <1>31, <3>2
  <2> QED BY <2>2, <2>3
<1> QED BY <1>4, <1>5

\* A request is answered at once,
LEMMA OwedServed ==
  ASSUME NEW c \in conn, NEW x \in SubPieceId, NEW t \in Seq(Msgs), NEW back \in Seq(Msgs),
         Owed(c, <<Request(x)>> \o t, back)
  PROVE  Owed(c, t, back \o <<Piece(x)>>)
<1> DEFINE m == Request(x)
           a == Piece(x)
           u == <<m>> \o t
           h == <<a>>
           v == back \o h
           z == Choke(FALSE)
<1>0. m \in Msgs /\ a \in Msgs
  BY MessageTypes, BlankMsgs
<1>1. ASSUME NEW sp \in SubPieceId
      PROVE  /\ Count(u, Request(sp)) = (IF x = sp THEN 1 ELSE 0) + Count(t, Request(sp))
             /\ Count(t, Request(sp)) \in Nat
  <2> DEFINE y == Request(sp)
  <2>1. m = y <=> x = sp
    BY DEF Request
  <2> HIDE DEF m, y
  <2>2. /\ Count(u, y) = (IF m = y THEN 1 ELSE 0) + Count(t, y)
        /\ Count(t, y) \in Nat
    BY <1>0, CountFront
  <2>3. /\ Count(u, y) = (IF x = sp THEN 1 ELSE 0) + Count(t, y)
        /\ Count(t, y) \in Nat
    BY <2>1, <2>2
  <2> QED BY <2>3 DEF y
<1>2. h \in Seq(Msgs)
  BY <1>0
<1>3. ASSUME NEW y
      PROVE  /\ Count(v, y) = Count(back, y) + (IF a = y THEN 1 ELSE 0)
             /\ Count(back, y) \in Nat
  <2> HIDE DEF a
  <2>1. Count(h, y) = IF a = y THEN 1 ELSE 0
    BY <1>0, CountSingle
  <2> HIDE DEF h
  <2>2. Count(v, y) = Count(back, y) + Count(h, y) /\ Count(back, y) \in Nat
    BY <1>2, CountConcat, CountType
  <2> QED BY <2>1, <2>2
<1>30. ASSUME NEW sp \in SubPieceId
       PROVE  /\ Count(v, Piece(sp)) = Count(back, Piece(sp)) + (IF x = sp THEN 1 ELSE 0)
              /\ Count(back, Piece(sp)) \in Nat
  <2> DEFINE y == Piece(sp)
  <2>1. a = y <=> x = sp
    BY DEF Piece
  <2> HIDE DEF a, y, v
  <2>2. /\ Count(v, y) = Count(back, y) + (IF a = y THEN 1 ELSE 0)
        /\ Count(back, y) \in Nat
    BY <1>3
  <2>3. /\ Count(v, y) = Count(back, y) + (IF x = sp THEN 1 ELSE 0)
        /\ Count(back, y) \in Nat
    BY <2>1, <2>2
  <2> QED BY <2>3 DEF y
<1>4. Owed(c, u, back)
  OBVIOUS
<1>5. \/ Count(back, z) > 0
      \/ \A sp \in SubPieceId :
           Count(c.outstanding, sp) <= Count(u, Request(sp)) + Count(back, Piece(sp))
  BY <1>4 DEF Owed
<1> SUFFICES Owed(c, t, v)
  OBVIOUS
<1> HIDE DEF u, v, h
<1>6. ASSUME Count(v, z) > 0 PROVE Owed(c, t, v)
  BY <1>6 DEF Owed
<1>7. ASSUME \A sp \in SubPieceId :
               Count(c.outstanding, sp) <= Count(t, Request(sp)) + Count(v, Piece(sp))
      PROVE  Owed(c, t, v)
  BY <1>7 DEF Owed
<1>8. CASE Count(back, z) > 0
  <2> HIDE DEF z, a
  <2>1. Count(v, z) > 0
    BY <1>3, <1>8
  <2> QED BY <1>6, <2>1
<1>9. CASE ~(Count(back, z) > 0)
  <2>1. ASSUME NEW sp \in SubPieceId
        PROVE  Count(c.outstanding, sp) <= Count(t, Request(sp)) + Count(v, Piece(sp))
    <3>1. Count(c.outstanding, sp) <= Count(u, Request(sp)) + Count(back, Piece(sp))
      BY <1>5, <1>9
    <3>2. Count(c.outstanding, sp) \in Nat
      BY KeptCountType
    <3> QED BY <1>1, <1>30, <3>1, <3>2
  <2> QED BY <1>7, <2>1
<1> QED BY <1>8, <1>9

\* or ignored, and then a choke is on its way or has arrived.
LEMMA OwedDropped ==
  ASSUME NEW c \in conn, NEW d \in conn, NEW t \in Seq(Msgs), NEW back \in Seq(Msgs),
         ConnGood(c), d.am_choking, ChokeAgrees(d, c, back)
  PROVE  Owed(c, t, back)
<1>1. CASE c.peer_choking
  <2>1. \A sp \in SubPieceId : Count(c.outstanding, sp) = 0
    BY <1>1, CountEmpty DEF ConnGood
  <2>2. ASSUME NEW sp \in SubPieceId
        PROVE  Count(c.outstanding, sp) <= Count(t, Request(sp)) + Count(back, Piece(sp))
    <3>1. Count(t, Request(sp)) \in Nat /\ Count(back, Piece(sp)) \in Nat
      BY CountType
    <3> QED BY <2>1, <3>1
  <2> QED BY <2>2 DEF Owed
<1>2. CASE ~c.peer_choking
  <2> DEFINE T == {"choke", "unchoke"}
  <2>1. LastOf(back, T) = "choke"
    BY <1>2 DEF ChokeAgrees, conn
  <2>2. PICK k \in 1 .. Len(back) : back[k].type \in T
    <3>1. ~(\A k \in 1 .. Len(back) : back[k].type \notin T)
      BY <2>1, LastNone
    <3> QED BY <3>1
  <2>3. PICK i \in 1 .. Len(back) : back[i].type \in T /\ \A j \in 1 .. Len(back) : j > i => back[j].type \notin T
    <3> HIDE DEF T
    <3> QED BY <2>2, LastExists
  <2>4. back[i].type = "choke"
    <3> HIDE DEF T
    <3> QED BY <2>1, <2>3, LastIs
  <2>5. back[i] = Choke(FALSE)
    <3>1. back[i] \in WireMsg
      BY <2>4, MessageTypes DEF Msgs
    <3> QED BY <2>4, <3>1, MessageIs
  <2>6. Contains(back, Choke(FALSE))
    BY <2>5 DEF Contains
  <2>7. Count(back, Choke(FALSE)) > 0
    BY <2>6, CountContains
  <2> QED BY <2>7 DEF Owed
<1> QED BY <1>1, <1>2

-----------------------------------------------------------------------------
(* Both directions of a connection together.                               *)

\* Both directions of a connection.
Both(c, d, hp, hq, u, back) ==
  /\ HalfBut(c, d, hp, hq, u) /\ Owed(c, u, back)
  /\ HalfBut(d, c, hq, hp, back) /\ Owed(d, back, u)

\* Both directions, seen from the other side.
LEMMA BothTurned ==
  ASSUME NEW c, NEW d, NEW hp, NEW hq, NEW u, NEW back, Both(c, d, hp, hq, u, back)
  PROVE  Both(d, c, hq, hp, back, u)
  BY DEF Both

\* Sending keeps both directions in order.
LEMMA BothSend ==
  ASSUME NEW c \in conn, NEW d \in conn, NEW e \in conn, NEW hp, NEW g, NEW hq, hp \subseteq g,
         NEW u \in Seq(Msgs), NEW back \in Seq(Msgs), NEW ms \in Seq(Msgs),
         Both(c, d, hp, hq, u, back), Sends(c, e, g, ms), AsksOf(c)
  PROVE  Both(e, d, g, hq, u \o ms, back)
<1>1. c.peer_bitfield \subseteq hq
  BY DEF Both, HalfBut
<1>2. HalfBut(c, d, hp, hq, u) /\ Owed(c, u, back) /\ HalfBut(d, c, hq, hp, back) /\ Owed(d, back, u)
  BY DEF Both
<1>3. HalfBut(e, d, g, hq, u \o ms)
  BY <1>1, <1>2, HalfSend
<1>4. Owed(e, u \o ms, back)
  BY <1>2, OwedSend
<1>5. HalfBut(d, e, hq, g, back)
  <2>1. SameHeard(c, e)
    BY DEF Sends, SameSeen, SameHeard
  <2> QED BY <1>2, <2>1, HalfBack
<1>6. Owed(d, back, u \o ms)
  BY <1>2, OwedBack
<1> QED BY <1>3, <1>4, <1>5, <1>6 DEF Both

\* So does forgetting or planning sub-pieces.
LEMMA BothKeep ==
  ASSUME NEW c \in conn, NEW d \in conn, NEW e \in conn, NEW hp, NEW hq,
         NEW u \in Seq(Msgs), NEW back \in Seq(Msgs),
         Both(c, d, hp, hq, u, back), KeptChange(c, e)
  PROVE  Both(e, d, hp, hq, u, back)
<1>1. HalfBut(c, d, hp, hq, u) /\ Owed(c, u, back) /\ HalfBut(d, c, hq, hp, back) /\ Owed(d, back, u)
  BY DEF Both
<1>2. HalfBut(e, d, hp, hq, u)
  BY <1>1 DEF KeptChange, SameSeen, HalfBut, ChokeAgrees, InterestAgrees
<1>3. HalfBut(d, e, hq, hp, back)
  <2>1. SameHeard(c, e)
    BY DEF KeptChange, SameSeen, SameHeard
  <2> QED BY <1>1, <2>1, HalfBack
<1>4. Owed(e, u, back)
  <2>1. \A sp \in SubPieceId : Count(e.outstanding, sp) <= Count(c.outstanding, sp)
    BY DEF KeptChange
  <2> QED BY <1>1, <2>1, OwedMore
<1> QED BY <1>1, <1>2, <1>3, <1>4 DEF Both

\* So does opening the connection.
LEMMA BothOpen ==
  ASSUME NEW c \in conn, NEW d \in conn, NEW hp \in SUBSET Pieces, NEW hq,
         NEW u \in Seq(Msgs), NEW back \in Seq(Msgs), NEW ms \in Seq(Msgs),
         Both(c, d, hp, hq, u, back), ~c.handshake_sent, ConnGood(d),
         Len(ms) = 2, ms[1] = Handshake, ms[2] = Bitfield(hp)
  PROVE  Both(Opened(c), d, hp, hq, u \o ms, back)
<1> DEFINE e == Opened(c)
<1>1. HalfBut(c, d, hp, hq, u) /\ Owed(c, u, back) /\ HalfBut(d, c, hq, hp, back) /\ Owed(d, back, u)
  BY DEF Both
<1>2. e \in conn /\ SameHeard(c, e) /\ e.outstanding = c.outstanding
  BY DEF Opened, conn, SameHeard
<1>3. HalfBut(e, d, hp, hq, u \o ms)
  <2>1. ~d.handshake_received => d.peer_bitfield = {}
    BY DEF ConnGood
  <2> QED BY <1>1, <2>1, HalfOpen
<1> HIDE DEF e
<1>4. HalfBut(d, e, hq, hp, back)
  BY <1>1, <1>2, HalfBack
<1>5. Owed(e, u \o ms, back)
  <2>1. \A sp \in SubPieceId : Count(e.outstanding, sp) <= Count(c.outstanding, sp)
    BY <1>2, KeptCountType
  <2> QED BY <1>1, <1>2, <2>1, OwedMore
<1>6. Owed(d, back, u \o ms)
  BY <1>1, OwedBack
<1>7. Both(e, d, hp, hq, u \o ms, back)
  BY <1>3, <1>4, <1>5, <1>6 DEF Both
<1> QED BY <1>7 DEF e

\* So does a blank that leaves.
LEMMA BothGap ==
  ASSUME NEW c, NEW d, NEW hp, NEW hq, NEW a \in Seq(Msgs), NEW t \in Seq(Msgs), NEW back,
         Both(c, d, hp, hq, a \o (<<Blank>> \o t), back)
  PROVE  Both(c, d, hp, hq, a \o t, back)
<1> DEFINE u == a \o (<<Blank>> \o t)
<1>1. HalfBut(c, d, hp, hq, u) /\ Owed(c, u, back) /\ HalfBut(d, c, hq, hp, back) /\ Owed(d, back, u)
  BY DEF Both
<1>2. HalfBut(c, d, hp, hq, a \o t)
  BY <1>1, HalfGap
<1>3. Owed(c, a \o t, back) /\ Owed(d, back, a \o t)
  BY <1>1, OwedGap
<1> QED BY <1>1, <1>2, <1>3 DEF Both

\* So does handling a message, other than a request.
LEMMA BothTake ==
  ASSUME NEW c \in conn, NEW d \in conn, NEW e \in conn, NEW hp, NEW hq,
         NEW m \in WireMsg, NEW t \in Seq(Msgs), NEW back \in Seq(Msgs),
         Both(c, d, hp, hq, <<m>> \o t, back), Takes(m, d, e), m.type # "request"
  PROVE  Both(c, e, hp, hq, t, back)
<1> DEFINE u == <<m>> \o t
<1>1. HalfBut(c, d, hp, hq, u) /\ Owed(c, u, back) /\ HalfBut(d, c, hq, hp, back) /\ Owed(d, back, u)
  BY DEF Both
<1>2. HalfBut(c, e, hp, hq, t)
  BY <1>1, HalfTake
<1>3. HalfBut(e, c, hq, hp, back)
  BY <1>1, HalfTaken
<1>4. Owed(c, t, back)
  BY <1>1, OwedTaken
<1>5. Owed(e, back, t)
  BY <1>1, OwedReceived
<1> QED BY <1>2, <1>3, <1>4, <1>5 DEF Both

\* A request comes and is answered,
LEMMA BothServe ==
  ASSUME NEW c \in conn, NEW d \in conn, NEW hp, NEW hq,
         NEW x \in SubPieceId, NEW t \in Seq(Msgs), NEW back \in Seq(Msgs),
         Both(c, d, hp, hq, <<Request(x)>> \o t, back), ConnGood(d), AsksOf(d),
         d.handshake_received, x[1] \in hq
  PROVE  Both(c, d, hp, hq, t, back \o <<Piece(x)>>)
<1> DEFINE m == Request(x)
           u == <<m>> \o t
           a == Piece(x)
           h == <<a>>
<1>1. HalfBut(c, d, hp, hq, u) /\ Owed(c, u, back) /\ HalfBut(d, c, hq, hp, back) /\ Owed(d, back, u)
  BY DEF Both
<1>2. m \in WireMsg /\ m.type = "request" /\ a \in WireMsg /\ a.type = "piece" /\ a.sub = x
  BY MessageTypes
<1>3. Takes(m, d, d)
  BY <1>2 DEF Takes
<1>4. Owed(c, t, back \o h)
  BY <1>1, OwedServed
<1> HIDE DEF m, a
<1>5. HalfBut(c, d, hp, hq, t) /\ HalfBut(d, c, hq, hp, back) /\ Owed(d, back, t)
  BY <1>1, <1>2, <1>3, HalfTake, OwedReceived
<1>6. Sends(d, d, hq, h)
  <2>1. d.handshake_sent /\ Sendable(d, hq, a)
    BY <1>2 DEF Sendable, ConnGood
  <2>2. LastOf(h, {"choke", "unchoke"}) = "none" /\ LastOf(h, {"interested", "not_interested"}) = "none"
    BY <1>2, LastSingle
  <2>3. TellsChoke(d, d, h) /\ TellsInterest(d, d, h) /\ SameSeen(d, d)
    BY <2>2 DEF TellsChoke, TellsInterest, SameSeen
  <2> QED BY <1>2, <2>1, <2>3, SendsOne
<1>7. h \in Seq(Msgs)
  BY <1>2, BlankMsgs
<1>8. d.peer_bitfield \subseteq hp
  BY <1>1 DEF HalfBut
<1> HIDE DEF h
<1>9. HalfBut(d, c, hq, hp, back \o h)
  BY <1>5, <1>6, <1>7, <1>8, HalfSend
<1>10. Owed(d, back \o h, t)
  <2>1. \A sp \in SubPieceId : Count(d.outstanding, sp) <= Count(d.outstanding, sp)
    BY KeptCountType
  <2> QED BY <1>5, <1>7, <2>1, OwedMore
<1>11. Both(c, d, hp, hq, t, back \o h)
  BY <1>4, <1>5, <1>9, <1>10 DEF Both
<1> QED BY <1>11 DEF h, a

\* or ignored.
LEMMA BothDrop ==
  ASSUME NEW c \in conn, NEW d \in conn, NEW hp, NEW hq,
         NEW x \in SubPieceId, NEW t \in Seq(Msgs), NEW back \in Seq(Msgs),
         Both(c, d, hp, hq, <<Request(x)>> \o t, back), ConnGood(c), d.am_choking,
         d.handshake_received
  PROVE  Both(c, d, hp, hq, t, back)
<1> DEFINE m == Request(x)
           u == <<m>> \o t
<1>1. HalfBut(c, d, hp, hq, u) /\ HalfBut(d, c, hq, hp, back) /\ Owed(d, back, u)
  BY DEF Both
<1>2. m \in WireMsg /\ m.type = "request"
  BY MessageTypes
<1>3. Takes(m, d, d)
  BY <1>2 DEF Takes
<1> HIDE DEF m
<1>4. HalfBut(c, d, hp, hq, t) /\ Owed(d, back, t)
  BY <1>1, <1>2, <1>3, HalfTake, OwedReceived
<1>5. Owed(c, t, back)
  BY <1>1, OwedDropped DEF HalfBut
<1> QED BY <1>1, <1>4, <1>5 DEF Both

-----------------------------------------------------------------------------
(* All pairs of clients.                                                   *)

\* Wires and links of the clients.
Wires == [Clients -> WireState]
Links == [Clients -> [Clients -> Seq(WireMsg)]]

\* Messages are messages or blanks.
LEMMA WireMsgSeq ==
  ASSUME NEW s \in Seq(WireMsg)
  PROVE  s \in Seq(Msgs)
<1>1. \A i \in 1 .. Len(s) : s[i] \in Msgs
  BY BlankMsgs
<1> QED BY <1>1, SeqMembers

\* What is under way is messages and blanks.
LEMMA WayType ==
  ASSUME NEW W \in Wires, NEW L \in Links, NEW p \in Clients, NEW q \in Clients
  PROVE  /\ L[p][q] \in Seq(Msgs) /\ For(q, W[p].out_wire) \in Seq(Msgs)
         /\ Way(W, L, p, q) \in Seq(Msgs)
         /\ W[p] \in WireState /\ W[p].conns[q] \in conn
         /\ W[p].have \in SUBSET Pieces /\ W[p].out_wire \in Seq(Entry)
<1>1. W[p] \in WireState /\ L[p][q] \in Seq(WireMsg)
  BY DEF Wires, Links
<1>2. L[p][q] \in Seq(Msgs)
  BY <1>1, WireMsgSeq
<1>3. W[p].conns[q] \in conn /\ W[p].have \in SUBSET Pieces /\ W[p].out_wire \in Seq(Entry)
  BY <1>1, ConnType
<1> DEFINE f == For(q, W[p].out_wire)
<1>4. f \in Seq(Msgs)
  BY <1>3, ForType
<1> HIDE DEF f
<1>5. L[p][q] \o f \in Seq(Msgs)
  BY <1>2, <1>4, ConcatIs
<1> QED BY <1>1, <1>2, <1>3, <1>4, <1>5 DEF Way, f

\* Two clients are in order in both directions.
LEMMA PairIs ==
  ASSUME NEW W, NEW L, Pairs(W, L), NEW p \in Clients, NEW q \in Clients, p # q
  PROVE  Both(W[p].conns[q], W[q].conns[p], W[p].have, W[q].have, Way(W, L, p, q), Way(W, L, q, p))
<1>1. Half(W, L, p, q) /\ Half(W, L, q, p)
  BY DEF Pairs
<1> QED BY <1>1 DEF Half, Both

\* p's wire becomes v and what is under way M: what concerns p stays in order.
Moves(W, L, M, p, v) ==
  /\ \A a, b \in Clients : a # p /\ b # p => M[a][b] = L[a][b]
  /\ NoSelf([W EXCEPT ![p] = v], M, p)
  /\ \A q \in Clients \ {p} :
       Both(v.conns[q], W[q].conns[p], v.have, W[q].have,
            M[p][q] \o For(q, v.out_wire), M[q][p] \o For(p, W[q].out_wire))

\* One client moves and stays in order with the others; so all pairs are in order.
LEMMA PairsChange ==
  ASSUME NEW W \in Wires, NEW L, NEW M, Pairs(W, L), NEW p \in Clients, NEW v,
         Moves(W, L, M, p, v)
  PROVE  Pairs([W EXCEPT ![p] = v], M)
<1> DEFINE V == [W EXCEPT ![p] = v]
<1>1. V[p] = v /\ \A q \in Clients \ {p} : V[q] = W[q]
  BY DEF Wires
<1>2. NoSelf(V, M, p)
  BY DEF Moves
<1> HIDE DEF V
<1>3. ASSUME NEW a \in Clients, NEW b \in Clients, a # b
      PROVE  Half(V, M, a, b)
  <2>1. CASE a = p
    <3>1. Both(v.conns[b], W[b].conns[p], v.have, W[b].have,
               M[p][b] \o For(b, v.out_wire), M[b][p] \o For(p, W[b].out_wire))
      BY <1>3, <2>1 DEF Moves
    <3>2. Both(V[a].conns[b], V[b].conns[a], V[a].have, V[b].have, Way(V, M, a, b), Way(V, M, b, a))
      BY <1>1, <1>3, <2>1, <3>1 DEF Way
    <3> QED BY <3>2 DEF Both, Half
  <2>2. CASE b = p
    <3>1. Both(v.conns[a], W[a].conns[p], v.have, W[a].have,
               M[p][a] \o For(a, v.out_wire), M[a][p] \o For(p, W[a].out_wire))
      BY <1>3, <2>2 DEF Moves
    <3>2. Both(V[b].conns[a], V[a].conns[b], V[b].have, V[a].have, Way(V, M, b, a), Way(V, M, a, b))
      BY <1>1, <1>3, <2>2, <3>1 DEF Way
    <3> QED BY <3>2 DEF Both, Half
  <2>3. CASE a # p /\ b # p
    <3>1. Half(W, L, a, b)
      BY <1>3 DEF Pairs
    <3>2. V[a] = W[a] /\ V[b] = W[b] /\ M[a][b] = L[a][b] /\ M[b][a] = L[b][a]
      BY <1>1, <2>3 DEF Moves
    <3> QED BY <3>1, <3>2 DEF Half, Way
  <2> QED BY <2>1, <2>2, <2>3
<1>4. ASSUME NEW a \in Clients
      PROVE  NoSelf(V, M, a)
  <2>1. CASE a = p
    BY <1>2, <2>1
  <2>2. CASE a # p
    <3>1. NoSelf(W, L, a) /\ V[a] = W[a] /\ M[a][a] = L[a][a]
      BY <1>1, <2>2 DEF Pairs, Moves
    <3> QED BY <3>1 DEF NoSelf
  <2> QED BY <2>1, <2>2
<1> QED BY <1>3, <1>4 DEF Pairs, V

\* What is for q of a longer queue.
LEMMA ForMore ==
  ASSUME NEW s \in Seq(Entry), NEW t, NEW more \in Seq(Entry), t = s \o more, NEW q \in Clients
  PROVE  /\ For(q, t) = For(q, s) \o For(q, more)
         /\ For(q, s) \in Seq(Msgs) /\ For(q, more) \in Seq(Msgs)
  BY ForConcat, ForType

\* p sends.
LEMMA PairsWireStep ==
  ASSUME NEW W \in Wires, NEW L \in Links, Pairs(W, L), NEW p \in Clients, NEW v \in WireState,
         WireStep(W[p], v), Asks(W[p])
  PROVE  Pairs([W EXCEPT ![p] = v], L)
<1> DEFINE V == [W EXCEPT ![p] = v]
           w == W[p]
<1>1. w \in WireState
  BY DEF Wires
<1>2. V[p] = v
  BY DEF Wires
<1>3. PICK more \in Seq(Entry) :
        /\ v.out_wire = w.out_wire \o more
        /\ \A q \in Clients : Sends(w.conns[q], v.conns[q], v.have, For(q, more))
  BY DEF WireStep
<1>4. ASSUME NEW q \in Clients
      PROVE  /\ For(q, v.out_wire) = For(q, w.out_wire) \o For(q, more)
             /\ For(q, w.out_wire) \in Seq(Msgs) /\ For(q, more) \in Seq(Msgs)
  <2>1. w.out_wire \in Seq(Entry)
    BY <1>1, ConnType
  <2> HIDE DEF w
  <2> QED BY <1>3, <2>1, ForMore
<1>5. NoSelf(V, L, p)
  <2>1. NoSelf(W, L, p)
    BY DEF Pairs
  <2>2. Sends(w.conns[p], v.conns[p], v.have, For(p, more))
    BY <1>3
  <2>3. ~w.conns[p].handshake_sent
    BY <2>1 DEF NoSelf
  <2>4. ~v.conns[p].handshake_sent /\ AllBlank(For(p, more))
    BY <2>2, <2>3 DEF Sends, SameSeen, AllBlank
  <2>5. AllBlank(For(p, v.out_wire))
    <3> DEFINE f == For(p, w.out_wire)
               g == For(p, more)
    <3>1. f \in Seq(Msgs) /\ g \in Seq(Msgs) /\ AllBlank(f) /\ AllBlank(g)
          /\ For(p, v.out_wire) = f \o g
      BY <1>4, <2>1, <2>4 DEF NoSelf
    <3> HIDE DEF f, g
    <3> QED BY <3>1, AllBlankConcat
  <2> HIDE DEF V
  <2> QED BY <1>2, <2>1, <2>4, <2>5 DEF NoSelf
<1>6. ASSUME NEW q \in Clients \ {p}
      PROVE  Both(v.conns[q], W[q].conns[p], v.have, W[q].have,
                  L[p][q] \o For(q, v.out_wire), L[q][p] \o For(p, W[q].out_wire))
  <2> DEFINE c == w.conns[q]
             d == W[q].conns[p]
             e == v.conns[q]
             l == L[p][q]
             f == For(q, w.out_wire)
             g == For(q, more)
             back == Way(W, L, q, p)
  <2>1. Both(c, d, w.have, W[q].have, l \o f, back)
    BY PairIs DEF Way
  <2>2. l \in Seq(Msgs) /\ f \in Seq(Msgs) /\ g \in Seq(Msgs) /\ back \in Seq(Msgs)
        /\ c \in conn /\ d \in conn
    BY <1>4, WayType
  <2>3. e \in conn
    BY ConnType
  <2>4. Sends(c, e, v.have, g) /\ w.have \subseteq v.have
    BY <1>3 DEF WireStep
  <2>5. AsksOf(c)
    BY DEF Asks
  <2> HIDE DEF c, d, e, l, f, g, back
  <2>6. l \o f \in Seq(Msgs)
    BY <2>2, ConcatIs
  <2>7. Both(e, d, v.have, W[q].have, (l \o f) \o g, back)
    BY <2>1, <2>2, <2>3, <2>4, <2>5, <2>6, BothSend
  <2>8. (l \o f) \o g = l \o (f \o g)
    BY <2>2
  <2> QED BY <1>4, <2>7, <2>8 DEF c, d, e, l, f, g, back, Way
<1> HIDE DEF V
<1>10. Moves(W, L, L, p, v)
  BY <1>5, <1>6 DEF Moves, V
<1> QED BY <1>10, PairsChange

\* p rearranges what it keeps for a peer.
LEMMA PairsKeep ==
  ASSUME NEW W \in Wires, NEW L \in Links, Pairs(W, L), NEW p \in Clients, NEW v \in WireState,
         NEW peer \in Clients, Keeps(W[p], v, peer)
  PROVE  Pairs([W EXCEPT ![p] = v], L)
<1> DEFINE V == [W EXCEPT ![p] = v]
           w == W[p]
<1>1. w \in WireState
  BY DEF Wires
<1>2. V[p] = v
  BY DEF Wires
<1>3. PICK d \in conn : v = WithConn(w, peer, d) /\ KeptChange(w.conns[peer], d)
  BY DEF Keeps
<1>4. /\ v.have = w.have /\ v.out_wire = w.out_wire /\ v.conns[peer] = d
      /\ \A q \in Clients \ {peer} : v.conns[q] = w.conns[q]
  BY <1>1, <1>3, WithConnIs
<1>5. NoSelf(V, L, p)
  <2>1. NoSelf(W, L, p)
    BY DEF Pairs
  <2>2. v.conns[p].handshake_sent = w.conns[p].handshake_sent
    BY <1>3, <1>4 DEF KeptChange, SameSeen
  <2> HIDE DEF V
  <2> QED BY <1>2, <1>4, <2>1, <2>2 DEF NoSelf
<1>6. ASSUME NEW q \in Clients \ {p}
      PROVE  Both(v.conns[q], W[q].conns[p], v.have, W[q].have,
                  L[p][q] \o For(q, v.out_wire), L[q][p] \o For(p, W[q].out_wire))
  <2>1. Both(w.conns[q], W[q].conns[p], w.have, W[q].have, Way(W, L, p, q), Way(W, L, q, p))
    BY PairIs
  <2>2. CASE q = peer
    <3>1. Both(d, W[q].conns[p], w.have, W[q].have, Way(W, L, p, q), Way(W, L, q, p))
      BY <1>3, <2>1, <2>2, WayType, BothKeep
    <3> QED BY <1>4, <2>2, <3>1 DEF Way
  <2>3. CASE q # peer
    BY <1>4, <2>1, <2>3 DEF Way
  <2> QED BY <2>2, <2>3
<1> HIDE DEF V
<1>10. Moves(W, L, L, p, v)
  BY <1>5, <1>6 DEF Moves, V
<1> QED BY <1>10, PairsChange

\* p opens its connection to peer.
LEMMA PairsOpen ==
  ASSUME NEW W \in Wires, NEW L \in Links, Pairs(W, L), NEW p \in Clients, NEW v \in WireState,
         NEW peer \in Clients, peer # p, Opens(W[p], v, peer), ~W[p].conns[peer].handshake_sent,
         ConnGood(W[peer].conns[p]), Asks(W[p])
  PROVE  Pairs([W EXCEPT ![p] = v], L)
<1> DEFINE V == [W EXCEPT ![p] = v]
           w == W[p]
           more == Opening(w, peer)
<1>1. w \in WireState
  BY DEF Wires
<1>2. V[p] = v
  BY DEF Wires
<1>3. more \in Seq(Entry) /\ Len(more) = 2
  BY <1>1, OpeningType
<1>4. /\ v.have = w.have /\ v.conns[peer] = Opened(w.conns[peer])
      /\ \A q \in Clients \ {peer} : v.conns[q] = w.conns[q]
      /\ v.out_wire = w.out_wire \o more
  BY DEF Opens
<1>5. /\ \A i \in 1 .. Len(more) : more[i].dst = peer
      /\ more[1].msg = Handshake /\ more[2].msg = Bitfield(w.have)
  BY DEF Opening
<1> HIDE DEF more
<1>6. ASSUME NEW q \in Clients
      PROVE  /\ For(q, v.out_wire) = For(q, w.out_wire) \o For(q, more)
             /\ For(q, w.out_wire) \in Seq(Msgs) /\ For(q, more) \in Seq(Msgs)
             /\ Len(For(q, more)) = 2
             /\ q # peer => \A i \in 1 .. Len(For(q, more)) : For(q, more)[i] = Blank
             /\ q = peer => For(q, more)[1] = Handshake /\ For(q, more)[2] = Bitfield(w.have)
  <2>1. /\ For(q, more) \in Seq(Msgs) /\ Len(For(q, more)) = 2
        /\ \A i \in 1 .. Len(more) : For(q, more)[i] = IF more[i].dst = q THEN more[i].msg ELSE Blank
    BY <1>3, ForType
  <2>2. For(q, v.out_wire) = For(q, w.out_wire) \o For(q, more) /\ For(q, w.out_wire) \in Seq(Msgs)
    <3>1. w.out_wire \in Seq(Entry)
      BY <1>1, ConnType
    <3>2. v.out_wire = w.out_wire \o more
      BY <1>4
    <3>3. more \in Seq(Entry)
      BY <1>3
    <3> DEFINE s == w.out_wire
    <3> HIDE DEF s
    <3>4. s \in Seq(Entry)
      BY <3>1 DEF s
    <3>5. For(q, s) \in Seq(Msgs)
      BY <3>4, ForType
    <3>6. For(q, s \o more) = For(q, s) \o For(q, more)
      BY <3>3, <3>4, ForConcat
    <3> QED BY <3>2, <3>5, <3>6 DEF s
  <2>3. q # peer => \A i \in 1 .. Len(For(q, more)) : For(q, more)[i] = Blank
    BY <1>3, <1>5, <2>1
  <2>4. 1 \in 1 .. Len(more) /\ 2 \in 1 .. Len(more)
    BY <1>3
  <2> QED BY <1>5, <2>1, <2>2, <2>3, <2>4
<1>7. NoSelf(V, L, p)
  <2>1. NoSelf(W, L, p)
    BY DEF Pairs
  <2>2. AllBlank(For(p, v.out_wire))
    <3> DEFINE f == For(p, w.out_wire)
               g == For(p, more)
    <3>1. f \in Seq(Msgs) /\ g \in Seq(Msgs) /\ AllBlank(f) /\ AllBlank(g)
          /\ For(p, v.out_wire) = f \o g
      BY <1>6, <2>1 DEF NoSelf, AllBlank
    <3> HIDE DEF f, g
    <3> QED BY <3>1, AllBlankConcat
  <2> HIDE DEF V
  <2> QED BY <1>2, <1>4, <2>1, <2>2 DEF NoSelf
<1>8. ASSUME NEW q \in Clients \ {p}
      PROVE  Both(v.conns[q], W[q].conns[p], v.have, W[q].have,
                  L[p][q] \o For(q, v.out_wire), L[q][p] \o For(p, W[q].out_wire))
  <2> DEFINE c == w.conns[q]
             d == W[q].conns[p]
             e == v.conns[q]
             h == w.have
             l == L[p][q]
             f == For(q, w.out_wire)
             g == For(q, more)
             back == Way(W, L, q, p)
  <2>1. Both(c, d, h, W[q].have, l \o f, back)
    BY PairIs DEF Way
  <2>2. l \in Seq(Msgs) /\ f \in Seq(Msgs) /\ g \in Seq(Msgs) /\ back \in Seq(Msgs)
        /\ c \in conn /\ d \in conn /\ h \in SUBSET Pieces
    BY <1>6, WayType
  <2>3. l \o f \in Seq(Msgs)
    <3> HIDE DEF l, f
    <3> QED BY <2>2, ConcatIs
  <2>4. (l \o f) \o g = l \o (f \o g)
    <3> HIDE DEF l, f, g
    <3> QED BY <2>2
  <2>5. Both(e, d, h, W[q].have, (l \o f) \o g, back)
    <3>1. CASE q = peer
      <4>1. e = Opened(c) /\ ~c.handshake_sent /\ ConnGood(d)
        BY <1>4, <3>1
      <4>2. Len(g) = 2 /\ g[1] = Handshake /\ g[2] = Bitfield(h)
        BY <1>6, <3>1
      <4> HIDE DEF c, d, e, l, f, g, h, back
      <4> QED BY <2>1, <2>2, <2>3, <4>1, <4>2, BothOpen
    <3>2. CASE q # peer
      <4>1. e = c
        BY <1>4, <3>2
      <4>2. \A i \in 1 .. Len(g) : g[i] = Blank
        BY <1>6, <3>2
      <4>3. Sends(c, c, h, g)
        <5> HIDE DEF c, g, h
        <5> QED BY <2>2, <4>2, SendsNothing DEF SameSeen
      <4>4. h \subseteq h
        OBVIOUS
      <4>5. AsksOf(c)
        BY DEF Asks
      <4> HIDE DEF c, d, e, l, f, g, h, back
      <4> QED BY <2>1, <2>2, <2>3, <4>1, <4>2, <4>3, <4>4, <4>5, BothSend
    <3> QED BY <3>1, <3>2
  <2> HIDE DEF c, d, e, l, f, g, back
  <2> QED BY <1>4, <1>6, <2>4, <2>5 DEF c, d, e, l, f, g, back, Way
<1> HIDE DEF V
<1>10. Moves(W, L, L, p, v)
  BY <1>7, <1>8 DEF Moves, V
<1> QED BY <1>10, PairsChange

\* The head of p's queue goes out.
Sent(W, L, M, p) ==
  /\ \A a, b \in Clients : a # p => M[a][b] = L[a][b]
  /\ \A q \in Clients :
       M[p][q] = L[p][q] \o (IF Head(W[p].out_wire).dst = q THEN <<Head(W[p].out_wire).msg>> ELSE <<>>)

\* A message that leaves the wire is still under way.
LEMMA PairsEmit ==
  ASSUME NEW W \in Wires, NEW L \in Links, Pairs(W, L), NEW p \in Clients, NEW v \in WireState,
         NEW M, Sent(W, L, M, p), W[p].out_wire # <<>>,
         v.conns = W[p].conns, v.have = W[p].have, v.out_wire = Tail(W[p].out_wire)
  PROVE  Pairs([W EXCEPT ![p] = v], M)
<1> DEFINE V == [W EXCEPT ![p] = v]
           w == W[p]
           o == w.out_wire
           x == Head(o)
           t == Tail(o)
           h == <<x>>
<1>1. V[p] = v
  BY DEF Wires
<1>2. o \in Seq(Entry)
  BY WayType
<1>3. x \in Entry /\ t \in Seq(Entry) /\ o = h \o t
  <2>1. o # <<>>
    OBVIOUS
  <2> HIDE DEF o
  <2> QED BY <1>2, <2>1, HeadAndTail
<1>30. v.out_wire = t
  OBVIOUS
<1>31. \A q \in Clients : M[p][q] = L[p][q] \o (IF x.dst = q THEN <<x.msg>> ELSE <<>>)
  BY DEF Sent
<1> HIDE DEF o, x, t
<1>4. h \in Seq(Entry) /\ x.dst \in Clients /\ x.msg \in WireMsg
  BY <1>3 DEF Entry
<1>5. ASSUME NEW q \in Clients
      PROVE  /\ For(q, o) = (IF x.dst = q THEN <<x.msg>> ELSE <<Blank>>) \o For(q, t)
             /\ For(q, t) \in Seq(Msgs) /\ For(q, o) \in Seq(Msgs)
  <2>1. For(q, h) = IF x.dst = q THEN <<x.msg>> ELSE <<Blank>>
    BY <1>3, ForSingle
  <2> HIDE DEF h
  <2>2. For(q, h \o t) = For(q, h) \o For(q, t)
    BY <1>3, <1>4, ForConcat
  <2>3. For(q, t) \in Seq(Msgs) /\ For(q, o) \in Seq(Msgs)
    BY <1>2, <1>3, ForType
  <2> QED BY <1>3, <2>1, <2>2, <2>3
<1>6. NoSelf(V, M, p)
  <2>1. L[p][p] = <<>> /\ ~w.conns[p].handshake_sent /\ AllBlank(For(p, o))
    BY DEF Pairs, NoSelf, o
  <2> DEFINE f == For(p, t)
  <2>2. f \in Seq(Msgs)
    BY <1>5
  <2>3. x.dst # p
    <3> SUFFICES ASSUME x.dst = p PROVE FALSE
      OBVIOUS
    <3> DEFINE a == x.msg
    <3>1. For(p, o) = <<a>> \o f /\ a \in Msgs /\ a # Blank
      BY <1>4, <1>5, BlankMsgs
    <3> HIDE DEF f, a
    <3>2. /\ Len(<<a>> \o f) = 1 + Len(f) /\ Len(f) \in Nat
          /\ (<<a>> \o f)[1] = a
      BY <2>2, <3>1, FrontIs
    <3> QED BY <2>1, <3>1, <3>2 DEF AllBlank
  <2>4. M[p][p] = <<>>
    <3>1. M[p][p] = L[p][p] \o <<>>
      BY <1>31, <2>3
    <3>2. <<>> \o <<>> = <<>>
      OBVIOUS
    <3> QED BY <2>1, <3>1, <3>2
  <2>5. AllBlank(f)
    <3> DEFINE b == <<Blank>>
    <3>1. For(p, o) = b \o f /\ b \in Seq(Msgs)
      BY <1>5, <2>3, BlankMsgs
    <3> HIDE DEF b, f
    <3> QED BY <2>1, <2>2, <3>1, AllBlankConcat
  <2> HIDE DEF V, w
  <2> QED BY <1>1, <1>30, <2>1, <2>4, <2>5 DEF NoSelf, w
<1>7. ASSUME NEW q \in Clients \ {p}
      PROVE  Both(v.conns[q], W[q].conns[p], v.have, W[q].have,
                  M[p][q] \o For(q, v.out_wire), M[q][p] \o For(p, W[q].out_wire))
  <2> DEFINE c == w.conns[q]
             d == W[q].conns[p]
             l == L[p][q]
             f == For(q, t)
             back == Way(W, L, q, p)
  <2>1. Both(c, d, w.have, W[q].have, l \o For(q, o), back)
    BY PairIs DEF Way, o
  <2>2. l \in Seq(Msgs) /\ f \in Seq(Msgs) /\ back \in Seq(Msgs)
    BY <1>5, WayType
  <2>3. M[q][p] = L[q][p]
    BY DEF Sent
  <2> HIDE DEF l, f
  <2>4. Both(c, d, w.have, W[q].have, M[p][q] \o f, back)
    <3>1. CASE x.dst = q
      <4> DEFINE a == <<x.msg>>
      <4>1. For(q, o) = a \o f /\ M[p][q] = l \o a
        BY <1>31, <1>5, <3>1 DEF f, l
      <4>2. a \in Seq(Msgs)
        BY <1>4, BlankMsgs
      <4> HIDE DEF a
      <4>3. l \o (a \o f) = (l \o a) \o f
        BY <2>2, <4>2
      <4> QED BY <2>1, <4>1, <4>3
    <3>2. CASE x.dst # q
      <4>1. For(q, o) = <<Blank>> \o f /\ M[p][q] = l \o <<>>
        BY <1>31, <1>5, <3>2 DEF f, l
      <4>2. l \o <<>> = l
        BY <2>2
      <4>3. Both(c, d, w.have, W[q].have, l \o (<<Blank>> \o f), back)
        BY <2>1, <4>1
      <4> HIDE DEF c, d, back
      <4>4. Both(c, d, w.have, W[q].have, l \o f, back)
        BY <2>2, <4>3, BothGap
      <4> QED BY <4>1, <4>2, <4>4
    <3> QED BY <3>1, <3>2
  <2> QED BY <1>30, <2>3, <2>4 DEF f, Way
<1>8. \A a, b \in Clients : a # p /\ b # p => M[a][b] = L[a][b]
  BY DEF Sent
<1> HIDE DEF V
<1>9. Moves(W, L, M, p, v)
  BY <1>6, <1>7, <1>8 DEF Moves, V
<1> QED BY <1>9, PairsChange

-----------------------------------------------------------------------------
\* The message that arrives from src.
Popped(L, src, p) == [L EXCEPT ![src][p] = Tail(@)]

\* The oldest message is taken from the link.
LEMMA PoppedIs ==
  ASSUME NEW L \in Links, NEW src \in Clients, NEW p \in Clients, L[src][p] # <<>>
  PROVE  /\ Popped(L, src, p) \in Links
         /\ Popped(L, src, p)[src][p] = Tail(L[src][p])
         /\ Head(L[src][p]) \in WireMsg /\ Tail(L[src][p]) \in Seq(Msgs)
         /\ L[src][p] = <<Head(L[src][p])>> \o Tail(L[src][p])
         /\ \A a, b \in Clients : a # src \/ b # p => Popped(L, src, p)[a][b] = L[a][b]
<1> DEFINE s == L[src][p]
           t == Tail(s)
<1>1. s \in Seq(WireMsg) /\ s # <<>>
  BY DEF Links
<1> HIDE DEF s
<1>2. Head(s) \in WireMsg /\ t \in Seq(WireMsg) /\ s = <<Head(s)>> \o t
  BY <1>1, HeadAndTail
<1>3. t \in Seq(Msgs)
  BY <1>2, WireMsgSeq
<1> HIDE DEF t
<1>4. Popped(L, src, p) = [L EXCEPT ![src][p] = t]
  BY DEF Popped, s, t
<1>5. [L EXCEPT ![src][p] = t] \in Links
  BY <1>2 DEF Links
<1>6. /\ [L EXCEPT ![src][p] = t][src][p] = t
      /\ \A a, b \in Clients : a # src \/ b # p => [L EXCEPT ![src][p] = t][a][b] = L[a][b]
  BY DEF Links
<1> QED BY <1>2, <1>3, <1>4, <1>5, <1>6 DEF s, t

\* What is known of the message that arrives at p from src.
Arrives(W, L, src, p, m, t) ==
  /\ src # p
  /\ m.type # "handshake" => W[p].conns[src].handshake_received
  /\ m \in Honest(W[src].have, W[p].have)
  /\ m.type = "bitfield" => W[p].conns[src].peer_bitfield = {}
  /\ Way(W, L, src, p) = <<m>> \o t /\ t \in Seq(Msgs) /\ m \in WireMsg
\* What is left under way behind it.
Rest(W, L, src, p) == Tail(L[src][p]) \o For(p, W[src].out_wire)

\* What is known of an arriving message, from the order of the pair.
LEMMA ArrivalIs ==
  ASSUME NEW W \in Wires, NEW L \in Links, Pairs(W, L), NEW src \in Clients, NEW p \in Clients,
         L[src][p] # <<>>
  PROVE  Arrives(W, L, src, p, Head(L[src][p]), Rest(W, L, src, p))
<1> DEFINE m == Head(L[src][p])
           d == W[p].conns[src]
           b == Tail(L[src][p])
           f == For(p, W[src].out_wire)
           t == b \o f
           u == Way(W, L, src, p)
           h == <<m>>
<1>1. src # p
  BY DEF Pairs, NoSelf
<1>2. m \in WireMsg /\ b \in Seq(Msgs) /\ L[src][p] = h \o b
  BY PoppedIs
<1>3. f \in Seq(Msgs)
  BY WayType
<1>4. HalfBut(W[src].conns[p], d, W[src].have, W[p].have, u)
  BY <1>1, PairIs DEF Both
<1>5. u = L[src][p] \o f
  BY DEF Way
<1> HIDE DEF m, b, f, u, d
<1>6. h \in Seq(Msgs) /\ m \in Msgs /\ m # Blank
  BY <1>2, BlankMsgs
<1>7. t \in Seq(Msgs)
  BY <1>2, <1>3, ConcatIs
<1>8. u = h \o t
  <2> HIDE DEF h
  <2>1. (h \o b) \o f = h \o (b \o f)
    BY <1>2, <1>3, <1>6
  <2> QED BY <1>2, <1>5, <2>1
<1> HIDE DEF t
<1>9. Len(u) = 1 + Len(t) /\ Len(t) \in Nat /\ u[1] = m
  BY <1>6, <1>7, <1>8, FrontIs
<1>10. m \in Honest(W[src].have, W[p].have)
  <2> DEFINE T == Honest(W[src].have, W[p].have)
  <2>1. u \in Seq(T)
    BY <1>4 DEF HalfBut
  <2> HIDE DEF T
  <2>2. \A i \in 1 .. Len(u) : u[i] \in T
    BY <2>1
  <2>3. 1 \in 1 .. Len(u)
    BY <1>9
  <2>4. m \in T
    BY <1>9, <2>2, <2>3
  <2> QED BY <2>4 DEF T
<1>11. m.type # "handshake" => d.handshake_received
  <2> SUFFICES ASSUME m.type # "handshake", ~d.handshake_received PROVE FALSE
    OBVIOUS
  <2>1. ~AllBlank(u)
    BY <1>6, <1>9 DEF AllBlank
  <2>2. HandshakeFirst(u)
    BY <1>4, <2>1 DEF HalfBut
  <2>3. m = Handshake
    BY <1>6, <1>7, <1>8, <2>2, HandshakeTaken
  <2> QED BY <2>3, MessageTypes
<1>12. m.type = "bitfield" => d.peer_bitfield = {}
  <2>1. BitfieldFirst(u, d.peer_bitfield)
    BY <1>4 DEF HalfBut
  <2> QED BY <1>6, <1>7, <1>8, <2>1, BitfieldTaken
<1> QED BY <1>1, <1>2, <1>7, <1>8, <1>10, <1>11, <1>12 DEF m, b, f, u, d, t, Arrives, Rest

\* A message handled, other than a request, keeps the pairs in order.
LEMMA PairsTake ==
  ASSUME NEW W \in Wires, NEW L \in Links, Pairs(W, L), NEW src \in Clients, NEW p \in Clients,
         L[src][p] # <<>>, NEW e \in conn, Takes(Head(L[src][p]), W[p].conns[src], e),
         Head(L[src][p]).type # "request"
  PROVE  Pairs([W EXCEPT ![p] = WithConn(W[p], src, e)], Popped(L, src, p))
<1> DEFINE m == Head(L[src][p])
           M == Popped(L, src, p)
           w == W[p]
           v == WithConn(w, src, e)
           V == [W EXCEPT ![p] = v]
<1>1. V[p] = v /\ w \in WireState
  BY DEF Wires
<1>2. /\ v.have = w.have /\ v.out_wire = w.out_wire /\ v.conns[src] = e
      /\ \A q \in Clients \ {src} : v.conns[q] = w.conns[q]
  BY <1>1, WithConnIs
<1>0. Arrives(W, L, src, p, m, Rest(W, L, src, p))
  BY ArrivalIs
<1>3. src # p
  BY <1>0 DEF Arrives
<1>4. \A a, b \in Clients : a # src \/ b # p => M[a][b] = L[a][b]
  BY PoppedIs
<1> HIDE DEF v, M
<1>5. NoSelf(V, M, p)
  <2>1. NoSelf(W, L, p) /\ M[p][p] = L[p][p]
    BY <1>3, <1>4 DEF Pairs
  <2> HIDE DEF V
  <2> QED BY <1>1, <1>2, <1>3, <2>1 DEF NoSelf
<1>6. ASSUME NEW q \in Clients \ {p}
      PROVE  Both(v.conns[q], W[q].conns[p], v.have, W[q].have,
                  M[p][q] \o For(q, v.out_wire), M[q][p] \o For(p, W[q].out_wire))
  <2>1. Both(w.conns[q], W[q].conns[p], w.have, W[q].have, Way(W, L, p, q), Way(W, L, q, p))
    BY PairIs
  <2>2. M[p][q] = L[p][q]
    BY <1>3, <1>4
  <2>3. CASE q = src
    <3> DEFINE c == W[src].conns[p]
               d == w.conns[src]
               t == Tail(L[src][p]) \o For(p, W[src].out_wire)
               back == Way(W, L, p, src)
    <3>1. Both(c, d, W[src].have, w.have, <<m>> \o t, back)
      <4>1. Both(c, d, W[src].have, w.have, Way(W, L, src, p), back)
        BY <2>1, <2>3, BothTurned
      <4>2. Way(W, L, src, p) = <<m>> \o t
        BY <1>0 DEF Arrives, Rest
      <4> QED BY <4>1, <4>2
    <3>2. c \in conn /\ d \in conn /\ t \in Seq(Msgs) /\ back \in Seq(Msgs) /\ m \in WireMsg
      BY <1>0, PoppedIs, WayType DEF Arrives, Rest
    <3>3. Takes(m, d, e) /\ m.type # "request"
      OBVIOUS
    <3>4. M[src][p] = Tail(L[src][p])
      BY PoppedIs DEF M
    <3> HIDE DEF m, c, d, t, back
    <3>5. Both(c, e, W[src].have, w.have, t, back)
      BY <3>1, <3>2, <3>3, BothTake
    <3>6. Both(e, c, w.have, W[src].have, back, t)
      BY <3>5, BothTurned
    <3> QED BY <1>2, <2>2, <2>3, <3>4, <3>6 DEF c, t, back, Way
  <2>4. CASE q # src
    <3>1. M[q][p] = L[q][p]
      BY <1>4, <2>4
    <3> QED BY <1>2, <2>1, <2>2, <2>4, <3>1 DEF Way
  <2> QED BY <2>3, <2>4
<1>7. \A a, b \in Clients : a # p /\ b # p => M[a][b] = L[a][b]
  BY <1>4
<1> HIDE DEF V
<1>9. Moves(W, L, M, p, v)
  BY <1>5, <1>6, <1>7 DEF Moves, V
<1>8. Pairs(V, M)
  BY <1>9, PairsChange DEF V
<1> QED BY <1>8 DEF V, v, M

\* A request of src is answered,
LEMMA PairsServe ==
  ASSUME NEW W \in Wires, NEW L \in Links, Pairs(W, L), NEW src \in Clients, NEW p \in Clients,
         L[src][p] # <<>>, NEW x \in SubPieceId, Head(L[src][p]) = Request(x),
         NEW v \in WireState, v.conns = W[p].conns, v.have = W[p].have,
         v.out_wire = Append(W[p].out_wire, [dst |-> src, msg |-> Piece(x)]),
         ConnGood(W[p].conns[src]), Asks(W[p])
  PROVE  Pairs([W EXCEPT ![p] = v], Popped(L, src, p))
<1> DEFINE m == Head(L[src][p])
           M == Popped(L, src, p)
           w == W[p]
           o == w.out_wire
           s == [dst |-> src, msg |-> Piece(x)]
           h == <<s>>
           V == [W EXCEPT ![p] = v]
<1>1. V[p] = v /\ w \in WireState
  BY DEF Wires
<1>0. Arrives(W, L, src, p, m, Rest(W, L, src, p))
  BY ArrivalIs
<1>20. src # p
  BY <1>0 DEF Arrives
<1>21. m \in Honest(W[src].have, W[p].have)
  BY <1>0 DEF Arrives
<1>2. src # p /\ m \in Honest(W[src].have, W[p].have)
  BY <1>20, <1>21
<1>3. \A a, b \in Clients : a # src \/ b # p => M[a][b] = L[a][b]
  BY PoppedIs
<1>4. m.type = "request" /\ m.sub = x /\ Piece(x) \in WireMsg
  BY MessageTypes
<1>5. o \in Seq(Entry) /\ s \in Entry
  BY <1>4, WayType DEF Entry
<1>50. v.out_wire = Append(o, s) /\ s.dst = src /\ s.msg = Piece(x)
  OBVIOUS
<1> HIDE DEF M, o, s
<1>6. v.out_wire = o \o h /\ h \in Seq(Entry)
  <2>1. Append(o, s) = o \o <<s>>
    BY <1>5
  <2>2. h \in Seq(Entry)
    BY <1>5
  <2> QED BY <1>50, <2>1, <2>2
<1>7. ASSUME NEW q \in Clients
      PROVE  /\ For(q, v.out_wire) = For(q, o) \o (IF q = src THEN <<Piece(x)>> ELSE <<Blank>>)
             /\ For(q, o) \in Seq(Msgs)
  <2>1. For(q, h) = IF q = src THEN <<Piece(x)>> ELSE <<Blank>>
    BY <1>5, <1>50, ForSingle
  <2> HIDE DEF h
  <2>2. For(q, o \o h) = For(q, o) \o For(q, h)
    BY <1>5, <1>6, ForConcat
  <2>3. For(q, o) \in Seq(Msgs)
    BY <1>5, ForType
  <2> QED BY <1>6, <2>1, <2>2, <2>3
<1>8. NoSelf(V, M, p)
  <2>1. NoSelf(W, L, p) /\ M[p][p] = L[p][p]
    BY <1>2, <1>3 DEF Pairs
  <2>2. AllBlank(For(p, v.out_wire))
    <3> DEFINE f == For(p, o)
               b == <<Blank>>
    <3>1. f \in Seq(Msgs) /\ AllBlank(f) /\ For(p, v.out_wire) = f \o b
      BY <1>2, <1>7, <2>1 DEF NoSelf, o
    <3>2. b \in Seq(Msgs) /\ AllBlank(b)
      BY BlankMsgs DEF AllBlank
    <3> HIDE DEF f, b
    <3> QED BY <3>1, <3>2, AllBlankConcat
  <2> HIDE DEF V
  <2> QED BY <1>1, <2>1, <2>2 DEF NoSelf
<1>9. ASSUME NEW q \in Clients \ {p}
      PROVE  Both(v.conns[q], W[q].conns[p], v.have, W[q].have,
                  M[p][q] \o For(q, v.out_wire), M[q][p] \o For(p, W[q].out_wire))
  <2> DEFINE c == W[q].conns[p]
             d == w.conns[q]
             l == L[p][q]
             f == For(q, o)
             back == Way(W, L, p, q)
  <2>1. Both(d, c, w.have, W[q].have, back, Way(W, L, q, p))
    BY PairIs
  <2>2. M[p][q] = L[p][q]
    BY <1>2, <1>3
  <2>3. /\ l \in Seq(Msgs) /\ f \in Seq(Msgs) /\ back \in Seq(Msgs) /\ back = l \o f
        /\ c \in conn /\ d \in conn
    BY <1>7, WayType DEF Way, o
  <2>4. CASE q = src
    <3> DEFINE t == Tail(L[src][p]) \o For(p, W[src].out_wire)
               a == <<Piece(x)>>
    <3>1. Both(c, d, W[src].have, w.have, <<m>> \o t, back)
      <4>1. Both(c, d, W[src].have, w.have, Way(W, L, src, p), back)
        BY <2>1, <2>4, BothTurned
      <4>2. Way(W, L, src, p) = <<m>> \o t
        BY <1>0 DEF Arrives, Rest
      <4> QED BY <4>1, <4>2
    <3>2. t \in Seq(Msgs) /\ d.handshake_received /\ x[1] \in w.have
      BY <1>0, <1>2, <1>4, <2>4 DEF Arrives, Rest, Honest
    <3>3. M[src][p] = Tail(L[src][p])
      BY PoppedIs DEF M
    <3>4. ConnGood(d) /\ AsksOf(d) /\ m = Request(x)
      BY <2>4 DEF Asks
    <3>5. a \in Seq(Msgs)
      BY <1>4, BlankMsgs
    <3> HIDE DEF m, c, d, t, l, f, back
    <3>6. Both(c, d, W[src].have, w.have, t, back \o a)
      BY <2>3, <3>1, <3>2, <3>4, BothServe
    <3>7. Both(d, c, w.have, W[src].have, back \o a, t)
      BY <3>6, BothTurned
    <3> HIDE DEF a
    <3>8. back \o a = l \o (f \o a)
      BY <2>3, <3>5
    <3> QED BY <1>7, <2>2, <2>4, <3>3, <3>7, <3>8 DEF c, d, t, l, f, a
  <2>5. CASE q # src
    <3> DEFINE b == <<Blank>>
               r == Way(W, L, q, p)
               g == w.have
    <3>1. M[q][p] = L[q][p]
      BY <1>3, <2>5
    <3>2. b \in Seq(Msgs) /\ (\A i \in 1 .. Len(b) : b[i] = Blank)
      BY BlankMsgs
    <3>3. r \in Seq(Msgs) /\ AsksOf(d) /\ g \subseteq g
      BY WayType DEF Asks
    <3>4. Both(d, c, g, W[q].have, back, r)
      BY <2>1
    <3> HIDE DEF c, d, l, f, back, b, r, g
    <3>5. Sends(d, d, g, b)
      BY <2>3, <3>2, SendsNothing DEF SameSeen
    <3>6. Both(d, c, g, W[q].have, back \o b, r)
      BY <2>3, <3>2, <3>3, <3>4, <3>5, BothSend
    <3>7. back \o b = l \o (f \o b)
      BY <2>3, <3>2
    <3> QED BY <1>7, <2>2, <2>5, <3>1, <3>6, <3>7 DEF c, d, l, f, b, r, g, Way
  <2> QED BY <2>4, <2>5
<1>10. \A a, b \in Clients : a # p /\ b # p => M[a][b] = L[a][b]
  BY <1>3
<1> HIDE DEF V
<1>12. Moves(W, L, M, p, v)
  BY <1>8, <1>9, <1>10 DEF Moves, V
<1>11. Pairs(V, M)
  BY <1>12, PairsChange DEF V
<1> QED BY <1>11 DEF V, M

\* or ignored.
LEMMA PairsDrop ==
  ASSUME NEW W \in Wires, NEW L \in Links, Pairs(W, L), NEW src \in Clients, NEW p \in Clients,
         L[src][p] # <<>>, NEW x \in SubPieceId, Head(L[src][p]) = Request(x),
         W[p].conns[src].am_choking, ConnGood(W[src].conns[p])
  PROVE  Pairs(W, Popped(L, src, p))
<1> DEFINE m == Head(L[src][p])
           M == Popped(L, src, p)
           w == W[p]
           V == [W EXCEPT ![p] = w]
<1>1. V[p] = w /\ V = W
  BY DEF Wires
<1>0. Arrives(W, L, src, p, m, Rest(W, L, src, p))
  BY ArrivalIs
<1>20. src # p
  BY <1>0 DEF Arrives
<1>21. m.type = "request"
  BY MessageTypes
<1>2. src # p /\ m.type = "request"
  BY <1>20, <1>21
<1>3. \A a, b \in Clients : a # src \/ b # p => M[a][b] = L[a][b]
  BY PoppedIs
<1> HIDE DEF M
<1>4. NoSelf(V, M, p)
  <2>1. NoSelf(W, L, p) /\ M[p][p] = L[p][p]
    BY <1>2, <1>3 DEF Pairs
  <2> HIDE DEF V
  <2> QED BY <1>1, <2>1 DEF NoSelf
<1>5. ASSUME NEW q \in Clients \ {p}
      PROVE  Both(w.conns[q], W[q].conns[p], w.have, W[q].have,
                  M[p][q] \o For(q, w.out_wire), M[q][p] \o For(p, W[q].out_wire))
  <2>1. Both(w.conns[q], W[q].conns[p], w.have, W[q].have, Way(W, L, p, q), Way(W, L, q, p))
    BY PairIs
  <2>2. M[p][q] = L[p][q]
    BY <1>2, <1>3
  <2>3. CASE q = src
    <3> DEFINE c == W[src].conns[p]
               d == w.conns[src]
               t == Tail(L[src][p]) \o For(p, W[src].out_wire)
               back == Way(W, L, p, src)
    <3>1. Both(c, d, W[src].have, w.have, <<m>> \o t, back)
      <4>1. Both(c, d, W[src].have, w.have, Way(W, L, src, p), back)
        BY <2>1, <2>3, BothTurned
      <4>2. Way(W, L, src, p) = <<m>> \o t
        BY <1>0 DEF Arrives, Rest
      <4> QED BY <4>1, <4>2
    <3>2. c \in conn /\ d \in conn /\ t \in Seq(Msgs) /\ back \in Seq(Msgs) /\ d.handshake_received
      BY <1>0, <1>2, WayType DEF Arrives, Rest
    <3>3. M[src][p] = Tail(L[src][p])
      BY PoppedIs DEF M
    <3>4. ConnGood(c) /\ d.am_choking /\ m = Request(x)
      OBVIOUS
    <3> HIDE DEF m, c, d, t, back
    <3>5. Both(c, d, W[src].have, w.have, t, back)
      BY <3>1, <3>2, <3>4, BothDrop
    <3>6. Both(d, c, w.have, W[src].have, back, t)
      BY <3>5, BothTurned
    <3> QED BY <2>2, <2>3, <3>3, <3>6 DEF c, d, t, back, Way
  <2>4. CASE q # src
    <3>1. M[q][p] = L[q][p]
      BY <1>3, <2>4
    <3> QED BY <2>1, <2>2, <2>4, <3>1 DEF Way
  <2> QED BY <2>3, <2>4
<1>6. \A a, b \in Clients : a # p /\ b # p => M[a][b] = L[a][b]
  BY <1>3
<1> HIDE DEF V
<1>8. Moves(W, L, M, p, w)
  BY <1>4, <1>5, <1>6 DEF Moves, V
<1>7. Pairs([W EXCEPT ![p] = w], M)
  BY <1>8, PairsChange
<1> QED BY <1>1, <1>7 DEF V, M

-----------------------------------------------------------------------------
(* What the selector sees of the wire.                                     *)

\* Nothing is observed.
LEMMA FollowsQuiet ==
  ASSUME NEW w \in WireState, NEW v \in WireState, NEW s \in SelState, Follows(w, s),
         v.out_obs = w.out_obs,
         \A q \in Clients : w.conns[q].peer_bitfield \subseteq v.conns[q].peer_bitfield
  PROVE  Follows(v, s)
<1>1. ASSUME NEW q \in Clients
      PROVE  /\ s.peer_bitfields[q] \subseteq v.conns[q].peer_bitfield
             /\ \A i \in 1 .. Len(v.out_obs) : Tells(v.out_obs[i], q) =>
                  /\ s.peer_bitfields[q] \subseteq v.out_obs[i].bitfield
                  /\ v.out_obs[i].bitfield \subseteq v.conns[q].peer_bitfield
                  /\ \A j \in 1 .. i - 1 : Tells(v.out_obs[j], q) =>
                       v.out_obs[j].bitfield \subseteq v.out_obs[i].bitfield
  BY DEF Follows
<1> QED BY <1>1 DEF Follows

\* One observation is made; an announcement is passed on as it is recorded.
LEMMA FollowsTell ==
  ASSUME NEW w \in WireState, NEW v \in WireState, NEW s \in SelState, Follows(w, s),
         NEW o \in Obs, v.out_obs = Append(w.out_obs, o),
         \A q \in Clients : w.conns[q].peer_bitfield \subseteq v.conns[q].peer_bitfield,
         o.kind = "availability" => o.bitfield = v.conns[o.peer].peer_bitfield
  PROVE  Follows(v, s)
<1> DEFINE a == w.out_obs
           b == v.out_obs
           n == Len(a)
<1>1. a \in Seq(Obs)
  BY DEF WireState
<1>2. b = Append(a, o)
  OBVIOUS
<1> HIDE DEF a, b
<1>3. /\ Len(b) = n + 1 /\ n \in Nat /\ b[n+1] = o
      /\ \A i \in 1 .. n : b[i] = a[i]
  BY <1>1, <1>2
<1>4. ASSUME NEW q \in Clients
      PROVE  /\ s.peer_bitfields[q] \subseteq v.conns[q].peer_bitfield
             /\ \A i \in 1 .. Len(b) : Tells(b[i], q) =>
                  /\ s.peer_bitfields[q] \subseteq b[i].bitfield
                  /\ b[i].bitfield \subseteq v.conns[q].peer_bitfield
                  /\ \A j \in 1 .. i - 1 : Tells(b[j], q) => b[j].bitfield \subseteq b[i].bitfield
  <2>1. /\ s.peer_bitfields[q] \subseteq w.conns[q].peer_bitfield
        /\ \A i \in 1 .. n : Tells(a[i], q) =>
             /\ s.peer_bitfields[q] \subseteq a[i].bitfield
             /\ a[i].bitfield \subseteq w.conns[q].peer_bitfield
             /\ \A j \in 1 .. i - 1 : Tells(a[j], q) => a[j].bitfield \subseteq a[i].bitfield
    BY DEF Follows, a
  <2>2. s.peer_bitfields[q] \subseteq v.conns[q].peer_bitfield
        /\ w.conns[q].peer_bitfield \subseteq v.conns[q].peer_bitfield
    BY <2>1
  <2>3. ASSUME NEW i \in 1 .. Len(b), Tells(b[i], q)
        PROVE  /\ s.peer_bitfields[q] \subseteq b[i].bitfield
               /\ b[i].bitfield \subseteq v.conns[q].peer_bitfield
               /\ \A j \in 1 .. i - 1 : Tells(b[j], q) => b[j].bitfield \subseteq b[i].bitfield
    <3>1. CASE i \in 1 .. n
      <4>1. /\ s.peer_bitfields[q] \subseteq a[i].bitfield
            /\ a[i].bitfield \subseteq w.conns[q].peer_bitfield
            /\ \A j \in 1 .. i - 1 : Tells(a[j], q) => a[j].bitfield \subseteq a[i].bitfield
        BY <1>3, <2>1, <2>3, <3>1
      <4>2. \A j \in 1 .. i - 1 : b[j] = a[j]
        BY <1>3, <3>1
      <4>3. b[i] = a[i]
        BY <1>3, <3>1
      <4> QED BY <2>2, <4>1, <4>2, <4>3
    <3>2. CASE i = n + 1
      <4>1. b[i] = o
        BY <1>3, <3>2
      <4>2. o.bitfield = v.conns[q].peer_bitfield
        BY <2>3, <4>1 DEF Tells
      <4>3. ASSUME NEW j \in 1 .. i - 1, Tells(b[j], q)
            PROVE  b[j].bitfield \subseteq w.conns[q].peer_bitfield
        <5>1. j \in 1 .. n /\ b[j] = a[j]
          BY <1>3, <3>2
        <5> QED BY <2>1, <4>3, <5>1
      <4> QED BY <2>2, <4>1, <4>2, <4>3
    <3> QED BY <1>3, <3>1, <3>2
  <2> QED BY <2>2, <2>3
<1> QED BY <1>4 DEF Follows, b

\* The oldest observation reaches the selector.
LEMMA FollowsHead ==
  ASSUME NEW w \in WireState, NEW s \in SelState, Follows(w, s), w.out_obs # <<>>
  PROVE  LET o == Head(w.out_obs)
         IN  /\ o \in Obs
             /\ o.kind = "availability" => s.peer_bitfields[o.peer] \subseteq o.bitfield
<1> DEFINE a == w.out_obs
<1>1. a \in Seq(Obs) /\ a # <<>>
  BY DEF WireState
<1> HIDE DEF a
<1>2. Head(a) = a[1] /\ 1 \in 1 .. Len(a) /\ a[1] \in Obs
  BY <1>1
<1>3. ASSUME a[1].kind = "availability"
      PROVE  s.peer_bitfields[a[1].peer] \subseteq a[1].bitfield
  <2>1. a[1].peer \in Clients
    BY <1>2, ObsIs
  <2>2. Tells(a[1], a[1].peer)
    BY <1>3 DEF Tells
  <2> QED BY <1>2, <2>1, <2>2 DEF Follows, a
<1> QED BY <1>2, <1>3 DEF a

\* The selector sees the oldest observation, and keeps following the wire.
LEMMA FollowsEmit ==
  ASSUME NEW w \in WireState, NEW v \in WireState, NEW s \in SelState, NEW t \in SelState,
         Follows(w, s), w.out_obs # <<>>,
         v.conns = w.conns, v.out_obs = Tail(w.out_obs), Learns(s, t, Head(w.out_obs))
  PROVE  Follows(v, t)
<1> DEFINE a == w.out_obs
           b == v.out_obs
           o == Head(a)
<1>1. a \in Seq(Obs) /\ a # <<>>
  BY DEF WireState
<1>2. b = Tail(a)
  OBVIOUS
<1> HIDE DEF a, b
<1>3. /\ Len(a) = Len(b) + 1 /\ Len(b) \in Nat /\ o = a[1] /\ a[1] \in Obs
      /\ \A i \in 1 .. Len(b) : b[i] = a[i+1]
  BY <1>1, <1>2
<1>4. ASSUME NEW q \in Clients
      PROVE  /\ t.peer_bitfields[q] \subseteq v.conns[q].peer_bitfield
             /\ \A i \in 1 .. Len(b) : Tells(b[i], q) =>
                  /\ t.peer_bitfields[q] \subseteq b[i].bitfield
                  /\ b[i].bitfield \subseteq v.conns[q].peer_bitfield
                  /\ \A j \in 1 .. i - 1 : Tells(b[j], q) => b[j].bitfield \subseteq b[i].bitfield
  <2>1. /\ s.peer_bitfields[q] \subseteq w.conns[q].peer_bitfield
        /\ \A i \in 1 .. Len(a) : Tells(a[i], q) =>
             /\ s.peer_bitfields[q] \subseteq a[i].bitfield
             /\ a[i].bitfield \subseteq w.conns[q].peer_bitfield
             /\ \A j \in 1 .. i - 1 : Tells(a[j], q) => a[j].bitfield \subseteq a[i].bitfield
    BY DEF Follows, a
  <2>2. t.peer_bitfields[q] = IF Tells(a[1], q) THEN a[1].bitfield ELSE s.peer_bitfields[q]
    <3>1. Learns(s, t, a[1])
      BY <1>3 DEF a
    <3>2. t.peer_bitfields[q] = IF a[1].kind = "availability" /\ q = a[1].peer
                                THEN a[1].bitfield ELSE s.peer_bitfields[q]
      BY <3>1 DEF Learns
    <3> QED BY <3>2 DEF Tells
  <2>3. 1 \in 1 .. Len(a) /\ v.conns[q] = w.conns[q]
    BY <1>3
  <2>4. t.peer_bitfields[q] \subseteq v.conns[q].peer_bitfield
    BY <2>1, <2>2, <2>3
  <2>5. ASSUME NEW i \in 1 .. Len(b), Tells(b[i], q)
        PROVE  /\ t.peer_bitfields[q] \subseteq b[i].bitfield
               /\ b[i].bitfield \subseteq v.conns[q].peer_bitfield
               /\ \A j \in 1 .. i - 1 : Tells(b[j], q) => b[j].bitfield \subseteq b[i].bitfield
    <3>1. i + 1 \in 1 .. Len(a) /\ b[i] = a[i+1] /\ i \in Int
      BY <1>3
    <3>2. /\ s.peer_bitfields[q] \subseteq a[i+1].bitfield
          /\ a[i+1].bitfield \subseteq w.conns[q].peer_bitfield
          /\ \A j \in 1 .. (i + 1) - 1 : Tells(a[j], q) => a[j].bitfield \subseteq a[i+1].bitfield
      BY <2>1, <2>5, <3>1
    <3>3. 1 \in 1 .. (i + 1) - 1
      BY <1>3
    <3>4. Tells(a[1], q) => a[1].bitfield \subseteq a[i+1].bitfield
      BY <3>2, <3>3
    <3>5. ASSUME NEW j \in 1 .. i - 1, Tells(b[j], q)
          PROVE  b[j].bitfield \subseteq b[i].bitfield
      <4>1. j + 1 \in 1 .. (i + 1) - 1 /\ j \in 1 .. Len(b)
        BY <1>3
      <4>2. b[j] = a[j+1]
        BY <1>3, <4>1
      <4> QED BY <3>1, <3>2, <3>5, <4>1, <4>2
    <3> QED BY <2>2, <2>3, <3>1, <3>2, <3>4, <3>5
  <2> QED BY <2>4, <2>5
<1> QED BY <1>4 DEF Follows, b

-----------------------------------------------------------------------------
\* A peer that has announced more is asked for no less.
LEMMA AsksTaken ==
  ASSUME NEW m \in WireMsg, NEW d \in conn, NEW e \in conn, Takes(m, d, e), AsksOf(d),
         m.type = "bitfield" => d.peer_bitfield = {}
  PROVE  AsksOf(e) /\ d.peer_bitfield \subseteq e.peer_bitfield
<1>1. d.peer_bitfield \subseteq e.peer_bitfield
  BY TakesIs
<1>2. d.outstanding \in Seq(SubPieceId) /\ d.planned \in Seq(SubPieceId)
  BY DEF conn
<1>3. ASSUME NEW sp \in SubPieceId
      PROVE  KeptCount(e, sp) <= KeptCount(d, sp)
  <2>1. /\ Count(d.outstanding, sp) \in Nat /\ Count(d.planned, sp) \in Nat
        /\ Count(e.outstanding, sp) \in Nat /\ Count(e.planned, sp) \in Nat
    BY KeptCountType
  <2>2. CASE m.type = "choke"
    <3>1. e = Choked(d)
      BY <2>2 DEF Takes
    <3>2. e.planned = d.outstanding \o d.planned /\ e.outstanding = <<>>
      BY <3>1 DEF Choked, conn
    <3>3. Count(e.planned, sp) = Count(d.outstanding, sp) + Count(d.planned, sp)
      BY <1>2, <3>2, CountConcat
    <3>4. Count(e.outstanding, sp) = 0
      BY <3>2, CountEmpty
    <3> QED BY <2>1, <3>3, <3>4 DEF KeptCount
  <2>3. CASE m.type = "piece" /\ Contains(d.outstanding, m.sub)
    <3>1. e = Delivered(d, m.sub) /\ m.sub \in SubPieceId
      BY <2>3, MessageIs DEF Takes
    <3>2. e.planned = d.planned /\ e.outstanding = RemoveFirst(d.outstanding, m.sub)
      BY <2>3, <3>1, DeliveredType
    <3>3. Count(e.outstanding, sp) = Count(d.outstanding, sp) - (IF m.sub = sp THEN 1 ELSE 0)
      BY <1>2, <2>3, <3>2, CountRemoveFirst
    <3> QED BY <2>1, <3>2, <3>3 DEF KeptCount
  <2>4. CASE m.type # "choke" /\ ~(m.type = "piece" /\ Contains(d.outstanding, m.sub))
    <3>1. e.outstanding = d.outstanding
      BY <2>4, TakesIs
    <3>2. e.planned = d.planned
      BY <2>4, MessageIs DEF Takes, Greeted, Unchoked, Interested, Announced, conn
    <3> QED BY <2>1, <3>1, <3>2 DEF KeptCount
  <2> QED BY <2>2, <2>3, <2>4
<1>4. ASSUME NEW sp \in SubPieceId, KeptCount(e, sp) > 0
      PROVE  sp[1] \in e.peer_bitfield
  <2>1. KeptCount(e, sp) \in Nat /\ KeptCount(d, sp) \in Nat
    BY KeptCountType
  <2>2. KeptCount(d, sp) > 0
    BY <1>3, <1>4, <2>1
  <2> QED BY <1>1, <2>2 DEF AsksOf
<1> QED BY <1>1, <1>4 DEF AsksOf

-----------------------------------------------------------------------------
(* The invariant of wires, selectors and links together.                   *)

\* Selectors of the clients.
Selectors == [Clients -> SelState]

\* The invariant of wires W, selectors S and messages under way L.
Sound(W, S, L) ==
  /\ W \in Wires /\ S \in Selectors /\ L \in Links
  /\ \A p \in Clients : Local(W[p], S[p])
  /\ Pairs(W, L)

\* One client, its selector and the links change: what must be shown of them.
LEMMA SoundChange ==
  ASSUME NEW W, NEW S, NEW L, Sound(W, S, L), NEW p \in Clients,
         NEW v \in WireState, NEW s \in SelState, NEW M \in Links, Local(v, s),
         Pairs([W EXCEPT ![p] = v], M)
  PROVE  Sound([W EXCEPT ![p] = v], [S EXCEPT ![p] = s], M)
<1> DEFINE V == [W EXCEPT ![p] = v]
           R == [S EXCEPT ![p] = s]
<1>1. V \in Wires /\ R \in Selectors
  BY DEF Sound, Wires, Selectors
<1>2. V[p] = v /\ R[p] = s /\ \A q \in Clients \ {p} : V[q] = W[q] /\ R[q] = S[q]
  BY DEF Sound, Wires, Selectors
<1>3. Pairs(V, M)
  OBVIOUS
<1> HIDE DEF V, R
<1>4. \A q \in Clients : Local(V[q], R[q])
  BY <1>2 DEF Sound
<1>5. Sound(V, R, M)
  BY <1>1, <1>3, <1>4 DEF Sound
<1> QED BY <1>5 DEF V, R

\* What the invariant says of one client.
LEMMA SoundIs ==
  ASSUME NEW W, NEW S, NEW L, Sound(W, S, L), NEW p \in Clients
  PROVE  /\ W[p] \in WireState /\ S[p] \in SelState /\ Pairs(W, L)
         /\ W \in Wires /\ L \in Links /\ S \in Selectors
         /\ Good(W[p]) /\ Asks(W[p]) /\ SelGood(S[p]) /\ Follows(W[p], S[p])
         /\ [S EXCEPT ![p] = S[p]] = S
  BY DEF Sound, Local, Wires, Selectors

\* Of two changes of one wire the later counts.
LEMMA ChangeTwice ==
  ASSUME NEW W \in Wires, NEW p \in Clients, NEW x, NEW v
  PROVE  [[W EXCEPT ![p] = x] EXCEPT ![p] = v] = [W EXCEPT ![p] = v]
  BY DEF Wires

\* A changed wire among the others.
LEMMA WiresChange ==
  ASSUME NEW W \in Wires, NEW p \in Clients, NEW x \in WireState
  PROVE  [W EXCEPT ![p] = x] \in Wires /\ [W EXCEPT ![p] = x][p] = x
  BY DEF Wires

\* p sends, the selector unchanged.
LEMMA SoundSend ==
  ASSUME NEW W, NEW S, NEW L, Sound(W, S, L), NEW p \in Clients,
         NEW v \in WireState, WireStep(W[p], v), Good(v), v.out_obs = W[p].out_obs
  PROVE  Sound([W EXCEPT ![p] = v], S, L)
<1>1. Pairs([W EXCEPT ![p] = v], L)
  BY SoundIs, PairsWireStep
<1>2. Asks(v)
  BY SoundIs, AsksStep
<1>3. Follows(v, S[p])
  <2>1. \A q \in Clients : W[p].conns[q].peer_bitfield \subseteq v.conns[q].peer_bitfield
    BY SoundIs, SeenStep DEF SameSeen
  <2> QED BY <2>1, SoundIs, FollowsQuiet
<1>4. Local(v, S[p])
  BY <1>2, <1>3, SoundIs DEF Local
<1> DEFINE s == S[p]
<1>5. s \in SelState /\ L \in Links /\ Local(v, s) /\ [S EXCEPT ![p] = s] = S
  BY <1>4, SoundIs
<1> HIDE DEF s
<1>6. Sound([W EXCEPT ![p] = v], [S EXCEPT ![p] = s], L)
  BY <1>1, <1>5, SoundChange
<1> QED BY <1>5, <1>6

-----------------------------------------------------------------------------
\* A plan reaches the wire.
LEMMA PairsPlan ==
  ASSUME NEW W \in Wires, NEW L \in Links, Pairs(W, L), NEW p \in Clients, NEW v \in WireState,
         NEW peer \in Clients, PlanSteps(W[p], v, peer), Asks(v)
  PROVE  Pairs([W EXCEPT ![p] = v], L)
<1>1. PICK x1, x2, x3 \in WireState :
        /\ Keeps(W[p], x1, peer) /\ WireStep(x1, x2) /\ Asks(x2)
        /\ Keeps(x2, x3, peer) /\ WireStep(x3, v)
  BY DEF PlanSteps
<1>2. Asks(x1) /\ Asks(x3)
  BY <1>1, AsksStep
<1> DEFINE W1 == [W EXCEPT ![p] = x1]
           W2 == [W EXCEPT ![p] = x2]
           W3 == [W EXCEPT ![p] = x3]
<1>3. /\ W1 \in Wires /\ W2 \in Wires /\ W3 \in Wires
      /\ W1[p] = x1 /\ W2[p] = x2 /\ W3[p] = x3
  BY WiresChange
<1>4. /\ [W1 EXCEPT ![p] = x2] = W2 /\ [W2 EXCEPT ![p] = x3] = W3
      /\ [W3 EXCEPT ![p] = v] = [W EXCEPT ![p] = v]
  BY ChangeTwice
<1>5. Pairs(W1, L)
  BY <1>1, PairsKeep
<1> HIDE DEF W1, W2, W3
<1>6. Pairs(W2, L)
  <2>1. Pairs([W1 EXCEPT ![p] = x2], L)
    BY <1>1, <1>2, <1>3, <1>5, PairsWireStep
  <2> QED BY <1>4, <2>1
<1>7. Pairs(W3, L)
  <2>1. Pairs([W2 EXCEPT ![p] = x3], L)
    BY <1>1, <1>3, <1>6, PairsKeep
  <2> QED BY <1>4, <2>1
<1>8. Pairs([W3 EXCEPT ![p] = v], L)
  BY <1>1, <1>2, <1>3, <1>7, PairsWireStep
<1> QED BY <1>4, <1>8

\* Forgetting or planning sub-pieces leaves what has been heard.
LEMMA KeepsSeen ==
  ASSUME NEW w \in WireState, NEW v, NEW peer \in Clients, Keeps(w, v, peer), NEW q \in Clients
  PROVE  SameSeen(w.conns[q], v.conns[q])
<1>1. PICK d \in conn : v = WithConn(w, peer, d) /\ KeptChange(w.conns[peer], d)
  BY DEF Keeps
<1>2. v.conns[peer] = d /\ \A r \in Clients \ {peer} : v.conns[r] = w.conns[r]
  BY <1>1, WithConnIs
<1> QED BY <1>1, <1>2 DEF KeptChange, SameSeen

\* A plan that leaves the selector fits what the selector knows.
LEMMA SelPop ==
  ASSUME NEW s \in SelState, SelGood(s), s.pending # <<>>
  PROVE  LET t == [s EXCEPT !.pending = Tail(@)]
             pl == Head(s.pending)
         IN  /\ t \in SelState /\ SelGood(t) /\ t.peer_bitfields = s.peer_bitfields
             /\ pl \in request_plan /\ PlanFits(s, pl)
<1> DEFINE a == s.pending
           r == Tail(a)
           t == [s EXCEPT !.pending = r]
<1>1. a \in Seq(request_plan) /\ a # <<>>
  BY DEF SelState
<1> HIDE DEF a
<1>2. /\ r \in Seq(request_plan) /\ Head(a) = a[1] /\ a[1] \in request_plan
      /\ Len(r) = Len(a) - 1 /\ Len(a) \in Nat /\ 1 \in 1 .. Len(a)
      /\ \A i \in 1 .. Len(r) : r[i] = a[i+1]
  BY <1>1
<1>3. \A i \in 1 .. Len(a) : PlanFits(s, a[i])
  BY DEF SelGood, PlansFit, a
<1>4. \A i \in 1 .. Len(r) : PlanFits(s, r[i])
  <2>1. ASSUME NEW i \in 1 .. Len(r)
        PROVE  PlanFits(s, r[i])
    <3>1. i + 1 \in 1 .. Len(a) /\ r[i] = a[i+1]
      BY <1>2
    <3> QED BY <1>3, <3>1
  <2> QED BY <2>1
<1> HIDE DEF r
<1>5. /\ t \in SelState /\ t.peer_bitfields = s.peer_bitfields
      /\ t.availability = s.availability /\ t.pending = r
  BY <1>2 DEF SelState
<1> HIDE DEF t
<1>6. Counted(t)
  BY <1>5 DEF SelGood, Counted
<1>7. PlansFit(t)
  BY <1>4, <1>5 DEF PlansFit, PlanFits
<1> QED BY <1>2, <1>3, <1>5, <1>6, <1>7 DEF SelGood, t, r, a

\* Handling a plan keeps the invariant.
LEMMA SoundPlan ==
  ASSUME NEW W, NEW S, NEW L, Sound(W, S, L), NEW p \in Clients, S[p].pending # <<>>, NEW v,
         LET pl == Head(S[p].pending)
         IN  v = IF W[p].conns[pl.peer].handshake_sent THEN PlanHandled(W[p], pl) ELSE W[p]
  PROVE  Sound([W EXCEPT ![p] = v], [S EXCEPT ![p] = [S[p] EXCEPT !.pending = Tail(@)]], L)
<1> DEFINE w == W[p]
           s == S[p]
           pl == Head(s.pending)
           t == [s EXCEPT !.pending = Tail(@)]
<1>1. /\ w \in WireState /\ s \in SelState /\ Pairs(W, L) /\ W \in Wires /\ L \in Links
      /\ Good(w) /\ Asks(w) /\ SelGood(s) /\ Follows(w, s)
  BY SoundIs
<1>2. s.pending # <<>>
  OBVIOUS
<1>20. v = IF w.conns[pl.peer].handshake_sent THEN PlanHandled(w, pl) ELSE w
  OBVIOUS
<1> HIDE DEF s
<1>3. /\ t \in SelState /\ SelGood(t) /\ t.peer_bitfields = s.peer_bitfields
      /\ pl \in request_plan /\ PlanFits(s, pl)
  BY <1>1, <1>2, SelPop
<1> HIDE DEF t, pl
<1>4. pl.peer \in Clients
  BY <1>3 DEF request_plan
<1>5. /\ v \in WireState /\ Good(v) /\ Asks(v) /\ v.out_obs = w.out_obs
      /\ Pairs([W EXCEPT ![p] = v], L)
      /\ \A q \in Clients : w.conns[q].peer_bitfield \subseteq v.conns[q].peer_bitfield
  <2>1. CASE w.conns[pl.peer].handshake_sent
    <3>1. Len(pl.cancellations) <= 1 /\ ItemsAnnounced(w, pl)
      <4>1. s.peer_bitfields[pl.peer] \subseteq w.conns[pl.peer].peer_bitfield
        BY <1>1, <1>4 DEF Follows
      <4> QED BY <1>3, <4>1 DEF PlanFits, ItemsAnnounced
    <3>2. v = PlanHandled(w, pl)
      BY <1>20, <2>1
    <3> HIDE DEF w
    <3>3. v \in WireState /\ Good(v) /\ Asks(v) /\ v.out_obs = w.out_obs
          /\ PlanSteps(w, v, pl.peer)
      BY <1>1, <1>3, <2>1, <3>1, <3>2, PlanHandledIs
    <3>4. Pairs([W EXCEPT ![p] = v], L)
      BY <1>1, <1>4, <3>3, PairsPlan DEF w
    <3>5. \A q \in Clients : w.conns[q].peer_bitfield \subseteq v.conns[q].peer_bitfield
      <4>1. PICK x1, x2, x3 \in WireState :
              /\ Keeps(w, x1, pl.peer) /\ WireStep(x1, x2)
              /\ Keeps(x2, x3, pl.peer) /\ WireStep(x3, v)
        BY <3>3 DEF PlanSteps
      <4>2. ASSUME NEW q \in Clients
            PROVE  SameSeen(w.conns[q], x1.conns[q]) /\ SameSeen(x2.conns[q], x3.conns[q])
        BY <1>1, <1>4, <4>1, KeepsSeen
      <4>3. ASSUME NEW q \in Clients
            PROVE  SameSeen(x1.conns[q], x2.conns[q]) /\ SameSeen(x3.conns[q], v.conns[q])
        BY <3>3, <4>1, SeenStep
      <4>4. ASSUME NEW q \in Clients
            PROVE  w.conns[q].peer_bitfield \subseteq v.conns[q].peer_bitfield
        <5>1. SameSeen(w.conns[q], x1.conns[q]) /\ SameSeen(x1.conns[q], x2.conns[q])
          BY <4>2, <4>3
        <5>2. SameSeen(x2.conns[q], x3.conns[q]) /\ SameSeen(x3.conns[q], v.conns[q])
          BY <4>2, <4>3
        <5> QED BY <5>1, <5>2 DEF SameSeen
      <4> QED BY <4>4
    <3> QED BY <3>3, <3>4, <3>5
  <2>2. CASE ~w.conns[pl.peer].handshake_sent
    <3>1. v = w
      BY <1>20, <2>2
    <3>2. [W EXCEPT ![p] = w] = W
      BY <1>1 DEF Wires
    <3> QED BY <1>1, <3>1, <3>2
  <2> QED BY <2>1, <2>2
<1>6. Follows(v, s)
  BY <1>1, <1>5, FollowsQuiet
<1>7. Follows(v, t)
  BY <1>3, <1>6 DEF Follows
<1>8. Local(v, t)
  BY <1>3, <1>5, <1>7 DEF Local
<1>9. Sound([W EXCEPT ![p] = v], [S EXCEPT ![p] = t], L)
  BY <1>1, <1>3, <1>5, <1>8, SoundChange
<1> QED BY <1>9 DEF t, s

-----------------------------------------------------------------------------
(* Each kind of message keeps the invariant.                               *)

\* After p has taken the message of src, it sends and tells its policies.
LEMMA SoundTake ==
  ASSUME NEW W, NEW S, NEW L, Sound(W, S, L), NEW src \in Clients, NEW p \in Clients,
         L[src][p] # <<>>, NEW e \in conn, Takes(Head(L[src][p]), W[p].conns[src], e),
         Head(L[src][p]).type # "request",
         NEW v \in WireState, WireStep(WithConn(W[p], src, e), v), Good(v),
         Follows(WithConn(W[p], src, e), S[p]) => Follows(v, S[p])
  PROVE  Sound([W EXCEPT ![p] = v], S, Popped(L, src, p))
<1> DEFINE w == W[p]
           d == w.conns[src]
           m == Head(L[src][p])
           M == Popped(L, src, p)
           v1 == WithConn(w, src, e)
           W1 == [W EXCEPT ![p] = v1]
           s == S[p]
<1>1. /\ w \in WireState /\ s \in SelState /\ Pairs(W, L) /\ W \in Wires /\ L \in Links
      /\ Good(w) /\ Asks(w) /\ SelGood(s) /\ Follows(w, s) /\ [S EXCEPT ![p] = s] = S
  BY SoundIs
<1>2. Arrives(W, L, src, p, m, Rest(W, L, src, p))
  BY <1>1, ArrivalIs
<1>3. d \in conn /\ AsksOf(d) /\ m \in WireMsg /\ (m.type = "bitfield" => d.peer_bitfield = {})
  BY <1>1, <1>2, ConnType DEF Arrives, Asks
<1>4. AsksOf(e) /\ d.peer_bitfield \subseteq e.peer_bitfield
  BY <1>3, AsksTaken
<1>5. /\ v1 \in WireState /\ v1.conns[src] = e /\ v1.out_obs = w.out_obs
      /\ \A q \in Clients \ {src} : v1.conns[q] = w.conns[q]
  BY <1>1, WithConnIs
<1>6. Asks(v1)
  BY <1>1, <1>4, AsksWithConn
<1>7. Pairs(W1, M)
  BY <1>1, PairsTake
<1>8. W1 \in Wires /\ W1[p] = v1 /\ [W1 EXCEPT ![p] = v] = [W EXCEPT ![p] = v]
  <2> HIDE DEF v1
  <2>1. W1 \in Wires /\ W1[p] = v1
    BY <1>1, <1>5, WiresChange
  <2>2. [W1 EXCEPT ![p] = v] = [W EXCEPT ![p] = v]
    BY <1>1, ChangeTwice
  <2> QED BY <2>1, <2>2
<1>9. M \in Links
  BY <1>1, PoppedIs
<1>10. Follows(v1, s)
  <2>1. \A q \in Clients : w.conns[q].peer_bitfield \subseteq v1.conns[q].peer_bitfield
    BY <1>4, <1>5
  <2> HIDE DEF v1
  <2> QED BY <1>1, <1>5, <2>1, FollowsQuiet
<1>11. Follows(v, s) /\ WireStep(v1, v)
  BY <1>10
<1> HIDE DEF v1, W1, M, s
<1>12. Pairs([W1 EXCEPT ![p] = v], M)
  BY <1>6, <1>7, <1>8, <1>9, <1>11, PairsWireStep
<1>13. Asks(v)
  BY <1>5, <1>6, <1>11, AsksStep
<1>14. Local(v, s)
  BY <1>1, <1>11, <1>13 DEF Local
<1>15. Pairs([W EXCEPT ![p] = v], M)
  BY <1>8, <1>12
<1>16. Sound([W EXCEPT ![p] = v], [S EXCEPT ![p] = s], M)
  BY <1>1, <1>9, <1>14, <1>15, SoundChange
<1> QED BY <1>1, <1>16 DEF M

\* What a message does to the wire it reaches.
Received(w, src, m, v) ==
  \/ m.type = "handshake" /\ v = OnHandshake(w, src)
  \/ m.type # "handshake" /\ ~w.conns[src].handshake_received /\ v = w
  \/ m.type = "choke" /\ v = OnChoke(w, src)
  \/ m.type = "unchoke" /\ v = OnUnchoke(w, src)
  \/ m.type = "interested" /\ v = OnInterest(w, src, TRUE)
  \/ m.type = "not_interested" /\ v = OnInterest(w, src, FALSE)
  \/ m.type = "have" /\ v = OnAvailability(w, src, w.conns[src].peer_bitfield \cup {m.index})
  \/ m.type = "bitfield" /\ v = OnAvailability(w, src, m.pieces)
  \/ m.type = "request" /\ v = OnRequest(w, src, m.sub)
  \/ m.type = "piece" /\ v = OnPiece(w, src, m.sub)
  \/ m.type = "cancel" /\ v = w

\* A step without an observation keeps the selector behind the wire,
LEMMA FollowsStep ==
  ASSUME NEW w \in WireState, NEW v \in WireState, WireStep(w, v), NEW s \in SelState,
         Follows(w, s), v.out_obs = w.out_obs
  PROVE  Follows(v, s)
<1>1. \A q \in Clients : w.conns[q].peer_bitfield \subseteq v.conns[q].peer_bitfield
  BY SeenStep DEF SameSeen
<1> QED BY <1>1, FollowsQuiet

\* and so does one that observes what was announced.
LEMMA FollowsStepTell ==
  ASSUME NEW w \in WireState, NEW v \in WireState, WireStep(w, v), NEW s \in SelState,
         Follows(w, s), NEW o \in Obs, v.out_obs = Append(w.out_obs, o),
         o.kind = "availability" => o.bitfield = w.conns[o.peer].peer_bitfield
  PROVE  Follows(v, s)
<1>1. \A q \in Clients : v.conns[q].peer_bitfield = w.conns[q].peer_bitfield
  BY SeenStep DEF SameSeen
<1>2. o.peer \in Clients
  BY ObsIs
<1>3. o.kind = "availability" => o.bitfield = v.conns[o.peer].peer_bitfield
  BY <1>1, <1>2
<1>4. \A q \in Clients : w.conns[q].peer_bitfield \subseteq v.conns[q].peer_bitfield
  BY <1>1
<1> QED BY <1>3, <1>4, FollowsTell

\* The message of src has reached p, whose wire is v now.
LEMMA SoundChoke ==
  ASSUME NEW W, NEW S, NEW L, Sound(W, S, L), NEW src \in Clients, NEW p \in Clients,
         L[src][p] # <<>>, Head(L[src][p]).type = "choke"
  PROVE  Sound([W EXCEPT ![p] = OnChoke(W[p], src)], S, Popped(L, src, p))
<1> DEFINE w == W[p]
           d == w.conns[src]
           e == Choked(d)
           m == Head(L[src][p])
           v == OnChoke(w, src)
<1>1. w \in WireState /\ Good(w) /\ Pairs(W, L) /\ W \in Wires /\ L \in Links
  BY SoundIs
<1>2. Arrives(W, L, src, p, m, Rest(W, L, src, p))
  BY <1>1, ArrivalIs
<1>3. d.handshake_received
  BY <1>2 DEF Arrives
<1>4. e \in conn /\ v = WithConn(w, src, e) /\ v \in WireState /\ Good(v)
  BY <1>1, <1>3, OnChokeIs
<1>5. Takes(m, d, e)
  BY <1>3 DEF Takes
<1> HIDE DEF e, v
<1>6. WireStep(WithConn(w, src, e), v)
  BY <1>4, StepSame
<1>7. Sound([W EXCEPT ![p] = v], S, Popped(L, src, p))
  BY <1>4, <1>5, <1>6, SoundTake
<1> QED BY <1>7 DEF v

\* An unchoke keeps the invariant,
LEMMA SoundUnchoke ==
  ASSUME NEW W, NEW S, NEW L, Sound(W, S, L), NEW src \in Clients, NEW p \in Clients,
         L[src][p] # <<>>, Head(L[src][p]).type = "unchoke"
  PROVE  Sound([W EXCEPT ![p] = OnUnchoke(W[p], src)], S, Popped(L, src, p))
<1> DEFINE w == W[p]
           d == w.conns[src]
           e == Unchoked(d)
           m == Head(L[src][p])
           v1 == WithConn(w, src, e)
           v == OnUnchoke(w, src)
<1>1. /\ w \in WireState /\ Good(w) /\ Pairs(W, L) /\ W \in Wires /\ L \in Links
      /\ S[p] \in SelState
  BY SoundIs
<1>2. Arrives(W, L, src, p, m, Rest(W, L, src, p))
  BY <1>1, ArrivalIs
<1>3. d.handshake_received
  BY <1>2 DEF Arrives
<1>4. /\ e \in conn /\ v1 \in WireState /\ v \in WireState /\ Good(v)
      /\ v.out_obs = w.out_obs /\ WireStep(v1, v)
  BY <1>1, <1>3, OnUnchokeIs
<1>5. Takes(m, d, e)
  BY <1>3 DEF Takes
<1>6. v1.out_obs = w.out_obs
  BY <1>1, <1>4, WithConnIs
<1> HIDE DEF e, v
<1>7. Follows(v1, S[p]) => Follows(v, S[p])
  BY <1>1, <1>4, <1>6, FollowsStep
<1>8. Sound([W EXCEPT ![p] = v], S, Popped(L, src, p))
  BY <1>4, <1>5, <1>7, SoundTake
<1> QED BY <1>8 DEF v

\* a change of interest,
LEMMA SoundInterest ==
  ASSUME NEW W, NEW S, NEW L, Sound(W, S, L), NEW src \in Clients, NEW p \in Clients,
         L[src][p] # <<>>, NEW b \in BOOLEAN,
         Head(L[src][p]).type = (IF b THEN "interested" ELSE "not_interested")
  PROVE  Sound([W EXCEPT ![p] = OnInterest(W[p], src, b)], S, Popped(L, src, p))
<1> DEFINE w == W[p]
           d == w.conns[src]
           e == Interested(d, b)
           m == Head(L[src][p])
           v1 == WithConn(w, src, e)
           v == OnInterest(w, src, b)
           o == obs_peer_interest(src, b)
<1>1. /\ w \in WireState /\ Good(w) /\ Pairs(W, L) /\ W \in Wires /\ L \in Links
      /\ S[p] \in SelState
  BY SoundIs
<1>2. Arrives(W, L, src, p, m, Rest(W, L, src, p))
  BY <1>1, ArrivalIs
<1>3. d.handshake_received
  BY <1>2 DEF Arrives
<1>4. /\ e \in conn /\ v1 \in WireState /\ v \in WireState /\ Good(v)
      /\ v.out_obs = Append(w.out_obs, o) /\ WireStep(v1, v)
  BY <1>1, OnInterestIs
<1>5. Takes(m, d, e)
  <2>1. CASE b = TRUE
    BY <1>3, <2>1 DEF Takes
  <2>2. CASE b = FALSE
    BY <1>3, <2>2 DEF Takes
  <2> QED BY <2>1, <2>2
<1>6. v1.out_obs = w.out_obs
  BY <1>1, <1>4, WithConnIs
<1>7. o \in Obs /\ o.kind = "interest"
  BY ObservationTypes DEF obs_peer_interest
<1>70. m.type # "request"
  OBVIOUS
<1> HIDE DEF e, v, o, v1
<1>8. Follows(v1, S[p]) => Follows(v, S[p])
  BY <1>1, <1>4, <1>6, <1>7, FollowsStepTell
<1>9. Sound([W EXCEPT ![p] = v], S, Popped(L, src, p))
  BY <1>4, <1>5, <1>8, <1>70, SoundTake DEF v1
<1> QED BY <1>9 DEF v

\* an announcement,
LEMMA SoundAvailability ==
  ASSUME NEW W, NEW S, NEW L, Sound(W, S, L), NEW src \in Clients, NEW p \in Clients,
         L[src][p] # <<>>, NEW bits \in SUBSET Pieces, Head(L[src][p]).type # "request",
         W[p].conns[src].handshake_received,
         Takes(Head(L[src][p]), W[p].conns[src], Announced(W[p].conns[src], bits))
  PROVE  Sound([W EXCEPT ![p] = OnAvailability(W[p], src, bits)], S, Popped(L, src, p))
<1> DEFINE w == W[p]
           d == w.conns[src]
           e == Announced(d, bits)
           m == Head(L[src][p])
           v1 == WithConn(w, src, e)
           v == OnAvailability(w, src, bits)
           o == obs_availability(src, bits)
<1>1. /\ w \in WireState /\ Good(w) /\ Pairs(W, L) /\ W \in Wires /\ L \in Links
      /\ S[p] \in SelState
  BY SoundIs
<1>4. /\ e \in conn /\ v1 \in WireState /\ v \in WireState /\ Good(v)
      /\ v.out_obs = Append(w.out_obs, o) /\ WireStep(v1, v)
  BY <1>1, OnAvailabilityIs
<1>5. Takes(m, d, e) /\ m.type # "request"
  OBVIOUS
<1>6. v1.out_obs = w.out_obs /\ v1.conns[src] = e
  BY <1>1, <1>4, WithConnIs
<1>7. o \in Obs /\ o.peer = src /\ o.bitfield = bits
  BY ObservationTypes DEF obs_availability
<1>70. e.peer_bitfield = bits
  BY <1>1, ConnType DEF Announced, conn
<1> HIDE DEF e, v, o, v1
<1>8. Follows(v1, S[p]) => Follows(v, S[p])
  BY <1>1, <1>4, <1>6, <1>7, <1>70, FollowsStepTell
<1>9. Sound([W EXCEPT ![p] = v], S, Popped(L, src, p))
  BY <1>4, <1>5, <1>8, SoundTake DEF v1
<1> QED BY <1>9 DEF v

\* a piece,
LEMMA SoundPiece ==
  ASSUME NEW W, NEW S, NEW L, Sound(W, S, L), NEW src \in Clients, NEW p \in Clients,
         L[src][p] # <<>>, Head(L[src][p]).type = "piece"
  PROVE  Sound([W EXCEPT ![p] = OnPiece(W[p], src, Head(L[src][p]).sub)], S, Popped(L, src, p))
<1> DEFINE w == W[p]
           d == w.conns[src]
           m == Head(L[src][p])
           sp == m.sub
           v == OnPiece(w, src, sp)
<1>1. /\ w \in WireState /\ Good(w) /\ Pairs(W, L) /\ W \in Wires /\ L \in Links
      /\ S[p] \in SelState
  BY SoundIs
<1>2. Arrives(W, L, src, p, m, Rest(W, L, src, p))
  BY <1>1, ArrivalIs
<1>3. d.handshake_received /\ sp \in SubPieceId /\ d \in conn
  BY <1>1, <1>2, MessageIs, ConnType DEF Arrives
<1>4. CASE Contains(d.outstanding, sp)
  <2> DEFINE e == Delivered(d, sp)
             v1 == WithConn(w, src, e)
             full == v1.conns[src].in_progress[sp[1]] = SubPieces
             o == obs_completion(src, sp, full)
  <2>1. /\ v1 \in WireState /\ v \in WireState /\ Good(v)
        /\ full \in BOOLEAN /\ v.out_obs = Append(w.out_obs, o) /\ WireStep(v1, v)
    BY <1>1, <1>3, <1>4, OnPieceIs
  <2>2. e \in conn
    BY <1>3, <1>4, DeliveredType
  <2>3. Takes(m, d, e) /\ m.type # "request"
    BY <1>3, <1>4 DEF Takes
  <2>4. v1.out_obs = w.out_obs
    BY <1>1, <2>2, WithConnIs
  <2> HIDE DEF full
  <2>5. o \in Obs /\ o.kind = "completion"
    BY <1>3, <2>1, ObservationTypes DEF obs_completion
  <2> HIDE DEF e, v, o, v1
  <2>6. Follows(v1, S[p]) => Follows(v, S[p])
    BY <1>1, <2>1, <2>4, <2>5, FollowsStepTell
  <2>7. Sound([W EXCEPT ![p] = v], S, Popped(L, src, p))
    BY <2>1, <2>2, <2>3, <2>6, SoundTake DEF v1
  <2> QED BY <2>7 DEF v
<1>5. CASE ~Contains(d.outstanding, sp)
  <2>1. v = w
    BY <1>5 DEF OnPiece
  <2>2. Takes(m, d, d) /\ m.type # "request"
    BY <1>3, <1>5 DEF Takes
  <2>3. WithConn(w, src, d) = w
    BY <1>1 DEF WithConn, WireState
  <2>4. WireStep(WithConn(w, src, d), w)
    BY <1>1, <2>3, StepSame
  <2>5. Sound([W EXCEPT ![p] = w], S, Popped(L, src, p))
    BY <1>1, <1>3, <2>2, <2>3, <2>4, SoundTake
  <2> QED BY <2>1, <2>5
<1> QED BY <1>4, <1>5

\* a cancellation,
LEMMA SoundCancel ==
  ASSUME NEW W, NEW S, NEW L, Sound(W, S, L), NEW src \in Clients, NEW p \in Clients,
         L[src][p] # <<>>, Head(L[src][p]).type = "cancel"
  PROVE  Sound([W EXCEPT ![p] = W[p]], S, Popped(L, src, p))
<1> DEFINE w == W[p]
           d == w.conns[src]
           m == Head(L[src][p])
<1>1. /\ w \in WireState /\ Good(w) /\ Pairs(W, L) /\ W \in Wires /\ L \in Links
  BY SoundIs
<1>2. Arrives(W, L, src, p, m, Rest(W, L, src, p))
  BY <1>1, ArrivalIs
<1>3. d.handshake_received /\ d \in conn
  BY <1>1, <1>2, ConnType DEF Arrives
<1>4. Takes(m, d, d) /\ m.type # "request"
  BY <1>3 DEF Takes
<1>5. WithConn(w, src, d) = w
  BY <1>1 DEF WithConn, WireState
<1>6. WireStep(WithConn(w, src, d), w)
  BY <1>1, <1>5, StepSame
<1> QED BY <1>1, <1>3, <1>4, <1>5, <1>6, SoundTake

\* A request is answered or, while its sender is choked, ignored.
LEMMA SoundRequest ==
  ASSUME NEW W, NEW S, NEW L, Sound(W, S, L), NEW src \in Clients, NEW p \in Clients,
         L[src][p] # <<>>, Head(L[src][p]).type = "request"
  PROVE  Sound([W EXCEPT ![p] = OnRequest(W[p], src, Head(L[src][p]).sub)], S, Popped(L, src, p))
<1> DEFINE w == W[p]
           d == w.conns[src]
           m == Head(L[src][p])
           sp == m.sub
           v == OnRequest(w, src, sp)
           s == S[p]
           M == Popped(L, src, p)
<1>1. /\ w \in WireState /\ s \in SelState /\ Pairs(W, L) /\ W \in Wires /\ L \in Links
      /\ Good(w) /\ Asks(w) /\ SelGood(s) /\ Follows(w, s) /\ [S EXCEPT ![p] = s] = S
  BY SoundIs
<1>2. Arrives(W, L, src, p, m, Rest(W, L, src, p))
  BY <1>1, ArrivalIs
<1>3. d.handshake_received /\ sp \in SubPieceId /\ m = Request(sp) /\ sp[1] \in w.have
  <2>1. m \in WireMsg /\ m \in Honest(W[src].have, w.have) /\ d.handshake_received
    BY <1>2 DEF Arrives
  <2>2. sp \in SubPieceId /\ m = Request(sp)
    BY <2>1, MessageIs
  <2>3. sp[1] \in w.have
    BY <2>1 DEF Honest
  <2> QED BY <2>1, <2>2, <2>3
<1>4. /\ v \in WireState /\ Good(v) /\ v.have = w.have /\ WireStep(w, v)
      /\ \/ v.out_obs = w.out_obs
         \/ v.out_obs = Append(w.out_obs, obs_upload(src, sp[1]))
  BY <1>1, <1>3, OnRequestIs
<1>5. M \in Links
  BY <1>1, PoppedIs
<1>6. Asks(v)
  BY <1>1, <1>4, AsksStep
<1>7. Follows(v, s)
  <2> DEFINE o == obs_upload(src, sp[1])
  <2>1. o \in Obs /\ o.kind = "upload"
    <3>1. sp[1] \in Pieces
      BY <1>3 DEF SubPieceId
    <3> QED BY <3>1, ObservationTypes DEF obs_upload
  <2> HIDE DEF o, v, s
  <2>2. CASE v.out_obs = w.out_obs
    BY <1>1, <1>4, <2>2, FollowsStep
  <2>3. CASE v.out_obs = Append(w.out_obs, o)
    BY <1>1, <1>4, <2>1, <2>3, FollowsStepTell
  <2> QED BY <1>4, <2>2, <2>3 DEF o
<1>8. Pairs([W EXCEPT ![p] = v], M)
  <2>1. CASE d.am_choking
    <3>1. v = w
      BY <2>1 DEF OnRequest
    <3>2. [W EXCEPT ![p] = w] = W
      BY <1>1 DEF Wires
    <3>3. ConnGood(W[src].conns[p])
      <4>1. Good(W[src])
        BY SoundIs
      <4> QED BY <4>1 DEF Good, GoodBut
    <3>4. Pairs(W, M)
      BY <1>1, <1>3, <2>1, <3>3, PairsDrop
    <3> QED BY <3>1, <3>2, <3>4
  <2>2. CASE ~d.am_choking
    <3> DEFINE a == Piece(sp)
               r == queue_to(w, src, a)
               o == obs_upload(src, sp[1])
    <3>1. v = observe(r, o)
      BY <1>3, <2>2 DEF OnRequest, missing
    <3>2. a \in WireMsg
      BY <1>3, MessageTypes
    <3>3. o \in Obs
      <4>1. sp[1] \in Pieces
        BY <1>3 DEF SubPieceId
      <4> QED BY <4>1, ObservationTypes
    <3> HIDE DEF a, o
    <3>4. /\ r \in WireState /\ r.have = w.have /\ r.conns = w.conns
          /\ r.out_wire = Append(w.out_wire, [dst |-> src, msg |-> a])
      BY <1>1, <3>2, QueueTo
    <3> HIDE DEF r
    <3>5. /\ v.have = w.have /\ v.conns = w.conns
          /\ v.out_wire = Append(w.out_wire, [dst |-> src, msg |-> a])
      BY <3>1, <3>3, <3>4, ObserveIs
    <3>6. ConnGood(d)
      BY <1>1 DEF Good, GoodBut
    <3> HIDE DEF v, sp
    <3> QED BY <1>1, <1>3, <1>4, <3>5, <3>6, PairsServe DEF a
  <2> QED BY <2>1, <2>2
<1>9. Local(v, s)
  BY <1>1, <1>4, <1>6, <1>7 DEF Local
<1> HIDE DEF v, s, M
<1>10. Sound([W EXCEPT ![p] = v], [S EXCEPT ![p] = s], M)
  BY <1>1, <1>4, <1>5, <1>8, <1>9, SoundChange
<1> QED BY <1>1, <1>10 DEF v, M

\* A handshake is answered unless it is itself the answer.
LEMMA SoundHandshake ==
  ASSUME NEW W, NEW S, NEW L, Sound(W, S, L), NEW src \in Clients, NEW p \in Clients,
         L[src][p] # <<>>, Head(L[src][p]).type = "handshake"
  PROVE  Sound([W EXCEPT ![p] = OnHandshake(W[p], src)], S, Popped(L, src, p))
<1> DEFINE w == W[p]
           d == w.conns[src]
           m == Head(L[src][p])
           e == Greeted(d)
           v1 == WithConn(w, src, e)
           v == OnHandshake(w, src)
           s == S[p]
           M == Popped(L, src, p)
           W1 == [W EXCEPT ![p] = v1]
<1>1. /\ w \in WireState /\ s \in SelState /\ Pairs(W, L) /\ W \in Wires /\ L \in Links
      /\ Good(w) /\ Asks(w) /\ SelGood(s) /\ Follows(w, s) /\ [S EXCEPT ![p] = s] = S
  BY SoundIs
<1>2. Arrives(W, L, src, p, m, Rest(W, L, src, p))
  BY <1>1, ArrivalIs
<1>3. /\ e \in conn /\ v1 \in WireState
      /\ v \in WireState /\ Good(v) /\ v.have = w.have /\ v.out_obs = w.out_obs
      /\ \/ v = v1
         \/ ~w.conns[src].handshake_sent /\ Opens(v1, v, src)
  BY <1>1, OnHandshakeIs
<1>4. Takes(m, d, e) /\ m.type # "request"
  BY DEF Takes
<1>5. d \in conn /\ AsksOf(d) /\ m \in WireMsg
  BY <1>1, <1>2, ConnType DEF Arrives, Asks
<1>6. AsksOf(e) /\ d.peer_bitfield \subseteq e.peer_bitfield
  BY <1>3, <1>4, <1>5, AsksTaken
<1>7. e.handshake_sent = d.handshake_sent
  BY <1>5 DEF Greeted, conn
<1> HIDE DEF e
<1>8. /\ v1.conns[src] = e /\ v1.out_obs = w.out_obs
      /\ \A q \in Clients \ {src} : v1.conns[q] = w.conns[q]
  BY <1>1, <1>3, WithConnIs
<1>9. Asks(v1)
  BY <1>1, <1>3, <1>6, AsksWithConn
<1>10. Pairs(W1, M)
  BY <1>1, <1>3, <1>4, PairsTake
<1> HIDE DEF v1, v, s
<1>11. W1 \in Wires /\ W1[p] = v1 /\ [W1 EXCEPT ![p] = v] = [W EXCEPT ![p] = v]
  <2>1. W1 \in Wires /\ W1[p] = v1
    BY <1>1, <1>3, WiresChange
  <2>2. [W1 EXCEPT ![p] = v] = [W EXCEPT ![p] = v]
    BY <1>1, ChangeTwice
  <2> QED BY <2>1, <2>2
<1>12. M \in Links
  BY <1>1, PoppedIs
<1>13. \A q \in Clients : w.conns[q].peer_bitfield \subseteq v1.conns[q].peer_bitfield
  BY <1>6, <1>8
<1>14. CASE v = v1
  <2>1. Follows(v, s)
    BY <1>1, <1>3, <1>13, <1>14, FollowsQuiet
  <2>2. Local(v, s)
    BY <1>1, <1>3, <1>9, <1>14, <2>1 DEF Local
  <2>3. Pairs([W EXCEPT ![p] = v], M)
    BY <1>10, <1>14
  <2> HIDE DEF M
  <2>4. Sound([W EXCEPT ![p] = v], [S EXCEPT ![p] = s], M)
    BY <1>1, <1>3, <1>12, <2>2, <2>3, SoundChange
  <2> QED BY <1>1, <2>4 DEF M, v
<1>15. CASE ~w.conns[src].handshake_sent /\ Opens(v1, v, src)
  <2>1. /\ v.conns[src] = Opened(e)
        /\ \A q \in Clients \ {src} : v.conns[q] = v1.conns[q]
    BY <1>8, <1>15 DEF Opens
  <2>2. /\ v.conns[src].peer_bitfield = e.peer_bitfield /\ v.conns[src].outstanding = e.outstanding
        /\ v.conns[src].planned = e.planned
    BY <1>3, <2>1 DEF Opened, conn
  <2>3. Asks(v)
    <3>1. ASSUME NEW q \in Clients
          PROVE  AsksOf(v.conns[q])
      BY <1>8, <1>9, <2>1, <2>2 DEF Asks, AsksOf, KeptCount
    <3> QED BY <3>1 DEF Asks
  <2>4. Follows(v, s)
    <3>1. \A q \in Clients : w.conns[q].peer_bitfield \subseteq v.conns[q].peer_bitfield
      BY <1>8, <1>13, <2>1, <2>2
    <3> QED BY <1>1, <1>3, <3>1, FollowsQuiet
  <2>5. Local(v, s)
    BY <1>1, <1>3, <2>3, <2>4 DEF Local
  <2>6. src # p
    BY <1>2 DEF Arrives
  <2>7. W1[src] = W[src]
    BY <1>1, <2>6 DEF Wires
  <2>8. ConnGood(W1[src].conns[p])
    <3>1. Good(W[src])
      BY SoundIs
    <3> QED BY <2>7, <3>1 DEF Good, GoodBut
  <2>9. ~W1[p].conns[src].handshake_sent
    BY <1>7, <1>8, <1>11, <1>15
  <2> HIDE DEF M, W1
  <2>10. Pairs([W1 EXCEPT ![p] = v], M)
    BY <1>3, <1>9, <1>10, <1>11, <1>12, <1>15, <2>6, <2>8, <2>9, PairsOpen
  <2>11. Pairs([W EXCEPT ![p] = v], M)
    BY <1>11, <2>10
  <2>12. Sound([W EXCEPT ![p] = v], [S EXCEPT ![p] = s], M)
    BY <1>1, <1>3, <1>12, <2>5, <2>11, SoundChange
  <2> QED BY <1>1, <2>12 DEF M, v
<1> QED BY <1>3, <1>14, <1>15

\* Whatever arrives keeps the invariant.
LEMMA SoundReceive ==
  ASSUME NEW W, NEW S, NEW L, Sound(W, S, L), NEW src \in Clients, NEW p \in Clients,
         L[src][p] # <<>>, NEW v, Received(W[p], src, Head(L[src][p]), v)
  PROVE  Sound([W EXCEPT ![p] = v], S, Popped(L, src, p))
<1> DEFINE w == W[p]
           d == w.conns[src]
           m == Head(L[src][p])
<1>1. /\ w \in WireState /\ Pairs(W, L) /\ W \in Wires /\ L \in Links
  BY SoundIs
<1>2. Arrives(W, L, src, p, m, Rest(W, L, src, p))
  BY <1>1, ArrivalIs
<1>3. m \in WireMsg /\ (m.type # "handshake" => d.handshake_received)
  BY <1>2 DEF Arrives
<1>4. d.peer_bitfield \in SUBSET Pieces
  BY <1>1, ConnType
<1>5. CASE m.type = "handshake" /\ v = OnHandshake(w, src)
  BY <1>5, SoundHandshake
<1>6. CASE m.type = "choke" /\ v = OnChoke(w, src)
  BY <1>6, SoundChoke
<1>7. CASE m.type = "unchoke" /\ v = OnUnchoke(w, src)
  BY <1>7, SoundUnchoke
<1>8. CASE m.type = "interested" /\ v = OnInterest(w, src, TRUE)
  <2>1. m.type = IF TRUE THEN "interested" ELSE "not_interested"
    BY <1>8
  <2> QED BY <1>8, <2>1, SoundInterest
<1>9. CASE m.type = "not_interested" /\ v = OnInterest(w, src, FALSE)
  <2>1. m.type = IF FALSE THEN "interested" ELSE "not_interested"
    BY <1>9
  <2> QED BY <1>9, <2>1, SoundInterest
<1>10. CASE m.type = "have" /\ v = OnAvailability(w, src, d.peer_bitfield \cup {m.index})
  <2> DEFINE bits == d.peer_bitfield \cup {m.index}
  <2>1. bits \in SUBSET Pieces
    BY <1>3, <1>4, <1>10, MessageIs
  <2>2. Takes(m, d, Announced(d, bits)) /\ d.handshake_received /\ m.type # "request"
    BY <1>3, <1>10 DEF Takes
  <2> HIDE DEF bits
  <2>3. Sound([W EXCEPT ![p] = OnAvailability(w, src, bits)], S, Popped(L, src, p))
    BY <2>1, <2>2, SoundAvailability
  <2> QED BY <1>10, <2>3 DEF bits
<1>11. CASE m.type = "bitfield" /\ v = OnAvailability(w, src, m.pieces)
  <2> DEFINE bits == m.pieces
  <2>1. bits \in SUBSET Pieces
    BY <1>3, <1>11, MessageIs
  <2>2. Takes(m, d, Announced(d, bits)) /\ d.handshake_received /\ m.type # "request"
    BY <1>3, <1>11 DEF Takes
  <2> HIDE DEF bits
  <2>3. Sound([W EXCEPT ![p] = OnAvailability(w, src, bits)], S, Popped(L, src, p))
    BY <2>1, <2>2, SoundAvailability
  <2> QED BY <1>11, <2>3 DEF bits
<1>12. CASE m.type = "request" /\ v = OnRequest(w, src, m.sub)
  BY <1>12, SoundRequest
<1>13. CASE m.type = "piece" /\ v = OnPiece(w, src, m.sub)
  BY <1>13, SoundPiece
<1>14. CASE m.type = "cancel" /\ v = w
  BY <1>14, SoundCancel
<1> QED BY <1>3, <1>5, <1>6, <1>7, <1>8, <1>9, <1>10, <1>11, <1>12, <1>13, <1>14 DEF Received

\* A command keeps the invariant.
LEMMA SoundCommand ==
  ASSUME NEW W, NEW S, NEW L, Sound(W, S, L), NEW p \in Clients, NEW peer \in Clients,
         NEW unchoke \in BOOLEAN, W[p].conns[peer].handshake_sent,
         W[p].conns[peer].am_choking = unchoke
  PROVE  Sound([W EXCEPT ![p] = Commanded(W[p], peer, unchoke)], S, L)
<1> DEFINE w == W[p]
           v == Commanded(w, peer, unchoke)
<1>1. w \in WireState /\ Good(w)
  BY SoundIs
<1>2. v \in WireState /\ Good(v) /\ v.out_obs = w.out_obs /\ WireStep(w, v)
  BY <1>1, CommandedIs
<1> HIDE DEF v
<1>3. Sound([W EXCEPT ![p] = v], S, L)
  BY <1>2, SoundSend
<1> QED BY <1>3 DEF v

-----------------------------------------------------------------------------
\* One message and one observation leave.
Popping(w) == [w EXCEPT !.out_wire = PopFront(@), !.out_obs = PopFront(@)]
\* Links after p's oldest message has left.
Linked(W, L, p) ==
  [L EXCEPT ![p] = [dst \in Clients |->
     L[p][dst] \o (IF \E f \in Leaving(W[p].out_wire) : f.dst = dst
                   THEN <<Head(W[p].out_wire).msg>> ELSE <<>>)]]
\* A selector after the oldest observation has left.
Seen(s, w) ==
  IF Leaving(w.out_obs) = {} THEN s ELSE OnObs(s, CHOOSE o \in Leaving(w.out_obs) : TRUE)

\* What leaves the queues of a wire changes nothing else of it.
LEMMA PoppingIs ==
  ASSUME NEW w \in WireState
  PROVE  LET v == Popping(w)
         IN  /\ v \in WireState /\ v.conns = w.conns /\ v.have = w.have
             /\ v.out_wire = PopFront(w.out_wire) /\ v.out_obs = PopFront(w.out_obs)
<1> DEFINE a == PopFront(w.out_wire)
           b == PopFront(w.out_obs)
<1>1. w.out_wire \in Seq(Entry) /\ w.out_obs \in Seq(Obs)
  BY DEF WireState
<1>2. a \in Seq(Entry)
  <2> DEFINE s == w.out_wire
  <2>1. s \in Seq(Entry)
    BY <1>1
  <2> HIDE DEF s
  <2>2. s # <<>> => Tail(s) \in Seq(Entry)
    BY <2>1
  <2> QED BY <2>1, <2>2 DEF PopFront, s
<1>3. b \in Seq(Obs)
  <2> DEFINE s == w.out_obs
  <2>1. s \in Seq(Obs)
    BY <1>1
  <2> HIDE DEF s
  <2>2. s # <<>> => Tail(s) \in Seq(Obs)
    BY <2>1
  <2> QED BY <2>1, <2>2 DEF PopFront, s
<1>4. Popping(w) = [w EXCEPT !.out_wire = a, !.out_obs = b]
  BY DEF Popping
<1> HIDE DEF a, b
<1>5. LET v == [w EXCEPT !.out_wire = a, !.out_obs = b]
      IN  /\ v \in WireState /\ v.conns = w.conns /\ v.have = w.have
          /\ v.out_wire = a /\ v.out_obs = b
  BY <1>2, <1>3 DEF WireState
<1> QED BY <1>4, <1>5 DEF a, b

\* What leaves the wire enters the link it is for.
LEMMA LinkedIs ==
  ASSUME NEW W \in Wires, NEW L \in Links, NEW p \in Clients
  PROVE  /\ Linked(W, L, p) \in Links
         /\ W[p].out_wire # <<>> => Sent(W, L, Linked(W, L, p), p)
         /\ W[p].out_wire = <<>> => Linked(W, L, p) = L
<1> DEFINE o == W[p].out_wire
           x == Head(o)
           more(dst) == IF \E f \in Leaving(o) : f.dst = dst THEN <<x.msg>> ELSE <<>>
           row == [dst \in Clients |-> L[p][dst] \o more(dst)]
           M == Linked(W, L, p)
<1>1. o \in Seq(Entry)
  BY WayType
<1>2. M = [L EXCEPT ![p] = row]
  BY DEF Linked
<1> HIDE DEF o, M
<1>3. o # <<>> => x \in Entry
  BY <1>1
<1>4. ASSUME NEW dst \in Clients
      PROVE  /\ more(dst) \in Seq(WireMsg)
             /\ o # <<>> => more(dst) = IF x.dst = dst THEN <<x.msg>> ELSE <<>>
             /\ o = <<>> => more(dst) = <<>>
  <2>1. CASE o = <<>>
    BY <2>1 DEF Leaving
  <2>2. CASE o # <<>>
    <3>1. Leaving(o) = {x} /\ x.msg \in WireMsg
      BY <1>3, <2>2 DEF Leaving, Entry
    <3> QED BY <2>2, <3>1
  <2> QED BY <2>1, <2>2
<1> HIDE DEF more
<1>5. ASSUME NEW dst \in Clients
      PROVE  L[p][dst] \o more(dst) \in Seq(WireMsg)
  <2> DEFINE a == L[p][dst]
             b == more(dst)
  <2>1. a \in Seq(WireMsg) /\ b \in Seq(WireMsg)
    BY <1>4 DEF Links
  <2> HIDE DEF a, b
  <2>2. a \o b \in Seq(WireMsg)
    BY <2>1, ConcatIs
  <2> QED BY <2>2 DEF a, b
<1>6. row \in [Clients -> Seq(WireMsg)]
  BY <1>5
<1>7. M \in Links
  BY <1>2, <1>6 DEF Links
<1>8. M[p] = row /\ \A a \in Clients \ {p} : M[a] = L[a]
  BY <1>2 DEF Links
<1>9. ASSUME o # <<>> PROVE Sent(W, L, M, p)
  <2>1. \A q \in Clients : M[p][q] = L[p][q] \o (IF x.dst = q THEN <<x.msg>> ELSE <<>>)
    BY <1>4, <1>8, <1>9
  <2>2. \A a, b \in Clients : a # p => M[a][b] = L[a][b]
    BY <1>8
  <2> QED BY <2>1, <2>2 DEF Sent, o
<1>10. ASSUME o = <<>> PROVE M = L
  <2>1. ASSUME NEW q \in Clients
        PROVE  M[p][q] = L[p][q]
    <3> DEFINE a == L[p][q]
    <3>1. a \in Seq(WireMsg)
      BY DEF Links
    <3> HIDE DEF a
    <3>2. a \o <<>> = a
      BY <3>1
    <3> QED BY <1>4, <1>8, <1>10, <3>2 DEF a
  <2>2. M[p] = L[p]
    BY <1>7, <2>1 DEF Links
  <2>3. \A a \in Clients : M[a] = L[a]
    BY <1>8, <2>2
  <2> QED BY <1>7, <2>3 DEF Links
<1> QED BY <1>7, <1>9, <1>10 DEF M, o

\* Emitting keeps the invariant.
LEMMA SoundEmit ==
  ASSUME NEW W, NEW S, NEW L, Sound(W, S, L), NEW p \in Clients
  PROVE  Sound([W EXCEPT ![p] = Popping(W[p])], [S EXCEPT ![p] = Seen(S[p], W[p])], Linked(W, L, p))
<1> DEFINE w == W[p]
           s == S[p]
           v == Popping(w)
           t == Seen(s, w)
           M == Linked(W, L, p)
<1>1. /\ w \in WireState /\ s \in SelState /\ Pairs(W, L) /\ W \in Wires /\ L \in Links
      /\ Good(w) /\ Asks(w) /\ SelGood(s) /\ Follows(w, s)
  BY SoundIs
<1>2. /\ v \in WireState /\ v.conns = w.conns /\ v.have = w.have
      /\ v.out_wire = PopFront(w.out_wire) /\ v.out_obs = PopFront(w.out_obs)
  BY <1>1, PoppingIs
<1>3. M \in Links
  BY <1>1, LinkedIs
<1> HIDE DEF v
<1>4. Good(v) /\ Asks(v)
  BY <1>1, <1>2, GoodSame DEF Good, Asks
<1>5. Pairs([W EXCEPT ![p] = v], M)
  <2>1. CASE w.out_wire = <<>>
    <3>1. M = L
      BY <1>1, <2>1, LinkedIs
    <3>2. v.out_wire = w.out_wire
      BY <1>2, <2>1 DEF PopFront
    <3>3. WireStep(w, v)
      BY <1>1, <1>2, <3>2, StepQuiet DEF SameSeen
    <3> QED BY <1>1, <1>2, <3>1, <3>3, PairsWireStep
  <2>2. CASE w.out_wire # <<>>
    <3>1. Sent(W, L, M, p)
      BY <1>1, <2>2, LinkedIs
    <3>2. v.out_wire = Tail(w.out_wire)
      BY <1>2, <2>2 DEF PopFront
    <3> HIDE DEF M
    <3> QED BY <1>1, <1>2, <2>2, <3>1, <3>2, PairsEmit
  <2> QED BY <2>1, <2>2
<1>6. t \in SelState /\ SelGood(t) /\ Follows(v, t)
  <2>1. CASE w.out_obs = <<>>
    <3>1. t = s /\ v.out_obs = w.out_obs
      BY <1>2, <2>1 DEF Seen, Leaving, PopFront
    <3>2. \A q \in Clients : w.conns[q].peer_bitfield \subseteq v.conns[q].peer_bitfield
      BY <1>2
    <3>3. Follows(v, s)
      BY <1>1, <1>2, <3>1, <3>2, FollowsQuiet
    <3> QED BY <1>1, <3>1, <3>3
  <2>2. CASE w.out_obs # <<>>
    <3> DEFINE o == Head(w.out_obs)
    <3>1. t = OnObs(s, o)
      BY <2>2 DEF Seen, Leaving
    <3>2. v.out_obs = Tail(w.out_obs)
      BY <1>2, <2>2 DEF PopFront
    <3>3. o \in Obs /\ (o.kind = "availability" => s.peer_bitfields[o.peer] \subseteq o.bitfield)
      BY <1>1, <2>2, FollowsHead
    <3> HIDE DEF t, o, s
    <3>4. t \in SelState /\ SelGood(t) /\ Learns(s, t, o)
      BY <1>1, <3>1, <3>3, OnObsIs
    <3>5. Follows(v, t)
      BY <1>1, <1>2, <2>2, <3>2, <3>4, FollowsEmit DEF o
    <3> QED BY <3>4, <3>5
  <2> QED BY <2>1, <2>2
<1>7. Local(v, t)
  BY <1>4, <1>6 DEF Local
<1> HIDE DEF t, M
<1>8. Sound([W EXCEPT ![p] = v], [S EXCEPT ![p] = t], M)
  BY <1>2, <1>3, <1>5, <1>6, <1>7, SoundChange
<1> QED BY <1>8 DEF v, t, M

-----------------------------------------------------------------------------
(* How clients start.                                                      *)

\* How a client starts, before and after it opens a connection.
Fresh(self) ==
  [have |-> InitialHave[self], conns |-> [peer \in Clients |-> NoConn],
   out_wire |-> <<>>, out_obs |-> <<>>]
Begins(self, w) ==
  \/ w = Fresh(self)
  \/ \E peer \in Clients \ {self} : Opens(Fresh(self), w, peer)

\* A fresh client is good.
LEMMA FreshIs ==
  /\ NoConn \in conn /\ Opened(NoConn) \in conn
  /\ ConnGood(NoConn) /\ ConnGood(Opened(NoConn))
  /\ ~NoConn.handshake_sent
  /\ \A have : Current(NoConn, have) /\ Current(Opened(NoConn), have)
  /\ AsksOf(NoConn) /\ AsksOf(Opened(NoConn))
  /\ NoConn.peer_bitfield = {} /\ Opened(NoConn).peer_bitfield = {}
  /\ \A self \in Clients : Fresh(self) \in WireState
<1> DEFINE c == NoConn
           d == Opened(c)
<1>1. c \in conn
  BY DEF NoConn, conn
<1>2. /\ c.handshake_sent = FALSE /\ c.handshake_received = FALSE
      /\ c.peer_choking /\ c.am_interested = FALSE
      /\ c.peer_bitfield = {} /\ c.outstanding = <<>> /\ c.planned = <<>>
  BY DEF NoConn
<1> HIDE DEF c
<1>3. /\ d \in conn
      /\ d.handshake_received = FALSE
      /\ d.peer_choking = c.peer_choking /\ d.am_interested = FALSE
      /\ d.peer_bitfield = {} /\ d.outstanding = <<>> /\ d.planned = <<>>
  BY <1>1, <1>2 DEF Opened, conn
<1> HIDE DEF d
<1>4. Len(<<>>) <= PipelineDepth
  BY GeometryAssumption
<1>5. ConnGood(c) /\ ConnGood(d)
  BY <1>2, <1>3, <1>4 DEF ConnGood
<1>6. \A have : Current(c, have) /\ Current(d, have)
  BY <1>2, <1>3 DEF Current
<1>7. \A sp : KeptCount(c, sp) = 0 /\ KeptCount(d, sp) = 0
  <2>1. \A sp : Count(<<>>, sp) = 0
    BY CountEmpty
  <2> QED BY <1>2, <1>3, <2>1 DEF KeptCount
<1>8. AsksOf(c) /\ AsksOf(d)
  BY <1>7 DEF AsksOf
<1>9. ASSUME NEW self \in Clients
      PROVE  Fresh(self) \in WireState
  <2>1. InitialHave[self] \in SUBSET Pieces
    BY SwarmAssumption
  <2> QED BY <1>1, <2>1 DEF Fresh, WireState, c
<1> QED BY <1>1, <1>2, <1>3, <1>5, <1>6, <1>8, <1>9 DEF c, d

\* A starting client has no connection but the one it opens.
LEMMA BeginsIs ==
  ASSUME NEW self \in Clients, NEW w \in WireState, Begins(self, w)
  PROVE  /\ \A q \in Clients : w.conns[q] = NoConn \/ w.conns[q] = Opened(NoConn)
         /\ w.conns[self] = NoConn
         /\ w.have = InitialHave[self] /\ w.out_obs = <<>>
<1> DEFINE f == Fresh(self)
<1>1. /\ \A q \in Clients : f.conns[q] = NoConn
      /\ f.have = InitialHave[self] /\ f.out_obs = <<>>
  BY DEF Fresh
<1>2. w = f \/ \E peer \in Clients \ {self} : Opens(f, w, peer)
  BY DEF Begins
<1> HIDE DEF f
<1>3. CASE w = f
  BY <1>1, <1>3
<1>4. CASE \E peer \in Clients \ {self} : Opens(f, w, peer)
  <2>1. PICK peer \in Clients \ {self} : Opens(f, w, peer)
    BY <1>4
  <2>2. /\ w.have = f.have /\ w.out_obs = f.out_obs
        /\ \A q \in Clients \ {peer} : w.conns[q] = f.conns[q]
        /\ w.conns[peer] = Opened(f.conns[peer])
    BY <2>1 DEF Opens
  <2> QED BY <1>1, <2>2
<1> QED BY <1>2, <1>3, <1>4

\* At most the opening is under way, and to one peer only.
LEMMA BeginsFor ==
  ASSUME NEW self \in Clients, NEW w \in WireState, Begins(self, w), NEW q \in Clients
  PROVE  LET u == For(q, w.out_wire)
         IN  /\ u \in Seq(Msgs)
             /\ \/ w.conns[q] = NoConn /\ AllBlank(u)
                \/ /\ q # self /\ w.conns[q] = Opened(NoConn)
                   /\ Len(u) = 2 /\ u[1] = Handshake /\ u[2] = Bitfield(w.have)
<1> DEFINE f == Fresh(self)
           u == For(q, w.out_wire)
<1>1. /\ \A r \in Clients : f.conns[r] = NoConn
      /\ f.have = InitialHave[self] /\ f.out_wire = <<>>
  BY DEF Fresh
<1>2. w = f \/ \E peer \in Clients \ {self} : Opens(f, w, peer)
  BY DEF Begins
<1>3. f \in WireState
  BY FreshIs
<1>4. w.out_wire \in Seq(Entry)
  BY ConnType
<1>5. /\ u \in Seq(Msgs) /\ Len(u) = Len(w.out_wire)
      /\ \A i \in 1 .. Len(w.out_wire) :
           u[i] = IF w.out_wire[i].dst = q THEN w.out_wire[i].msg ELSE Blank
  BY <1>4, ForType
<1> HIDE DEF f, u
<1>6. CASE w = f
  <2>1. Len(u) = 0
    BY <1>1, <1>5, <1>6
  <2> QED BY <1>1, <1>5, <1>6, <2>1 DEF AllBlank, u
<1>7. CASE \E peer \in Clients \ {self} : Opens(f, w, peer)
  <2>1. PICK peer \in Clients \ {self} : Opens(f, w, peer)
    BY <1>7
  <2> DEFINE o == Opening(f, peer)
  <2>2. o \in Seq(Entry) /\ Len(o) = 2
    BY <1>3, OpeningType
  <2>3. /\ \A i \in 1 .. 2 : o[i].dst = peer
        /\ o[1].msg = Handshake /\ o[2].msg = Bitfield(f.have)
    BY DEF Opening
  <2>4. /\ w.have = f.have /\ w.conns[peer] = Opened(NoConn)
        /\ \A r \in Clients \ {peer} : w.conns[r] = NoConn
        /\ w.out_wire = f.out_wire \o o
    BY <1>1, <2>1 DEF Opens
  <2> HIDE DEF o
  <2>5. w.out_wire = o
    BY <1>1, <2>2, <2>4
  <2>6. Len(u) = 2 /\ \A i \in 1 .. 2 : u[i] = IF peer = q THEN o[i].msg ELSE Blank
    BY <1>5, <2>2, <2>3, <2>5
  <2>7. 1 \in 1 .. 2 /\ 2 \in 1 .. 2
    OBVIOUS
  <2>8. CASE peer = q
    BY <1>5, <2>3, <2>4, <2>6, <2>7, <2>8 DEF u
  <2>9. CASE peer # q
    <3>1. AllBlank(u)
      BY <2>6, <2>9 DEF AllBlank
    <3> QED BY <1>5, <2>4, <2>9, <3>1 DEF u
  <2> QED BY <2>8, <2>9
<1> QED BY <1>2, <1>6, <1>7

\* Two clients without a connection are in order.
LEMMA BothFresh ==
  ASSUME NEW hp, NEW hq
  PROVE  Both(NoConn, NoConn, hp, hq, <<>>, <<>>)
<1> DEFINE c == NoConn
<1>1. /\ c.handshake_sent = FALSE /\ c.handshake_received = FALSE
      /\ c.am_choking = c.peer_choking /\ c.am_interested = c.peer_interested
      /\ c.peer_bitfield = {} /\ c.outstanding = <<>>
  BY DEF NoConn
<1> HIDE DEF c
<1>2. /\ LastOf(<<>>, {"choke", "unchoke"}) = "none"
      /\ LastOf(<<>>, {"interested", "not_interested"}) = "none"
  <2> DEFINE s == <<>>
  <2>1. s \in Seq(Msgs) /\ Len(s) = 0
    OBVIOUS
  <2> HIDE DEF s
  <2>2. ASSUME NEW T PROVE LastOf(s, T) = "none"
    <3>1. {i \in DOMAIN s : s[i].type \in T} = {}
      BY <2>1
    <3> QED BY <3>1 DEF LastOf, Blank
  <2> QED BY <2>2 DEF s
<1>3. ChokeAgrees(c, c, <<>>) /\ InterestAgrees(c, c, <<>>)
  BY <1>1, <1>2 DEF ChokeAgrees, InterestAgrees
<1>4. AllBlank(<<>>) /\ BitfieldFirst(<<>>, c.peer_bitfield)
  BY DEF AllBlank, BitfieldFirst
<1>5. \A g, h : <<>> \in Seq(Honest(g, h))
  OBVIOUS
<1>6. HalfBut(c, c, hp, hq, <<>>) /\ HalfBut(c, c, hq, hp, <<>>)
  BY <1>1, <1>3, <1>4, <1>5 DEF HalfBut
<1>7. Owed(c, <<>>, <<>>)
  <2>1. \A x : Count(<<>>, x) = 0
    BY CountEmpty
  <2>2. ASSUME NEW sp \in SubPieceId
        PROVE  Count(c.outstanding, sp) <= Count(<<>>, Request(sp)) + Count(<<>>, Piece(sp))
    <3>1. Count(<<>>, sp) = 0
      BY <2>1
    <3>2. Count(<<>>, Request(sp)) = 0
      <4> DEFINE x == Request(sp)
      <4> HIDE DEF x
      <4>1. Count(<<>>, x) = 0
        BY <2>1
      <4> QED BY <4>1 DEF x
    <3>3. Count(<<>>, Piece(sp)) = 0
      <4> DEFINE x == Piece(sp)
      <4> HIDE DEF x
      <4>1. Count(<<>>, x) = 0
        BY <2>1
      <4> QED BY <4>1 DEF x
    <3> QED BY <1>1, <3>1, <3>2, <3>3
  <2> QED BY <2>2 DEF Owed
<1> QED BY <1>6, <1>7 DEF Both, c

\* One side starts.
LEMMA BothBegins ==
  ASSUME NEW p \in Clients, NEW q \in Clients, NEW w \in WireState, Begins(p, w),
         NEW d \in conn, ConnGood(d), NEW hq, NEW back \in Seq(Msgs),
         Both(NoConn, d, w.have, hq, <<>>, back)
  PROVE  Both(w.conns[q], d, w.have, hq, For(q, w.out_wire), back)
<1> DEFINE u == For(q, w.out_wire)
           h == w.have
           n == NoConn
<1>1. /\ u \in Seq(Msgs)
      /\ \/ w.conns[q] = n /\ AllBlank(u)
         \/ /\ w.conns[q] = Opened(n)
            /\ Len(u) = 2 /\ u[1] = Handshake /\ u[2] = Bitfield(h)
  BY BeginsFor
<1>2. h \in SUBSET Pieces /\ n \in conn /\ ~n.handshake_sent /\ AsksOf(n)
  BY FreshIs, ConnType
<1>3. <<>> \in Seq(Msgs) /\ Both(n, d, h, hq, <<>>, back)
  OBVIOUS
<1> HIDE DEF u, h, n
<1>4. <<>> \o u = u
  BY <1>1
<1>5. CASE w.conns[q] = n /\ AllBlank(u)
  <2>1. Sends(n, n, h, u)
    BY <1>1, <1>2, <1>5, SendsNothing DEF AllBlank, SameSeen
  <2>2. h \subseteq h
    OBVIOUS
  <2>3. Both(n, d, h, hq, <<>> \o u, back)
    BY <1>1, <1>2, <1>3, <2>1, <2>2, BothSend
  <2> QED BY <1>4, <1>5, <2>3 DEF u, h
<1>6. CASE /\ w.conns[q] = Opened(n)
           /\ Len(u) = 2 /\ u[1] = Handshake /\ u[2] = Bitfield(h)
  <2>1. Both(Opened(n), d, h, hq, <<>> \o u, back)
    BY <1>1, <1>2, <1>3, <1>6, BothOpen
  <2> QED BY <1>4, <1>6, <2>1 DEF u, h
<1> QED BY <1>1, <1>5, <1>6

\* Nothing is under way.
NoLinks == [src \in Clients |-> [dst \in Clients |-> <<>>]]

\* Starting clients are in order.
LEMMA PairsBegin ==
  ASSUME NEW W \in Wires, \A p \in Clients : Begins(p, W[p])
  PROVE  Pairs(W, NoLinks)
<1>1. ASSUME NEW p \in Clients, NEW q \in Clients
      PROVE  Way(W, NoLinks, p, q) = For(q, W[p].out_wire) /\ Way(W, NoLinks, p, q) \in Seq(Msgs)
  <2> DEFINE f == For(q, W[p].out_wire)
  <2>1. W[p].out_wire \in Seq(Entry)
    <3>1. W[p] \in WireState
      BY DEF Wires
    <3> QED BY <3>1, ConnType
  <2>2. f \in Seq(Msgs)
    <3> DEFINE o == W[p].out_wire
    <3> HIDE DEF o
    <3>1. For(q, o) \in Seq(Msgs)
      BY <2>1, ForType DEF o
    <3> QED BY <3>1 DEF o
  <2>3. NoLinks[p][q] = <<>>
    BY DEF NoLinks
  <2> HIDE DEF f
  <2>4. <<>> \o f = f
    BY <2>2
  <2> QED BY <2>2, <2>3, <2>4 DEF Way, f
<1>2. ASSUME NEW p \in Clients, NEW q \in Clients, p # q
      PROVE  Half(W, NoLinks, p, q)
  <2> DEFINE w == W[p]
             x == W[q]
             u == For(q, w.out_wire)
             back == For(p, x.out_wire)
  <2>1. w \in WireState /\ x \in WireState /\ Begins(p, w) /\ Begins(q, x)
    BY DEF Wires
  <2>2. u \in Seq(Msgs) /\ back \in Seq(Msgs)
    BY <1>1
  <2>3. x.conns[p] \in conn /\ ConnGood(x.conns[p])
    <3>1. x.conns[p] = NoConn \/ x.conns[p] = Opened(NoConn)
      BY <2>1, BeginsIs
    <3> QED BY <3>1, FreshIs
  <2> HIDE DEF w, x
  <2>4. Both(NoConn, NoConn, x.have, w.have, <<>>, <<>>)
    BY BothFresh
  <2>5. Both(x.conns[p], NoConn, x.have, w.have, back, <<>>)
    <3>1. NoConn \in conn /\ ConnGood(NoConn) /\ <<>> \in Seq(Msgs)
      BY FreshIs
    <3> QED BY <2>1, <2>4, <3>1, BothBegins
  <2>6. Both(NoConn, x.conns[p], w.have, x.have, <<>>, back)
    BY <2>5, BothTurned
  <2> DEFINE d == x.conns[p]
             g == x.have
  <2>7. Both(w.conns[q], x.conns[p], w.have, x.have, u, back)
    <3>1. d \in conn /\ ConnGood(d) /\ Both(NoConn, d, w.have, g, <<>>, back)
      BY <2>3, <2>6
    <3> HIDE DEF d, g, back
    <3>2. Both(w.conns[q], d, w.have, g, For(q, w.out_wire), back)
      BY <2>1, <2>2, <3>1, BothBegins
    <3> QED BY <3>2 DEF d, g
  <2> QED BY <1>1, <2>7 DEF Both, Half, w, x
<1>3. ASSUME NEW p \in Clients
      PROVE  NoSelf(W, NoLinks, p)
  <2>1. W[p] \in WireState /\ Begins(p, W[p])
    BY DEF Wires
  <2> DEFINE w == W[p]
  <2>2. \/ w.conns[p] = NoConn /\ AllBlank(For(p, w.out_wire))
        \/ p # p
    <3> HIDE DEF w
    <3>1. w \in WireState /\ Begins(p, w)
      BY <2>1 DEF w
    <3> QED BY <3>1, BeginsFor
  <2>3. NoLinks[p][p] = <<>>
    BY DEF NoLinks
  <2> QED BY <2>2, <2>3, FreshIs DEF NoSelf
<1> QED BY <1>2, <1>3 DEF Pairs

\* What the selector starts from.
NoPlans ==
  [have |-> {}, peer_bitfields |-> [peer \in Clients |-> {}],
   availability |-> [p \in Pieces |-> 0], in_progress_pieces |-> <<>>,
   requested_from |-> [sp \in SubPieceId |-> {}], completed_count |-> 0, pending |-> <<>>]

\* A fresh selector is good.
LEMMA NoPlansIs ==
  /\ NoPlans \in SelState /\ SelGood(NoPlans)
  /\ \A q \in Clients : NoPlans.peer_bitfields[q] = {}
<1>1. <<>> \in Progress
  <2>1. <<>> \in [{} -> SUBSET SubPieces]
    OBVIOUS
  <2>2. {} \in SUBSET Pieces
    OBVIOUS
  <2> QED BY <2>1, <2>2, ProgressMade
<1>2. NoPlans \in SelState
  BY <1>1 DEF NoPlans, SelState
<1>3. ASSUME NEW x \in Pieces
      PROVE  NoPlans.availability[x] = Cardinality({q \in Clients : x \in NoPlans.peer_bitfields[q]})
  <2>1. {q \in Clients : x \in NoPlans.peer_bitfields[q]} = {}
    BY DEF NoPlans
  <2>2. Cardinality({}) = 0
    BY FS_EmptySet
  <2>3. NoPlans.availability[x] = 0
    BY DEF NoPlans
  <2> QED BY <2>1, <2>2, <2>3
<1>4. PlansFit(NoPlans)
  BY DEF PlansFit, NoPlans
<1> QED BY <1>2, <1>3, <1>4 DEF SelGood, Counted, NoPlans

\* Starting clients satisfy the invariant.
LEMMA SoundBegin ==
  ASSUME NEW W \in Wires, \A p \in Clients : Begins(p, W[p])
  PROVE  Sound(W, [self \in Clients |-> NoPlans], NoLinks)
<1> DEFINE S == [self \in Clients |-> NoPlans]
<1>1. NoLinks \in Links
  BY DEF NoLinks, Links
<1>2. S \in Selectors
  BY NoPlansIs DEF Selectors
<1>3. ASSUME NEW p \in Clients
      PROVE  Local(W[p], S[p])
  <2> DEFINE w == W[p]
  <2>1. w \in WireState /\ Begins(p, w)
    BY DEF Wires
  <2>2. S[p] = NoPlans
    OBVIOUS
  <2> HIDE DEF w, S
  <2>3. \A q \in Clients : w.conns[q] = NoConn \/ w.conns[q] = Opened(NoConn)
    BY <2>1, BeginsIs
  <2>4. w.out_obs = <<>>
    BY <2>1, BeginsIs
  <2>5. Good(w)
    <3>1. \A q \in Clients : ConnGood(w.conns[q])
      BY <2>3, FreshIs
    <3>2. \A q \in Clients : Current(w.conns[q], w.have)
      BY <2>3, FreshIs
    <3> QED BY <3>1, <3>2 DEF Good, GoodBut
  <2>6. Asks(w)
    BY <2>3, FreshIs DEF Asks
  <2>7. Follows(w, NoPlans)
    BY <2>4, NoPlansIs DEF Follows
  <2> QED BY <2>2, <2>5, <2>6, <2>7, NoPlansIs DEF Local, w
<1>4. Pairs(W, NoLinks)
  BY PairsBegin
<1> QED BY <1>1, <1>2, <1>3, <1>4 DEF Sound

-----------------------------------------------------------------------------
\* The invariant of Download.
IInv == Sound(wire, selector, link) /\ chokes \in 0 .. MaxChokes

\* What Init makes of the clients.
LEMMA InitIs ==
  ASSUME Init
  PROVE  /\ wire \in Wires /\ \A p \in Clients : Begins(p, wire[p])
         /\ selector = [self \in Clients |-> NoPlans]
<1> DEFINE peer(self) == CHOOSE peer \in ConnectTo[self] : TRUE
           opened(self) == queue_handshake_and_bitfield(Fresh(self), peer(self))
           start(self) == IF ConnectTo[self] = {} THEN Fresh(self) ELSE opened(self)
<1>1. wire = [self \in Clients |-> start(self)]
  BY DEF Init, WireInit, Fresh
<1>2. ASSUME NEW self \in Clients
      PROVE  start(self) \in WireState /\ Begins(self, start(self))
  <2>1. Fresh(self) \in WireState
    BY FreshIs
  <2>2. CASE ConnectTo[self] = {}
    BY <2>1, <2>2 DEF Begins
  <2>3. CASE ConnectTo[self] # {}
    <3>1. peer(self) \in Clients \ {self}
      BY <2>3, SwarmAssumption
    <3> HIDE DEF peer
    <3>2. opened(self) \in WireState /\ Opens(Fresh(self), opened(self), peer(self))
      BY <2>1, <3>1, QueueOpening
    <3> QED BY <2>3, <3>1, <3>2 DEF Begins
  <2> QED BY <2>2, <2>3
<1> HIDE DEF start
<1>3. wire \in Wires /\ \A p \in Clients : Begins(p, wire[p])
  BY <1>1, <1>2 DEF Wires
<1>4. selector = [self \in Clients |-> NoPlans]
  BY DEF Init, SelectorInit, NoPlans
<1> QED BY <1>3, <1>4

\* The invariant holds initially,
LEMMA InitSound ==
  Init => IInv
<1> SUFFICES ASSUME Init PROVE IInv
  OBVIOUS
<1>1. link = NoLinks
  BY DEF Init, NoLinks
<1>2. chokes \in 0 .. MaxChokes
  BY ChokesAssumption DEF Init
<1>3. selector = [self \in Clients |-> NoPlans] /\ Sound(wire, [self \in Clients |-> NoPlans], NoLinks)
  BY InitIs, SoundBegin
<1> QED BY <1>1, <1>2, <1>3 DEF IInv

\* What Emit does to the wires, selectors and links.
LEMMA EmitIs ==
  ASSUME wire \in Wires, selector \in Selectors, NEW self \in Clients, Emit(self)
  PROVE  /\ wire' = [wire EXCEPT ![self] = Popping(wire[self])]
         /\ selector' = [selector EXCEPT ![self] = Seen(selector[self], wire[self])]
         /\ link' = Linked(wire, link, self)
<1>1. wire' = [wire EXCEPT ![self] = Popping(wire[self])]
  <2>1. wire' = [wire EXCEPT ![self].out_wire = PopFront(@), ![self].out_obs = PopFront(@)]
    BY DEF Emit, EmitWire
  <2>2. [wire EXCEPT ![self].out_wire = PopFront(@), ![self].out_obs = PopFront(@)]
          = [wire EXCEPT ![self] = [wire[self] EXCEPT !.out_wire = PopFront(@), !.out_obs = PopFront(@)]]
    BY DEF Wires, WireState
  <2> QED BY <2>1, <2>2 DEF Popping
<1>2. selector' = [selector EXCEPT ![self] = Seen(selector[self], wire[self])]
  BY DEF Emit, Observe, Seen, Selectors
<1>3. link' = Linked(wire, link, self)
  BY DEF Emit, Linked
<1> QED BY <1>1, <1>2, <1>3

\* and each action keeps it: emitting,
LEMMA EmitSound ==
  ASSUME Sound(wire, selector, link), NEW self \in Clients, Emit(self)
  PROVE  Sound(wire, selector, link)'
<1> DEFINE v == Popping(wire[self])
           t == Seen(selector[self], wire[self])
           M == Linked(wire, link, self)
<1>1. wire' = [wire EXCEPT ![self] = v] /\ selector' = [selector EXCEPT ![self] = t] /\ link' = M
  BY EmitIs, SoundIs
<1>2. Sound([wire EXCEPT ![self] = v], [selector EXCEPT ![self] = t], M)
  BY SoundEmit
<1> QED BY <1>1, <1>2

\* What Receive does to the wires.
LEMMA ReceiveIs ==
  ASSUME wire \in Wires, NEW self \in Clients, NEW src \in Clients, Receive(self, src)
  PROVE  /\ link[src][self] # <<>> /\ selector' = selector /\ link' = Popped(link, src, self)
         /\ \E v : /\ wire' = [wire EXCEPT ![self] = v]
                  /\ Received(wire[self], src, Head(link[src][self]), v)
<1> DEFINE m == Head(link[src][self])
           w == wire[self]
<1>1. handle_wire_in(self, src, m)
  BY DEF Receive
<1>2. wire = [wire EXCEPT ![self] = w]
  BY DEF Wires
<1> HIDE DEF m, w
<1>3. \E v : wire' = [wire EXCEPT ![self] = v] /\ Received(w, src, m, v)
  BY <1>1, <1>2 DEF handle_wire_in, Received, w
<1>4. link[src][self] # <<>> /\ selector' = selector /\ link' = Popped(link, src, self)
  BY DEF Receive, Popped
<1> QED BY <1>3, <1>4 DEF m, w

\* receiving,
LEMMA ReceiveSound ==
  ASSUME Sound(wire, selector, link), NEW self \in Clients, NEW src \in Clients, Receive(self, src)
  PROVE  Sound(wire, selector, link)'
<1> DEFINE m == Head(link[src][self])
           w == wire[self]
<1>1. wire \in Wires
  BY SoundIs
<1>2. /\ link[src][self] # <<>> /\ selector' = selector /\ link' = Popped(link, src, self)
      /\ \E v : wire' = [wire EXCEPT ![self] = v] /\ Received(w, src, m, v)
  BY <1>1, ReceiveIs
<1>3. PICK v : wire' = [wire EXCEPT ![self] = v] /\ Received(w, src, m, v)
  BY <1>2
<1>4. Sound([wire EXCEPT ![self] = v], selector, Popped(link, src, self))
  BY <1>2, <1>3, SoundReceive
<1> QED BY <1>2, <1>3, <1>4

\* A step of the wire because of a plan.
AfterPlan(w, pl) == IF w.conns[pl.peer].handshake_sent THEN PlanHandled(w, pl) ELSE w

\* What Plan does to the wires.
LEMMA PlanIs ==
  ASSUME wire \in Wires, NEW self \in Clients, Plan(self)
  PROVE  /\ selector[self].pending # <<>> /\ link' = link
         /\ wire' = [wire EXCEPT ![self] = AfterPlan(wire[self], Head(selector[self].pending))]
<1> DEFINE w == wire[self]
           pl == Head(selector[self].pending)
<1>1. handle_plan_in(self, pl) /\ selector[self].pending # <<>> /\ link' = link
  BY DEF Plan, EmitPlan, SelectorDue
<1>2. wire = [wire EXCEPT ![self] = w]
  BY DEF Wires
<1>3. wire' = [wire EXCEPT ![self] = AfterPlan(w, pl)]
  <2> HIDE DEF pl
  <2>1. CASE w.conns[pl.peer].handshake_sent
    BY <1>1, <2>1 DEF handle_plan_in, HasConn, PlanHandled, Cancelled, WithConn, Planned, AfterPlan
  <2>2. CASE ~w.conns[pl.peer].handshake_sent
    BY <1>1, <1>2, <2>2 DEF handle_plan_in, HasConn, AfterPlan
  <2> QED BY <2>1, <2>2
<1> QED BY <1>1, <1>3

\* planning,
LEMMA PlanSound ==
  ASSUME Sound(wire, selector, link), NEW self \in Clients, Plan(self)
  PROVE  Sound(wire, selector, link)'
<1> DEFINE pl == Head(selector[self].pending)
           v == AfterPlan(wire[self], pl)
           t == [selector[self] EXCEPT !.pending = Tail(@)]
<1>1. wire \in Wires /\ selector \in Selectors
  BY SoundIs
<1>2. /\ selector[self].pending # <<>> /\ link' = link
      /\ wire' = [wire EXCEPT ![self] = v]
  BY <1>1, PlanIs
<1>3. selector' = [selector EXCEPT ![self] = t]
  BY <1>1 DEF Plan, EmitPlan, Selectors, SelState
<1>4. v = IF wire[self].conns[pl.peer].handshake_sent THEN PlanHandled(wire[self], pl) ELSE wire[self]
  BY DEF AfterPlan
<1> HIDE DEF v
<1>5. Sound([wire EXCEPT ![self] = v], [selector EXCEPT ![self] = t], link)
  BY <1>2, <1>4, SoundPlan
<1> QED BY <1>2, <1>3, <1>5

\* commanding,
LEMMA CommandSound ==
  ASSUME Sound(wire, selector, link), NEW self \in Clients, NEW peer \in Clients,
         NEW unchoke \in BOOLEAN, Command(self, peer, unchoke)
  PROVE  Sound(wire, selector, link)'
<1> DEFINE v == Commanded(wire[self], peer, unchoke)
<1>1. /\ wire[self].conns[peer].handshake_sent /\ wire[self].conns[peer].am_choking = unchoke
      /\ wire' = [wire EXCEPT ![self] = v]
      /\ selector' = selector /\ link' = link
  BY DEF Command, handle_choke_cmd, HasConn, Commanded
<1>2. Sound([wire EXCEPT ![self] = v], selector, link)
  BY <1>1, SoundCommand
<1> QED BY <1>1, <1>2

\* and so every step.
LEMMA NextSound ==
  IInv /\ [Next]_vars => IInv'
<1> SUFFICES ASSUME IInv, [Next]_vars PROVE IInv'
  OBVIOUS
<1>0. Sound(wire, selector, link) /\ chokes \in 0 .. MaxChokes
  BY DEF IInv
<1>1. ASSUME NEW self \in Clients, Emit(self) PROVE IInv'
  <2>1. chokes' = chokes
    BY <1>1 DEF Emit
  <2>2. Sound(wire, selector, link)'
    BY <1>0, <1>1, EmitSound
  <2> QED BY <1>0, <2>1, <2>2 DEF IInv
<1>2. ASSUME NEW self \in Clients, Plan(self) PROVE IInv'
  <2>1. chokes' = chokes
    BY <1>2 DEF Plan
  <2>2. Sound(wire, selector, link)'
    BY <1>0, <1>2, PlanSound
  <2> QED BY <1>0, <2>1, <2>2 DEF IInv
<1>3. ASSUME NEW self \in Clients, NEW peer \in Clients, Receive(self, peer) PROVE IInv'
  <2>1. chokes' = chokes
    BY <1>3 DEF Receive
  <2>2. Sound(wire, selector, link)'
    BY <1>0, <1>3, ReceiveSound
  <2> QED BY <1>0, <2>1, <2>2 DEF IInv
<1>4. ASSUME NEW self \in Clients, NEW peer \in Clients, UnchokePeer(self, peer) PROVE IInv'
  <2>1. chokes' = chokes /\ Command(self, peer, TRUE)
    BY <1>4 DEF UnchokePeer
  <2>2. Sound(wire, selector, link)'
    BY <1>0, <2>1, CommandSound
  <2> QED BY <1>0, <2>1, <2>2 DEF IInv
<1>5. ASSUME NEW self \in Clients, NEW peer \in Clients, ChokePeer(self, peer) PROVE IInv'
  <2>0. Command(self, peer, FALSE) /\ chokes < MaxChokes /\ chokes' = chokes + 1
    BY <1>5 DEF ChokePeer
  <2>1. chokes' \in 0 .. MaxChokes
    BY <1>0, <2>0, ChokesAssumption
  <2>2. Sound(wire, selector, link)'
    BY <1>0, <2>0, CommandSound
  <2> QED BY <2>1, <2>2 DEF IInv
<1>6. ASSUME UNCHANGED vars PROVE IInv'
  BY <1>0, <1>6 DEF vars, IInv
<1> QED BY <1>1, <1>2, <1>3, <1>4, <1>5, <1>6 DEF Next

\* Always, each client's connections are in order by themselves and its selector
\* follows its wire, and each two clients agree but for what is under way: the
\* invariant from which all theorems below follow.
THEOREM InductiveInvariant == Spec => []IInv
  BY InitSound, NextSound, PTL DEF Spec

-----------------------------------------------------------------------------
\* What the invariant says of one client.
LEMMA IInvIs ==
  ASSUME IInv, NEW p \in Clients
  PROVE  /\ wire[p] \in WireState /\ selector[p] \in SelState
         /\ Good(wire[p]) /\ Asks(wire[p]) /\ SelGood(selector[p])
         /\ wire \in Wires /\ link \in Links /\ selector \in Selectors /\ Pairs(wire, link)
  BY SoundIs DEF IInv

\* The invariant gives each of the properties.
LEMMA TypeHolds ==
  IInv => TypeOK
<1> SUFFICES ASSUME IInv PROVE TypeOK
  OBVIOUS
<1>1. wire \in Wires /\ link \in Links /\ selector \in Selectors /\ chokes \in 0 .. MaxChokes
  BY DEF IInv, Sound
<1>2. WireTypeOK
  BY <1>1 DEF WireTypeOK, Wires, WireState, Entry
<1>3. ASSUME NEW self \in Clients
      PROVE  /\ selector[self].have \subseteq Pieces
             /\ selector[self].peer_bitfields \in [Clients -> SUBSET Pieces]
             /\ selector[self].availability \in [Pieces -> Nat]
             /\ Started(selector[self]) \subseteq Pieces
             /\ \A p \in Started(selector[self]) :
                  selector[self].in_progress_pieces[p] \subseteq SubPieces
             /\ selector[self].requested_from \in [SubPieceId -> SUBSET Clients]
             /\ selector[self].completed_count \in Nat
             /\ selector[self].pending \in Seq(request_plan)
  <2> DEFINE s == selector[self]
             f == s.in_progress_pieces
  <2>1. s \in SelState
    BY <1>1 DEF Selectors
  <2> HIDE DEF s
  <2>2. f \in Progress
    BY <2>1, SelType
  <2>3. DOMAIN f \subseteq Pieces /\ \A x \in DOMAIN f : f[x] \in SUBSET SubPieces
    <3> HIDE DEF f
    <3> QED BY <2>2, ProgressIs
  <2>4. /\ s.have \subseteq Pieces /\ s.peer_bitfields \in [Clients -> SUBSET Pieces]
        /\ s.availability \in [Pieces -> Nat]
        /\ s.requested_from \in [SubPieceId -> SUBSET Clients] /\ s.completed_count \in Nat
        /\ s.pending \in Seq(request_plan)
    BY <2>1, SelType
  <2> QED BY <2>3, <2>4 DEF Started, s
<1>4. SelectorTypeOK
  BY <1>1, <1>3 DEF SelectorTypeOK, Selectors
<1>5. link \in [Clients -> [Clients -> Seq(WireMsg)]]
  BY <1>1 DEF Links
<1> QED BY <1>1, <1>2, <1>4, <1>5 DEF TypeOK

\* Every variable of Download holds values of its type, whatever handlers of
\* peer_wire.hpp and piece_selector.hpp run in whatever order.
THEOREM TypeCorrect == Spec => []TypeOK
  BY InductiveInvariant, TypeHolds, PTL

LEMMA InterestHolds ==
  IInv => InterestIsCurrent
<1> SUFFICES ASSUME IInv, NEW p \in Clients, NEW q \in Clients
             PROVE  wire[p].conns[q].am_interested <=> wire[p].conns[q].peer_bitfield \ wire[p].have # {}
  BY DEF InterestIsCurrent
<1>1. Good(wire[p])
  BY IInvIs
<1> QED BY <1>1 DEF Good, GoodBut, Current

\* A client is interested in exactly the peers that announced a piece it lacks:
\* recompute_interest runs wherever an announcement or a possession changes.
THEOREM InterestAlwaysCurrent == Spec => []InterestIsCurrent
  BY InductiveInvariant, InterestHolds, PTL

LEMMA ViewsHold ==
  IInv => ViewsAgree
<1> SUFFICES ASSUME IInv, NEW p \in Clients, NEW q \in Clients, p # q
             PROVE  /\ wire[p].conns[q].am_choking =
                         Told(UnderWay(p, q), "choke", "unchoke", wire[q].conns[p].peer_choking)
                    /\ wire[p].conns[q].am_interested =
                         Told(UnderWay(p, q), "interested", "not_interested",
                              wire[q].conns[p].peer_interested)
  BY DEF ViewsAgree
<1> DEFINE c == wire[p].conns[q]
           d == wire[q].conns[p]
           u == UnderWay(p, q)
           a == LastOf(u, {"choke", "unchoke"})
           b == LastOf(u, {"interested", "not_interested"})
<1>1. c \in conn /\ d \in conn
  <2>1. wire[p] \in WireState /\ wire[q] \in WireState
    BY IInvIs
  <2> QED BY <2>1, ConnType
<1>2. u = Way(wire, link, p, q)
  BY DEF UnderWay, Way
<1>3. Half(wire, link, p, q)
  BY IInvIs DEF Pairs
<1> HIDE DEF c, d, u
<1>4. ChokeAgrees(c, d, u) /\ InterestAgrees(c, d, u)
  BY <1>2, <1>3 DEF Half, HalfBut, c, d
<1>5. /\ c.am_choking \in BOOLEAN /\ c.am_interested \in BOOLEAN
      /\ d.peer_choking \in BOOLEAN /\ d.peer_interested \in BOOLEAN
  BY <1>1 DEF conn
<1>6. /\ \/ a = "none" /\ c.am_choking = d.peer_choking
         \/ a = "choke" /\ c.am_choking
         \/ a = "unchoke" /\ ~c.am_choking
      /\ \/ b = "none" /\ c.am_interested = d.peer_interested
         \/ b = "interested" /\ c.am_interested
         \/ b = "not_interested" /\ ~c.am_interested
  BY <1>4 DEF ChokeAgrees, InterestAgrees
<1>7. /\ Told(u, "choke", "unchoke", d.peer_choking)
           = IF a = "none" THEN d.peer_choking ELSE a = "choke"
      /\ Told(u, "interested", "not_interested", d.peer_interested)
           = IF b = "none" THEN d.peer_interested ELSE b = "interested"
  BY DEF Told, Blank
<1> HIDE DEF a, b
<1>8. c.am_choking = (IF a = "none" THEN d.peer_choking ELSE a = "choke")
  BY <1>5, <1>6
<1>9. c.am_interested = (IF b = "none" THEN d.peer_interested ELSE b = "interested")
  BY <1>5, <1>6
<1> QED BY <1>7, <1>8, <1>9 DEF c, d, u

\* The two ends of a connection agree on choking and interest up to the messages
\* under way, however commands, announcements and completions cross.
THEOREM ViewsAlwaysAgree == Spec => []ViewsAgree
  BY InductiveInvariant, ViewsHold, PTL

\* No client has a connection to itself.
LEMMA NoneToSelf ==
  ASSUME IInv, NEW p \in Clients
  PROVE  wire[p].conns[p].outstanding = <<>> /\ wire[p].conns[p].peer_bitfield = {}
<1>1. Good(wire[p]) /\ ~wire[p].conns[p].handshake_sent
  BY IInvIs DEF Pairs, NoSelf
<1> QED BY <1>1 DEF Good, GoodBut, ConnGood

LEMMA RequestsHold ==
  IInv => RequestsAccounted
<1> SUFFICES ASSUME IInv, NEW p \in Clients, NEW q \in Clients, NEW sp \in Waiting(p, q)
             PROVE  \/ Contains(UnderWay(p, q), Request(sp))
                    \/ Contains(UnderWay(q, p), Piece(sp))
                    \/ Contains(UnderWay(q, p), Choke(FALSE))
  BY DEF RequestsAccounted
<1> DEFINE o == wire[p].conns[q].outstanding
           u == UnderWay(p, q)
           back == UnderWay(q, p)
<1>1. o \in Seq(SubPieceId)
  <2>1. wire[p] \in WireState
    BY IInvIs
  <2> QED BY <2>1, ConnType
<1>2. u \in Seq(Msgs) /\ back \in Seq(Msgs)
  <2>1. wire \in Wires /\ link \in Links
    BY IInvIs
  <2> QED BY <2>1, WayType DEF UnderWay, Way
<1>3. PICK i \in DOMAIN o : sp = o[i]
  BY DEF Waiting, ToSet
<1>4. p # q
  <2>1. ASSUME p = q PROVE o = <<>>
    BY <2>1, NoneToSelf
  <2> QED BY <1>3, <2>1
<1>5. Owed(wire[p].conns[q], u, back)
  BY <1>4, IInvIs DEF Pairs, Half, UnderWay, Way
<1> HIDE DEF u, back
<1>6. sp \in SubPieceId /\ Count(o, sp) > 0 /\ Count(o, sp) \in Nat
  <2> HIDE DEF o
  <2>1. sp \in SubPieceId /\ Contains(o, sp)
    BY <1>1, <1>3 DEF Contains
  <2> QED BY <1>1, <2>1, CountContains, CountType
<1>7. CASE Count(back, Choke(FALSE)) > 0
  <2> DEFINE m == Choke(FALSE)
  <2>1. Count(back, m) > 0
    BY <1>7
  <2> HIDE DEF m
  <2>2. Contains(back, m)
    BY <1>2, <2>1, CountContains
  <2> QED BY <2>2 DEF m, back
<1>8. CASE Count(o, sp) <= Count(u, Request(sp)) + Count(back, Piece(sp))
  <2> DEFINE r == Request(sp)
             a == Piece(sp)
  <2>1. Count(o, sp) <= Count(u, r) + Count(back, a)
    BY <1>8
  <2> HIDE DEF r, a, o
  <2>2. Count(u, r) \in Nat /\ Count(back, a) \in Nat
    BY <1>2, CountType
  <2>3. Count(u, r) > 0 \/ Count(back, a) > 0
    BY <1>6, <2>1, <2>2
  <2>4. Contains(u, r) \/ Contains(back, a)
    BY <1>2, <2>3, CountContains
  <2> QED BY <2>4 DEF r, a, u, back
<1> QED BY <1>5, <1>6, <1>7, <1>8 DEF Owed

\* A request of peer_wire.hpp that is outstanding is under way, or its answer is,
\* or a choke that puts it back into the plan: none is forgotten.
THEOREM RequestsAlwaysAccounted == Spec => []RequestsAccounted
  BY InductiveInvariant, RequestsHold, PTL

\* No peer is believed to have a piece it does not have.
LEMMA BelievedHolds ==
  ASSUME IInv, NEW p \in Clients, NEW q \in Clients
  PROVE  wire[p].conns[q].peer_bitfield \subseteq wire[q].have
<1>1. CASE p = q
  BY <1>1, NoneToSelf
<1>2. CASE p # q
  BY <1>2, IInvIs DEF Pairs, Half, HalfBut
<1> QED BY <1>1, <1>2

LEMMA AvailabilityHolds ==
  IInv => AvailabilityIsCount
<1> SUFFICES ASSUME IInv, NEW p \in Clients
             PROVE  /\ \A x \in Pieces : selector[p].availability[x] =
                         Cardinality({q \in Clients : x \in selector[p].peer_bitfields[q]})
                    /\ \A q \in Clients : wire[p].conns[q].peer_bitfield \subseteq wire[q].have
  BY DEF AvailabilityIsCount
<1>1. SelGood(selector[p])
  BY IInvIs
<1> QED BY <1>1, BelievedHolds DEF SelGood, Counted

\* The selector's count of a piece is the number of peers known to have it, and
\* no peer is believed to have what it has not: update_availability counts each
\* peer once because announcements only grow.
THEOREM AvailabilityAlwaysCount == Spec => []AvailabilityIsCount
  BY InductiveInvariant, AvailabilityHolds, PTL

\* At most PipelineDepth requests are outstanding on every connection.
PipelineBounded ==
  \A p, q \in Clients : Len(wire[p].conns[q].outstanding) <= PipelineDepth

LEMMA PipelineHolds ==
  IInv => PipelineBounded
<1> SUFFICES ASSUME IInv, NEW p \in Clients, NEW q \in Clients
             PROVE  Len(wire[p].conns[q].outstanding) <= PipelineDepth
  BY DEF PipelineBounded
<1>1. Good(wire[p])
  BY IInvIs
<1> QED BY <1>1 DEF Good, GoodBut, ConnGood

\* fill_pipeline never leaves more than PipelineDepth requests outstanding on a
\* connection, whatever plans, cancellations, answers and chokes come.
THEOREM PipelineAlwaysBounded == Spec => []PipelineBounded
  BY InductiveInvariant, PipelineHolds, PTL

-----------------------------------------------------------------------------
\* A message leaves what a client has, or completes a piece of the one it is from.
LEMMA ReceivedHave ==
  ASSUME NEW w \in WireState, Good(w), Asks(w), NEW src \in Clients, NEW m \in WireMsg,
         m.type # "handshake" => w.conns[src].handshake_received,
         NEW v, Received(w, src, m, v)
  PROVE  v.have = w.have \/ \E x \in w.conns[src].peer_bitfield : v.have = w.have \cup {x}
<1> DEFINE d == w.conns[src]
           sp == m.sub
<1>0. d \in conn /\ d.peer_bitfield \in SUBSET Pieces
  BY ConnType
<1>1. CASE m.type = "handshake" /\ v = OnHandshake(w, src)
  BY <1>1, OnHandshakeIs
<1>2. CASE m.type = "choke" /\ v = OnChoke(w, src)
  <2>1. v.have = w.have
    BY <1>2 DEF OnChoke
  <2> QED BY <2>1
<1>3. CASE m.type = "unchoke" /\ v = OnUnchoke(w, src)
  BY <1>3, OnUnchokeIs
<1>4. CASE m.type = "interested" /\ v = OnInterest(w, src, TRUE)
  BY <1>4, OnInterestIs
<1>5. CASE m.type = "not_interested" /\ v = OnInterest(w, src, FALSE)
  BY <1>5, OnInterestIs
<1>6. CASE m.type = "have" /\ v = OnAvailability(w, src, d.peer_bitfield \cup {m.index})
  <2> DEFINE bits == d.peer_bitfield \cup {m.index}
  <2>1. bits \in SUBSET Pieces /\ d.handshake_received
    BY <1>0, <1>6, MessageIs
  <2> HIDE DEF bits
  <2>2. OnAvailability(w, src, bits).have = w.have
    BY <2>1, OnAvailabilityIs
  <2> QED BY <1>6, <2>2 DEF bits
<1>7. CASE m.type = "bitfield" /\ v = OnAvailability(w, src, m.pieces)
  <2>1. m.pieces \in SUBSET Pieces /\ d.handshake_received
    BY <1>7, MessageIs
  <2> QED BY <1>7, <2>1, OnAvailabilityIs
<1>8. CASE m.type = "request" /\ v = OnRequest(w, src, m.sub)
  <2>1. sp \in SubPieceId /\ d.handshake_received
    BY <1>8, MessageIs
  <2> QED BY <1>8, <2>1, OnRequestIs
<1>9. CASE m.type = "piece" /\ v = OnPiece(w, src, m.sub)
  <2>1. sp \in SubPieceId /\ d.handshake_received
    BY <1>9, MessageIs
  <2>2. CASE ~Contains(d.outstanding, sp)
    BY <1>9, <2>2 DEF OnPiece
  <2>3. CASE Contains(d.outstanding, sp)
    <3>1. v.have = w.have \/ v.have = w.have \cup {sp[1]}
      <4> DEFINE full == WithConn(w, src, Delivered(d, sp)).conns[src].in_progress[sp[1]] = SubPieces
      <4>1. v.have = IF full THEN w.have \cup {sp[1]} ELSE w.have
        BY <1>9, <2>1, <2>3, OnPieceIs
      <4> QED BY <4>1
    <3>2. KeptCount(d, sp) > 0
      <4>1. Count(d.outstanding, sp) > 0
        <5> DEFINE o == d.outstanding
        <5>1. o \in Seq(SubPieceId) /\ Contains(o, sp)
          BY <2>3, ConnType
        <5> HIDE DEF o
        <5>2. Count(o, sp) > 0
          BY <5>1, CountContains
        <5> QED BY <5>2 DEF o
      <4>2. Count(d.outstanding, sp) \in Nat /\ Count(d.planned, sp) \in Nat
        BY <1>0, KeptCountType
      <4> QED BY <4>1, <4>2 DEF KeptCount
    <3>3. sp[1] \in d.peer_bitfield
      BY <2>1, <3>2 DEF Asks, AsksOf
    <3> QED BY <3>1, <3>3
  <2> QED BY <2>2, <2>3
<1>10. CASE v = w
  BY <1>10
<1> QED BY <1>1, <1>2, <1>3, <1>4, <1>5, <1>6, <1>7, <1>8, <1>9, <1>10 DEF Received

\* The possessions, as PieceTransfer sees them.
owned == [self \in Clients |-> wire[self].have]

\* A step that changes one client's wire but not what it has.
LEMMA SameOwned ==
  ASSUME wire \in Wires, NEW p \in Clients, NEW v, wire' = [wire EXCEPT ![p] = v], v.have = wire[p].have
  PROVE  owned' = owned
<1>1. \A q \in Clients : wire'[q].have = wire[q].have
  BY DEF Wires
<1> QED BY <1>1 DEF owned

\* The initial possessions are those of PieceTransfer,
LEMMA TransferInit ==
  Init => Transfer!Init
<1> SUFFICES ASSUME Init PROVE owned = InitialHave
  BY DEF Transfer!Init, owned
<1>1. IInv
  BY InitSound
<1>2. ASSUME NEW p \in Clients
      PROVE  wire[p].have = InitialHave[p]
  <2> DEFINE peer == CHOOSE peer \in ConnectTo[p] : TRUE
             f == Fresh(p)
             w == queue_handshake_and_bitfield(f, peer)
  <2>1. wire[p] = IF ConnectTo[p] = {} THEN f ELSE w
    BY DEF Init, WireInit, Fresh
  <2>2. f \in WireState /\ f.have = InitialHave[p]
    BY FreshIs DEF Fresh
  <2>3. CASE ConnectTo[p] = {}
    BY <2>1, <2>2, <2>3
  <2>4. CASE ConnectTo[p] # {}
    <3>1. peer \in Clients
      BY <2>4, SwarmAssumption
    <3> HIDE DEF peer, f
    <3>2. w.have = f.have
      BY <2>2, <3>1, QueueOpening DEF Opens
    <3> QED BY <2>1, <2>2, <2>4, <3>2
  <2> QED BY <2>3, <2>4
<1>3. InitialHave = [p \in Clients |-> InitialHave[p]]
  BY SwarmAssumption
<1> QED BY <1>2, <1>3 DEF owned

\* emitting,
LEMMA TransferEmit ==
  ASSUME IInv, NEW self \in Clients, Emit(self)
  PROVE  owned' = owned
<1>1. wire \in Wires
  BY IInvIs
<1>2. wire' = [wire EXCEPT ![self].out_wire = PopFront(@), ![self].out_obs = PopFront(@)]
  BY DEF Emit, EmitWire
<1>3. \A p \in Clients : wire'[p].have = wire[p].have
  BY <1>1, <1>2 DEF Wires, WireState
<1> QED BY <1>3 DEF owned

\* planning
LEMMA TransferPlan ==
  ASSUME IInv, NEW self \in Clients, Plan(self)
  PROVE  owned' = owned
<1> DEFINE w == wire[self]
           s == selector[self]
           pl == Head(s.pending)
           v == AfterPlan(w, pl)
<1>1. /\ wire \in Wires /\ w \in WireState /\ Good(w) /\ Asks(w)
      /\ s \in SelState /\ SelGood(s) /\ Follows(w, s)
  <2>1. Follows(w, s)
    BY DEF IInv, Sound, Local
  <2> QED BY <2>1, IInvIs
<1>2. s.pending # <<>> /\ wire' = [wire EXCEPT ![self] = v]
  BY <1>1, PlanIs
<1> HIDE DEF s
<1>3. pl \in request_plan /\ PlanFits(s, pl)
  BY <1>1, <1>2, SelPop
<1> HIDE DEF pl
<1>4. v.have = w.have
  <2>1. CASE w.conns[pl.peer].handshake_sent
    <3>1. pl.peer \in Clients
      BY <1>3 DEF request_plan
    <3>2. Len(pl.cancellations) <= 1 /\ ItemsAnnounced(w, pl)
      <4>1. s.peer_bitfields[pl.peer] \subseteq w.conns[pl.peer].peer_bitfield
        BY <1>1, <3>1 DEF Follows
      <4> QED BY <1>3, <4>1 DEF PlanFits, ItemsAnnounced
    <3> HIDE DEF w
    <3> QED BY <1>1, <1>3, <2>1, <3>2, PlanHandledIs DEF AfterPlan
  <2>2. CASE ~w.conns[pl.peer].handshake_sent
    BY <2>2 DEF AfterPlan
  <2> QED BY <2>1, <2>2
<1> HIDE DEF v
<1> QED BY <1>1, <1>2, <1>4, SameOwned

\* and commanding change none,
LEMMA TransferCommand ==
  ASSUME IInv, NEW self \in Clients, NEW peer \in Clients, NEW unchoke \in BOOLEAN,
         Command(self, peer, unchoke)
  PROVE  owned' = owned
<1> DEFINE w == wire[self]
           v == Commanded(w, peer, unchoke)
<1>1. wire \in Wires /\ w \in WireState /\ Good(w)
  BY IInvIs
<1>2. /\ w.conns[peer].handshake_sent /\ w.conns[peer].am_choking = unchoke
      /\ wire' = [wire EXCEPT ![self] = v]
  BY DEF Command, handle_choke_cmd, HasConn, Commanded
<1>3. v.have = w.have
  <2> HIDE DEF w
  <2> QED BY <1>1, <1>2, CommandedIs
<1> HIDE DEF v
<1> QED BY <1>1, <1>2, <1>3, SameOwned

\* and a message that changes them makes its receiver acquire one piece that its
\* sender has.
LEMMA TransferReceive ==
  ASSUME IInv, NEW self \in Clients, NEW src \in Clients, Receive(self, src)
  PROVE  owned' = owned \/ Transfer!Next
<1> DEFINE w == wire[self]
           m == Head(link[src][self])
<1>1. /\ wire \in Wires /\ link \in Links /\ Pairs(wire, link)
      /\ w \in WireState /\ Good(w) /\ Asks(w)
  BY IInvIs
<1>2. /\ link[src][self] # <<>>
      /\ \E v : wire' = [wire EXCEPT ![self] = v] /\ Received(w, src, m, v)
  BY <1>1, ReceiveIs
<1>3. PICK v : wire' = [wire EXCEPT ![self] = v] /\ Received(w, src, m, v)
  BY <1>2
<1>4. m \in WireMsg /\ (m.type # "handshake" => w.conns[src].handshake_received)
  BY <1>1, <1>2, ArrivalIs DEF Arrives
<1>5. v.have = w.have \/ \E x \in w.conns[src].peer_bitfield : v.have = w.have \cup {x}
  BY <1>1, <1>3, <1>4, ReceivedHave
<1>6. CASE v.have = w.have
  BY <1>1, <1>3, <1>6, SameOwned
<1>7. CASE v.have # w.have
  <2>1. PICK x \in w.conns[src].peer_bitfield : v.have = w.have \cup {x}
    BY <1>5, <1>7
  <2>2. x \in wire[src].have /\ x \in Pieces /\ x \notin w.have
    <3>1. w.conns[src].peer_bitfield \subseteq wire[src].have
      BY BelievedHolds
    <3>2. w.conns[src].peer_bitfield \in SUBSET Pieces
      BY <1>1, ConnType
    <3> QED BY <1>7, <2>1, <3>1, <3>2
  <2>3. owned' = [owned EXCEPT ![self] = @ \cup {x}]
    <3>1. \A p \in Clients : wire'[p].have = IF p = self THEN wire[p].have \cup {x} ELSE wire[p].have
      BY <1>1, <1>3, <2>1 DEF Wires
    <3> QED BY <3>1 DEF owned
  <2>4. x \notin owned[self] /\ \E other \in Clients : x \in owned[other]
    BY <2>2 DEF owned
  <2>5. Transfer!Acquire(self, x)
    BY <2>3, <2>4 DEF Transfer!Acquire, owned
  <2> QED BY <2>2, <2>5 DEF Transfer!Next
<1> QED BY <1>6, <1>7

\* So every step is one of PieceTransfer or changes no possession.
LEMMA TransferNext ==
  IInv /\ [Next]_vars => [Transfer!Next]_owned
<1> SUFFICES ASSUME IInv, [Next]_vars PROVE owned' = owned \/ Transfer!Next
  OBVIOUS
<1>1. ASSUME NEW self \in Clients, Emit(self) PROVE owned' = owned
  BY <1>1, TransferEmit
<1>2. ASSUME NEW self \in Clients, Plan(self) PROVE owned' = owned
  BY <1>2, TransferPlan
<1>3. ASSUME NEW self \in Clients, NEW peer \in Clients, Receive(self, peer)
      PROVE  owned' = owned \/ Transfer!Next
  BY <1>3, TransferReceive
<1>4. ASSUME NEW self \in Clients, NEW peer \in Clients, UnchokePeer(self, peer) PROVE owned' = owned
  BY <1>4, TransferCommand DEF UnchokePeer
<1>5. ASSUME NEW self \in Clients, NEW peer \in Clients, ChokePeer(self, peer) PROVE owned' = owned
  BY <1>5, TransferCommand DEF ChokePeer
<1>6. ASSUME UNCHANGED vars PROVE owned' = owned
  BY <1>6 DEF vars, owned
<1> QED BY <1>1, <1>2, <1>3, <1>4, <1>5, <1>6 DEF Next

\* The safety part of ImplementsTransfer: nobody completes a piece nobody has, and
\* none is lost, because a client asks a peer only for what that peer announced
\* (try_plan_for) and a peer announces only what it has.
THEOREM RefinesTransfer ==
  Spec => Transfer!Init /\ [][Transfer!Next]_[self \in Clients |-> wire[self].have]
<1>1. Init => Transfer!Init
  BY TransferInit
<1>2. IInv /\ [Next]_vars => [Transfer!Next]_[self \in Clients |-> wire[self].have]
  BY TransferNext DEF owned
<1> QED BY <1>1, <1>2, InductiveInvariant, PTL DEF Spec

-----------------------------------------------------------------------------
(* The life of a sub-piece at a peer: planned, kept, delivered, cancelled.  *)

\* The plans that ask q for sp, those that cancel it, the observations that say
\* that it has come.
AddsTo(q, sp) == {pl \in request_plan : pl.peer = q /\ Contains(pl.items, sp)}
DropsOf(q, sp) == {pl \in request_plan : pl.peer = q /\ Contains(pl.cancellations, sp)}
Delivers(q, sp) == {o \in Obs : o.kind = "completion" /\ o.peer = q /\ o.sub = sp}
Got(s, sp) == sp[1] \in Started(s) /\ sp[2] \in s.in_progress_pieces[sp[1]]

\* The life of a sub-piece that the selector asks of a peer: planned, then kept by
\* the wire, then delivered; asked says that the selector knows of it, kept how
\* often the wire keeps it.  Once given up, or delivered by another peer, it is
\* cancelled behind its plan.
LifeOf(asked, started, got, kept, adds, drops, comes) ==
  /\ Once(adds) /\ Once(drops) /\ Once(comes)
  /\ \A i \in adds, j \in drops : i < j
  /\ kept <= 1
  /\ adds # {} => kept = 0 /\ comes = {}
  /\ comes # {} => kept = 0
  /\ asked => started /\ ~got /\ drops = {} /\ (adds # {} \/ kept = 1 \/ comes # {})
  /\ ~asked => (adds # {} \/ kept = 1 => drops # {}) /\ (drops # {} \/ comes # {} => got)
Life(w, s, q, sp) ==
  LifeOf(q \in s.requested_from[sp], sp[1] \in Started(s), Got(s, sp),
         KeptCount(w.conns[q], sp), At(s.pending, AddsTo(q, sp)), At(s.pending, DropsOf(q, sp)),
         At(w.out_obs, Delivers(q, sp)))
\* A piece said to be complete is had; no plan asks for a sub-piece twice.
FullOwned(w) ==
  \A i \in 1 .. Len(w.out_obs) :
    w.out_obs[i].kind = "completion" /\ w.out_obs[i].full_piece => w.out_obs[i].sub[1] \in w.have
PlansOnce(s) ==
  \A i \in 1 .. Len(s.pending) : \A sp \in SubPieceId : Count(s.pending[i].items, sp) <= 1
Lives(w, s) ==
  /\ FullOwned(w) /\ PlansOnce(s)
  /\ \A q \in Clients : \A sp \in SubPieceId : sp[1] \notin w.have => Life(w, s, q, sp)

\* The oldest plan has been handled: what it adds is kept, what it drops is not.
LEMMA LifePop ==
  ASSUME NEW A \in Places, NEW A2 \in Places, Shifted(A, A2),
         NEW D \in Places, NEW D2 \in Places, Shifted(D, D2), NEW C \in Places,
         NEW asked \in BOOLEAN, NEW started \in BOOLEAN, NEW got \in BOOLEAN,
         NEW k \in Nat, NEW j \in Nat,
         LifeOf(asked, started, got, k, A, D, C),
         1 \in D /\ 1 \notin A => j = 0,
         1 \in A /\ 1 \notin D => j = k + 1,
         1 \notin A /\ 1 \notin D => j = k
  PROVE  LifeOf(asked, started, got, j, A2, D2, C)
<1>1. /\ Once(A) /\ Once(D) /\ Once(C) /\ \A i \in A, n \in D : i < n
      /\ k <= 1 /\ (A # {} => k = 0 /\ C = {}) /\ (C # {} => k = 0)
      /\ asked => started /\ ~got /\ D = {} /\ (A # {} \/ k = 1 \/ C # {})
      /\ ~asked => (A # {} \/ k = 1 => D # {}) /\ (D # {} \/ C # {} => got)
  BY DEF LifeOf
<1>2. Once(A2) /\ Once(D2)
  BY <1>1, ShiftedIs
<1>3. \A i \in A2, n \in D2 : i < n
  <2>1. ASSUME NEW i \in A2, NEW n \in D2 PROVE i < n
    <3>1. i + 1 \in A /\ n + 1 \in D /\ i \in Nat /\ n \in Nat
      BY DEF Shifted, Places
    <3>2. i + 1 < n + 1
      BY <1>1, <3>1
    <3> QED BY <3>1, <3>2
  <2> QED BY <2>1
<1>4. CASE 1 \in A
  <2>1. 1 \notin D
    BY <1>1, <1>4
  <2>2. A2 = {} /\ (D2 = {} <=> D = {})
    BY <1>1, <1>4, <2>1, ShiftedIs
  <2>3. k = 0 /\ C = {} /\ j = 1 /\ A # {}
    BY <1>1, <1>4, <2>1
  <2> QED BY <1>1, <1>2, <1>3, <2>2, <2>3 DEF LifeOf
<1>5. CASE 1 \in D
  <2>1. A = {}
    <3>1. ASSUME NEW i \in A PROVE FALSE
      <4>1. i < 1 /\ i \in Nat \ {0}
        BY <1>1, <1>5 DEF Places
      <4> QED BY <4>1
    <3> QED BY <3>1
  <2>2. A2 = {} /\ D2 = {} /\ D # {} /\ j = 0
    BY <1>1, <1>5, <2>1, ShiftedIs
  <2> QED BY <1>1, <1>2, <1>3, <2>1, <2>2 DEF LifeOf
<1>6. CASE 1 \notin A /\ 1 \notin D
  <2>1. (A2 = {} <=> A = {}) /\ (D2 = {} <=> D = {}) /\ j = k
    BY <1>6, ShiftedIs
  <2> QED BY <1>1, <1>2, <1>3, <2>1 DEF LifeOf
<1> QED BY <1>4, <1>5, <1>6

\* The selector learns of the delivery of another sub-piece.
LEMMA LifeElse ==
  ASSUME NEW A \in Places, NEW D \in Places, NEW C \in Places, NEW C2 \in Places,
         Shifted(C, C2), 1 \notin C,
         NEW asked \in BOOLEAN, NEW started \in BOOLEAN, NEW got \in BOOLEAN, NEW k \in Nat,
         NEW started2 \in BOOLEAN, started => started2,
         LifeOf(asked, started, got, k, A, D, C)
  PROVE  LifeOf(asked, started2, got, k, A, D, C2)
<1>1. Once(C2) /\ (C2 = {} <=> C = {})
  BY ShiftedIs DEF LifeOf
<1> QED BY <1>1 DEF LifeOf

\* The selector asks q.
LEMMA LifeAsk ==
  ASSUME NEW A \in Places, NEW D \in Places, NEW C \in Places, NEW n \in Nat \ {0},
         NEW started \in BOOLEAN, NEW k \in Nat,
         LifeOf(FALSE, started, FALSE, k, A, D, C)
  PROVE  LifeOf(TRUE, TRUE, FALSE, k, A \cup {n}, D, C)
<1>1. A = {} /\ D = {} /\ C = {} /\ k = 0
  BY DEF LifeOf
<1>2. Once({n}) /\ Once({})
  BY DEF Once
<1> QED BY <1>1, <1>2 DEF LifeOf

\* q has delivered what the wire keeps.
LEMMA LifeDeliver ==
  ASSUME NEW A \in Places, NEW D \in Places, NEW C \in Places, NEW n \in Nat \ {0},
         NEW asked \in BOOLEAN, NEW started \in BOOLEAN, NEW got \in BOOLEAN,
         NEW k \in Nat, k > 0,
         LifeOf(asked, started, got, k, A, D, C)
  PROVE  LifeOf(asked, started, got, k - 1, A, D, C \cup {n})
<1>1. k = 1 /\ A = {} /\ C = {}
  BY DEF LifeOf
<1>2. Once({n}) /\ Once({}) /\ k - 1 = 0
  BY <1>1 DEF Once
<1> QED BY <1>1, <1>2 DEF LifeOf

-----------------------------------------------------------------------------
(* What a connection keeps.                                                 *)

\* What each change of a connection does to what it keeps.
SameKept(c, d) == \A sp \in SubPieceId : KeptCount(d, sp) = KeptCount(c, sp)

\* A step of the wire keeps it,
LEMMA StepKeeps ==
  ASSUME NEW w \in WireState, NEW v \in WireState, WireStep(w, v), NEW q \in Clients
  PROVE  SameKept(w.conns[q], v.conns[q]) /\ w.have \subseteq v.have
  BY DEF WireStep, Sends, SameKept

\* so does a choke, which puts requests back into the plan,
LEMMA ChokedKeeps ==
  ASSUME NEW c \in conn
  PROVE  SameKept(c, Choked(c))
<1> DEFINE o == c.outstanding
           a == c.planned
           d == Choked(c)
<1>1. o \in Seq(SubPieceId) /\ a \in Seq(SubPieceId)
  BY DEF conn
<1>2. d.planned = o \o a /\ d.outstanding = <<>>
  BY DEF Choked, conn
<1> HIDE DEF o, a, d
<1>3. ASSUME NEW sp \in SubPieceId
      PROVE  Count(<<>>, sp) + Count(o \o a, sp) = Count(o, sp) + Count(a, sp)
  <2>1. Count(<<>>, sp) = 0 /\ Count(o \o a, sp) = Count(o, sp) + Count(a, sp)
    BY <1>1, CountEmpty, CountConcat
  <2>2. Count(o, sp) \in Nat /\ Count(a, sp) \in Nat
    BY <1>1, CountType
  <2> QED BY <2>1, <2>2
<1> QED BY <1>2, <1>3 DEF SameKept, KeptCount, o, a, d

\* The other changes leave both sequences.
LEMMA FlagsKeep ==
  ASSUME NEW c \in conn, NEW b, NEW bits
  PROVE  /\ SameKept(c, Unchoked(c)) /\ SameKept(c, Interested(c, b))
         /\ SameKept(c, Announced(c, bits)) /\ SameKept(c, Greeted(c)) /\ SameKept(c, Opened(c))
<1> DEFINE Same(d) == d.outstanding = c.outstanding /\ d.planned = c.planned
<1>1. /\ Same(Unchoked(c)) /\ Same(Interested(c, b)) /\ Same(Announced(c, bits))
      /\ Same(Greeted(c)) /\ Same(Opened(c))
  BY DEF conn, Unchoked, Interested, Announced, Greeted, Opened
<1>2. \A d : Same(d) => SameKept(c, d)
  BY DEF SameKept, KeptCount
<1> HIDE DEF Same
<1> QED BY <1>1, <1>2

\* A delivered sub-piece is kept once less.
LEMMA DeliveredKeeps ==
  ASSUME NEW c \in conn, NEW sp \in SubPieceId, Contains(c.outstanding, sp), NEW x \in SubPieceId
  PROVE  /\ KeptCount(Delivered(c, sp), x) = KeptCount(c, x) - (IF x = sp THEN 1 ELSE 0)
         /\ KeptCount(c, sp) > 0
<1> DEFINE o == c.outstanding
           a == c.planned
           d == Delivered(c, sp)
<1>1. o \in Seq(SubPieceId) /\ a \in Seq(SubPieceId) /\ Contains(o, sp)
  BY DEF conn
<1>2. d.planned = a /\ d.outstanding = RemoveFirst(o, sp)
  BY DeliveredType
<1> HIDE DEF o, a, d
<1>3. Count(RemoveFirst(o, sp), x) = Count(o, x) - (IF sp = x THEN 1 ELSE 0)
  BY <1>1, CountRemoveFirst
<1>4. Count(o, sp) > 0
  BY <1>1, CountContains
<1>5. Count(o, x) \in Nat /\ Count(a, x) \in Nat /\ Count(o, sp) \in Nat /\ Count(a, sp) \in Nat
  BY <1>1, CountType
<1> QED BY <1>2, <1>3, <1>4, <1>5 DEF KeptCount, o, a, d

\* A cancelled sub-piece is kept once less if it was kept.
LEMMA CancelOneKeeps ==
  ASSUME NEW w \in WireState, NEW peer \in Clients, NEW sp \in SubPieceId
  PROVE  LET v == CancelOne(peer, w, sp)
         IN  /\ \A q \in Clients \ {peer} : v.conns[q] = w.conns[q]
             /\ \A x \in SubPieceId : KeptCount(v.conns[peer], x) =
                  KeptCount(w.conns[peer], x) - (IF x = sp /\ KeptCount(w.conns[peer], sp) > 0 THEN 1 ELSE 0)
<1> DEFINE c == w.conns[peer]
           o == c.outstanding
           a == c.planned
           v == CancelOne(peer, w, sp)
<1>1. c \in conn /\ o \in Seq(SubPieceId) /\ a \in Seq(SubPieceId)
  BY ConnType
<1>2. \A x : Count(o, x) \in Nat /\ Count(a, x) \in Nat
  BY <1>1, CountType
<1>3. CASE Contains(a, sp)
  <2> DEFINE r == RemoveFirst(a, sp)
             d == [c EXCEPT !.planned = r]
  <2>1. r \in Seq(SubPieceId) /\ \A x : Count(r, x) = Count(a, x) - (IF sp = x THEN 1 ELSE 0)
    <3> HIDE DEF a
    <3> QED BY <1>1, <1>3, CountRemoveFirst
  <2>2. Count(a, sp) > 0
    <3> HIDE DEF a
    <3> QED BY <1>1, <1>3, CountContains
  <2>3. v.conns = [w.conns EXCEPT ![peer] = d]
    BY <1>3 DEF CancelOne, WireState
  <2>4. d.outstanding = o /\ d.planned = r
    BY <1>1 DEF conn
  <2> HIDE DEF d, r, v
  <2>5. v.conns[peer] = d /\ \A q \in Clients \ {peer} : v.conns[q] = w.conns[q]
    BY <2>3, ConnType
  <2> HIDE DEF o, a
  <2> QED BY <1>2, <2>1, <2>2, <2>4, <2>5 DEF KeptCount, v, o, a
<1>4. CASE ~Contains(a, sp) /\ Contains(o, sp)
  <2> DEFINE r == RemoveFirst(o, sp)
             d == [c EXCEPT !.outstanding = r]
  <2>1. r \in Seq(SubPieceId) /\ \A x : Count(r, x) = Count(o, x) - (IF sp = x THEN 1 ELSE 0)
    <3> HIDE DEF o
    <3> QED BY <1>1, <1>4, CountRemoveFirst
  <2>2. Count(o, sp) > 0
    <3> HIDE DEF o
    <3> QED BY <1>1, <1>4, CountContains
  <2>3. v.conns = [w.conns EXCEPT ![peer] = d]
    BY <1>4 DEF CancelOne, WireState, queue_to
  <2>4. d.outstanding = r /\ d.planned = a
    BY <1>1 DEF conn
  <2> HIDE DEF d, r, v
  <2>5. v.conns[peer] = d /\ \A q \in Clients \ {peer} : v.conns[q] = w.conns[q]
    BY <2>3, ConnType
  <2> HIDE DEF o, a
  <2> QED BY <1>2, <2>1, <2>2, <2>4, <2>5 DEF KeptCount, v, o, a
<1>5. CASE ~Contains(a, sp) /\ ~Contains(o, sp)
  <2>1. v = w
    BY <1>5 DEF CancelOne
  <2>2. ~(Count(a, sp) > 0) /\ ~(Count(o, sp) > 0)
    <3> HIDE DEF a, o
    <3> QED BY <1>1, <1>5, CountContains
  <2>3. ~(KeptCount(c, sp) > 0)
    <3>1. Count(a, sp) \in Nat /\ Count(o, sp) \in Nat
      BY <1>2
    <3> HIDE DEF a, o
    <3> QED BY <2>2, <3>1 DEF KeptCount, a, o
  <2>4. \A x : KeptCount(c, x) \in Nat
    BY <1>1, KeptCountType
  <2> HIDE DEF v, c
  <2> QED BY <2>1, <2>3, <2>4 DEF v, c
<1> QED BY <1>3, <1>4, <1>5

\* What the cancellations of a plan change of what is kept.
LEMMA CancelledKeeps ==
  ASSUME NEW w \in WireState, NEW peer \in Clients, NEW cs \in Seq(SubPieceId), Len(cs) <= 1
  PROVE  LET v == Cancelled(peer, w, cs)
         IN  /\ \A q \in Clients \ {peer} : v.conns[q] = w.conns[q]
             /\ \A x \in SubPieceId : KeptCount(v.conns[peer], x) = KeptCount(w.conns[peer], x)
                  - (IF Contains(cs, x) /\ KeptCount(w.conns[peer], x) > 0 THEN 1 ELSE 0)
<1> DEFINE v == Cancelled(peer, w, cs)
           c == w.conns[peer]
<1>0. Len(cs) \in Nat /\ DOMAIN cs = 1 .. Len(cs) /\ \A i \in 1 .. Len(cs) : cs[i] \in SubPieceId
  OBVIOUS
<1>1. \A x : KeptCount(c, x) \in Nat
  BY ConnType, KeptCountType
<1>2. CASE Len(cs) = 0
  <2>1. v = w
    <3>1. DOMAIN cs = {}
      BY <1>0, <1>2
    <3> QED BY <3>1, CancelledNone
  <2>2. \A x : ~Contains(cs, x)
    BY <1>0, <1>2 DEF Contains
  <2> HIDE DEF v, c
  <2> QED BY <1>1, <2>1, <2>2 DEF v, c
<1>3. CASE Len(cs) = 1
  <2>1. v = CancelOne(peer, w, cs[1])
    <3>1. DOMAIN cs = {1}
      BY <1>0, <1>3
    <3> QED BY <3>1, CancelledOne
  <2>2. cs[1] \in SubPieceId /\ \A x : Contains(cs, x) <=> x = cs[1]
    BY <1>0, <1>3 DEF Contains
  <2> HIDE DEF v
  <2>3. /\ \A q \in Clients \ {peer} : v.conns[q] = w.conns[q]
        /\ \A x \in SubPieceId : KeptCount(v.conns[peer], x) =
             KeptCount(c, x) - (IF x = cs[1] /\ KeptCount(c, cs[1]) > 0 THEN 1 ELSE 0)
    BY <2>1, <2>2, CancelOneKeeps
  <2>4. ASSUME NEW x \in SubPieceId
        PROVE  KeptCount(v.conns[peer], x) = KeptCount(c, x)
                 - (IF Contains(cs, x) /\ KeptCount(c, x) > 0 THEN 1 ELSE 0)
    <3>1. KeptCount(v.conns[peer], x) =
            KeptCount(c, x) - (IF x = cs[1] /\ KeptCount(c, cs[1]) > 0 THEN 1 ELSE 0)
      BY <2>3
    <3>2. Contains(cs, x) <=> x = cs[1]
      BY <2>2
    <3> QED BY <3>1, <3>2
  <2> QED BY <2>3, <2>4 DEF v
<1> QED BY <1>0, <1>2, <1>3

\* What a plan changes of what is kept.
LEMMA PlanKeeps ==
  ASSUME NEW w \in WireState, Good(w), Asks(w), NEW pl \in request_plan,
         Len(pl.cancellations) <= 1, ItemsAnnounced(w, pl), w.conns[pl.peer].handshake_sent,
         NEW x \in SubPieceId
  PROVE  LET v == PlanHandled(w, pl)
             c == w.conns[pl.peer]
         IN  /\ \A q \in Clients \ {pl.peer} : KeptCount(v.conns[q], x) = KeptCount(w.conns[q], x)
             /\ KeptCount(v.conns[pl.peer], x) = KeptCount(c, x)
                  - (IF Contains(pl.cancellations, x) /\ KeptCount(c, x) > 0 THEN 1 ELSE 0)
                  + Count(pl.items, x)
<1> DEFINE peer == pl.peer
           items == pl.items
           x2 == Cancelled(peer, w, pl.cancellations)
           c == x2.conns[peer]
           d == Planned(c, items)
           x3 == WithConn(x2, peer, d)
           v == fill_pipeline(x3, peer)
<1>1. peer \in Clients /\ items \in Seq(SubPieceId) /\ pl.cancellations \in Seq(SubPieceId)
  BY DEF request_plan
<1>2. v = PlanHandled(w, pl)
  BY DEF PlanHandled
<1>20. v \in WireState
  BY <1>2, PlanHandledIs
<1>3. x2 \in WireState /\ Good(x2) /\ SameSeen(w.conns[peer], x2.conns[peer])
  BY <1>1, CancelledIs
<1>4. /\ \A q \in Clients \ {peer} : x2.conns[q] = w.conns[q]
      /\ KeptCount(c, x) = KeptCount(w.conns[peer], x)
           - (IF Contains(pl.cancellations, x) /\ KeptCount(w.conns[peer], x) > 0 THEN 1 ELSE 0)
  BY <1>1, CancelledKeeps
<1> HIDE DEF x2
<1>5. c \in conn /\ ConnGood(c) /\ c.handshake_sent /\ c.planned \in Seq(SubPieceId)
      /\ c.outstanding \in Seq(SubPieceId)
  BY <1>1, <1>3, ConnType DEF Good, GoodBut, SameSeen
<1>6. /\ d \in conn /\ SameSeen(c, d) /\ d.outstanding = c.outstanding
      /\ d.planned = c.planned \o items
  <2>1. c.planned \o items \in Seq(SubPieceId)
    <3> DEFINE s == c.planned
    <3>1. s \in Seq(SubPieceId)
      BY <1>5
    <3> HIDE DEF s, items
    <3>2. s \o items \in Seq(SubPieceId)
      BY <1>1, <3>1
    <3> QED BY <3>2 DEF s
  <2> HIDE DEF items, c
  <2> QED BY <1>5, <2>1 DEF conn, SameSeen, Planned
<1> HIDE DEF d
<1>7. KeptCount(d, x) = KeptCount(c, x) + Count(items, x)
  <2> DEFINE s == c.planned
  <2>1. s \in Seq(SubPieceId)
    BY <1>5
  <2> HIDE DEF s, items
  <2>2. Count(s \o items, x) = Count(s, x) + Count(items, x)
    BY <1>1, <2>1, CountConcat
  <2>3. Count(s, x) \in Nat /\ Count(items, x) \in Nat /\ Count(c.outstanding, x) \in Nat
    BY <1>1, <1>5, <2>1, CountType
  <2> HIDE DEF c
  <2>4. KeptCount(c, x) = Count(c.outstanding, x) + Count(s, x)
    BY DEF KeptCount, s
  <2>5. KeptCount(d, x) = Count(c.outstanding, x) + Count(s \o items, x)
    BY <1>6 DEF KeptCount, s
  <2> QED BY <2>2, <2>3, <2>4, <2>5
<1> HIDE DEF items, c
<1>8. /\ x3 \in WireState /\ x3.conns[peer] = d
      /\ \A q \in Clients \ {peer} : x3.conns[q] = x2.conns[q]
  BY <1>1, <1>3, <1>6, WithConnIs
<1>9. Len(d.outstanding) <= PipelineDepth /\ d.handshake_sent
  BY <1>5, <1>6 DEF ConnGood, SameSeen
<1> HIDE DEF x3
<1>10. WireStep(x3, v)
  BY <1>1, <1>8, <1>9, StepFill
<1> HIDE DEF v
<1>11. \A q \in Clients : KeptCount(v.conns[q], x) = KeptCount(x3.conns[q], x)
  BY <1>8, <1>10, <1>20, StepKeeps DEF SameKept
<1>12. \A q \in Clients \ {peer} : KeptCount(v.conns[q], x) = KeptCount(w.conns[q], x)
  BY <1>4, <1>8, <1>11
<1>13. KeptCount(v.conns[peer], x) = KeptCount(c, x) + Count(items, x)
  BY <1>1, <1>7, <1>8, <1>11
<1> QED BY <1>2, <1>4, <1>12, <1>13 DEF items

\* Which plans a selector adds, for q and x.
LEMMA AskedPlan ==
  ASSUME NEW s \in SelState, NEW v, NEW peer \in Clients, NEW p, NEW subs, AsksFor(s, v, peer, p, subs)
  PROVE  \E pl \in request_plan :
           /\ v.pending = Append(s.pending, pl)
           /\ \A q \in Clients : \A x \in SubPieceId :
                /\ pl \in AddsTo(q, x) <=> q = peer /\ x[1] = p /\ x[2] \in subs
                /\ pl \notin DropsOf(q, x)
           /\ \A x \in SubPieceId : Count(pl.items, x) <= 1
<1>1. PICK pl \in request_plan :
       /\ v.pending = Append(s.pending, pl)
       /\ pl.peer = peer /\ pl.cancellations = <<>>
       /\ \A i \in 1 .. Len(pl.items) : pl.items[i][1] = p /\ pl.items[i][2] \in subs
       /\ \A k \in subs : \E i \in 1 .. Len(pl.items) :
            pl.items[i][2] = k /\ \A j \in 1 .. Len(pl.items) : pl.items[j][2] = k => j = i
  BY DEF AsksFor
<1> DEFINE items == pl.items
<1>2. items \in Seq(SubPieceId) /\ \A i \in 1 .. Len(items) : items[i] \in Pieces \X SubPieces
  BY DEF request_plan, SubPieceId
<1>3. /\ \A i \in 1 .. Len(items) : items[i][1] = p /\ items[i][2] \in subs
      /\ \A k \in subs : \E i \in 1 .. Len(items) :
            items[i][2] = k /\ \A j \in 1 .. Len(items) : items[j][2] = k => j = i
  BY <1>1
<1> HIDE DEF items
<1>4. ASSUME NEW x \in SubPieceId
      PROVE  Contains(items, x) <=> x[1] = p /\ x[2] \in subs
  <2>1. x \in Pieces \X SubPieces
    BY DEF SubPieceId
  <2>2. ASSUME Contains(items, x) PROVE x[1] = p /\ x[2] \in subs
    BY <1>3, <2>2 DEF Contains
  <2>3. ASSUME x[1] = p, x[2] \in subs PROVE Contains(items, x)
    <3>1. PICK i \in 1 .. Len(items) : items[i][2] = x[2]
      BY <1>3, <2>3
    <3>2. items[i] = x
      BY <1>2, <1>3, <2>1, <2>3, <3>1
    <3> QED BY <3>2 DEF Contains
  <2> QED BY <2>2, <2>3
<1>5. ASSUME NEW x \in SubPieceId
      PROVE  Count(items, x) <= 1
  <2> DEFINE I == {i \in 1 .. Len(items) : items[i] = x}
  <2>1. \A i, j \in I : i = j
    <3>1. ASSUME NEW i \in I, NEW j \in I PROVE i = j
      <4>1. i \in 1 .. Len(items) /\ j \in 1 .. Len(items) /\ items[i] = x /\ items[j] = x
        OBVIOUS
      <4>2. x[2] \in subs
        BY <1>3, <4>1
      <4> QED BY <1>3, <4>1, <4>2
    <3> QED BY <3>1
  <2>2. I = {} \/ \E i \in I : I = {i}
    <3> HIDE DEF I
    <3> QED BY <2>1
  <2>3. Cardinality(I) <= 1
    <3> HIDE DEF I
    <3>1. Cardinality({}) = 0 /\ \A i : Cardinality({i}) = 1
      BY FS_EmptySet, FS_Singleton
    <3> QED BY <2>2, <3>1
  <2> QED BY <2>3 DEF Count
<1>6. \A x : ~Contains(<<>>, x)
  BY DEF Contains
<1>7. pl.items = items
  BY DEF items
<1>8. ASSUME NEW q \in Clients, NEW x \in SubPieceId
      PROVE  /\ pl \in AddsTo(q, x) <=> q = peer /\ x[1] = p /\ x[2] \in subs
             /\ pl \notin DropsOf(q, x)
  BY <1>1, <1>4, <1>6, <1>7 DEF AddsTo, DropsOf
<1> QED BY <1>1, <1>5, <1>7, <1>8

\* One plan more for each other peer asked for sp, that cancels sp.
CancelsAt(s, v, peer, sp) ==
  \E more \in Seq(request_plan) :
    /\ v.pending = s.pending \o more
    /\ \A q \in Clients : \A x \in SubPieceId :
         /\ At(more, AddsTo(q, x)) = {}
         /\ IF x = sp /\ q # peer /\ q \in s.requested_from[sp]
            THEN \E n \in Nat \ {0} : At(more, DropsOf(q, x)) = {n}
            ELSE At(more, DropsOf(q, x)) = {}
    /\ \A i \in 1 .. Len(more) : \A x \in SubPieceId : Count(more[i].items, x) <= 1

\* A completion adds those plans.
LEMMA CancelPlans ==
  ASSUME NEW s \in SelState, NEW v \in SelState, NEW peer \in Clients, NEW sp \in SubPieceId,
         NEW full \in BOOLEAN,
         Completes(s, v, peer, sp, full)
  PROVE  CancelsAt(s, v, peer, sp)
<1> DEFINE O == s.requested_from[sp] \ {peer}
<1>1. PICK more \in Seq(request_plan) :
           /\ v.pending = s.pending \o more
           /\ \A i \in 1 .. Len(more) :
                more[i].peer \in O /\ more[i].items = <<>> /\ more[i].cancellations = <<sp>>
           /\ \A q \in O : \E i \in 1 .. Len(more) :
                more[i].peer = q /\ \A j \in 1 .. Len(more) : more[j].peer = q => j = i
  BY DEF Completes
<1> HIDE DEF O
<1>2. (\A x : ~Contains(<<>>, x)) /\ \A x : Contains(<<sp>>, x) <=> x = sp
  BY DEF Contains
<1>3. ASSUME NEW q \in Clients, NEW x \in SubPieceId
      PROVE  /\ At(more, AddsTo(q, x)) = {}
             /\ IF x = sp /\ q \in O
                THEN \E n \in Nat \ {0} : At(more, DropsOf(q, x)) = {n}
                ELSE At(more, DropsOf(q, x)) = {}
  <2>1. \A i \in 1 .. Len(more) : more[i] \in request_plan
    OBVIOUS
  <2>2. At(more, AddsTo(q, x)) = {}
    BY <1>1, <1>2 DEF At, AddsTo
  <2>3. \A i \in 1 .. Len(more) : more[i] \in DropsOf(q, x) <=> more[i].peer = q /\ x = sp
    <3>1. ASSUME NEW i \in 1 .. Len(more)
          PROVE  more[i] \in DropsOf(q, x) <=> more[i].peer = q /\ x = sp
      <4>1. more[i] \in request_plan /\ more[i].cancellations = <<sp>>
        BY <1>1, <2>1
      <4>2. Contains(more[i].cancellations, x) <=> x = sp
        BY <1>2, <4>1
      <4> QED BY <4>1, <4>2 DEF DropsOf
    <3> QED BY <3>1
  <2>4. CASE x = sp /\ q \in O
    <3>1. PICK n \in 1 .. Len(more) :
            more[n].peer = q /\ \A j \in 1 .. Len(more) : more[j].peer = q => j = n
      BY <1>1, <2>4
    <3>2. At(more, DropsOf(q, x)) = {n} /\ n \in Nat \ {0}
      BY <2>3, <2>4, <3>1 DEF At
    <3> QED BY <2>2, <2>4, <3>2
  <2>5. CASE ~(x = sp /\ q \in O)
    <3>1. At(more, DropsOf(q, x)) = {}
      BY <1>1, <2>3, <2>5 DEF At
    <3> QED BY <2>2, <2>5, <3>1
  <2> QED BY <2>4, <2>5
<1>4. ASSUME NEW i \in 1 .. Len(more), NEW x \in SubPieceId
      PROVE  Count(more[i].items, x) <= 1
  <2>1. Count(<<>>, x) = 0
    BY CountEmpty
  <2> QED BY <1>1, <2>1
<1>5. \A q : q \in O <=> q # peer /\ q \in s.requested_from[sp]
  BY DEF O
<1> QED BY <1>1, <1>3, <1>4, <1>5 DEF CancelsAt

\* What a completion changes of what has started and what has been delivered.
LEMMA CompletionGets ==
  ASSUME NEW s \in SelState, NEW v \in SelState, NEW peer \in Clients, NEW sp \in SubPieceId,
         NEW full \in BOOLEAN, Completes(s, v, peer, sp, full), NEW x \in SubPieceId, full => x[1] # sp[1]
  PROVE  /\ x[1] \in Started(s) => x[1] \in Started(v)
         /\ x # sp => (Got(v, x) <=> Got(s, x))
         /\ x = sp => x[1] \in Started(v) /\ Got(v, x)
<1> DEFINE f == s.in_progress_pieces
           p == sp[1]
           before == IF p \in DOMAIN f THEN f[p] ELSE {}
<1>1. v.in_progress_pieces = IF full THEN [y \in DOMAIN f \ {p} |-> f[y]]
                             ELSE Put(f, p, before \cup {sp[2]})
  BY DEF Completes, Started
<1>2. x \in Pieces \X SubPieces /\ sp \in Pieces \X SubPieces
  BY DEF SubPieceId
<1>3. x = sp <=> x[1] = sp[1] /\ x[2] = sp[2]
  BY <1>2
<1>4. CASE full
  <2>1. v.in_progress_pieces = [y \in DOMAIN f \ {p} |-> f[y]] /\ x[1] # p /\ x # sp
    BY <1>1, <1>4
  <2> HIDE DEF f, p
  <2> QED BY <2>1 DEF Started, Got, f
<1>5. CASE ~full
  <2> DEFINE S == before \cup {sp[2]}
  <2>1. v.in_progress_pieces = [y \in DOMAIN f \cup {p} |-> IF y = p THEN S ELSE f[y]]
    BY <1>1, <1>5 DEF Put
  <2>2. x[1] = p => (x[2] \in S <=> x = sp \/ (p \in DOMAIN f /\ x[2] \in f[p]))
    BY <1>3
  <2> HIDE DEF f, S
  <2> QED BY <1>3, <2>1, <2>2 DEF Started, Got, f
<1> QED BY <1>4, <1>5

-----------------------------------------------------------------------------
(* Each step keeps the lives of the sub-pieces.                             *)

\* The types of what Life speaks of.
LEMMA LifeTypes ==
  ASSUME NEW w \in WireState, NEW s \in SelState, NEW q \in Clients, NEW x \in SubPieceId
  PROVE  /\ At(s.pending, AddsTo(q, x)) \in Places /\ At(s.pending, DropsOf(q, x)) \in Places
         /\ At(w.out_obs, Delivers(q, x)) \in Places
         /\ KeptCount(w.conns[q], x) \in Nat
         /\ Got(s, x) \in BOOLEAN
<1>1. s.pending \in Seq(request_plan) /\ w.out_obs \in Seq(Obs) /\ w.conns[q] \in conn
  BY SelType, ConnType
<1>2. At(s.pending, AddsTo(q, x)) \in Places /\ At(s.pending, DropsOf(q, x)) \in Places
  BY <1>1, AtType
<1>3. At(w.out_obs, Delivers(q, x)) \in Places
  BY <1>1, AtType
<1>4. KeptCount(w.conns[q], x) \in Nat
  BY <1>1, KeptCountType
<1> QED BY <1>2, <1>3, <1>4 DEF Got

\* A step that neither tells of a delivery nor changes what is kept.
LEMMA LivesQuiet ==
  ASSUME NEW w, NEW v, NEW s, NEW t, Lives(w, s),
         v.out_obs = w.out_obs, w.have \subseteq v.have,
         \A q \in Clients : SameKept(w.conns[q], v.conns[q]),
         t.pending = s.pending, t.requested_from = s.requested_from,
         t.in_progress_pieces = s.in_progress_pieces
  PROVE  Lives(v, t)
<1>1. FullOwned(v) /\ PlansOnce(t)
  BY DEF Lives, FullOwned, PlansOnce
<1>2. ASSUME NEW q \in Clients, NEW x \in SubPieceId, x[1] \notin v.have
      PROVE  Life(v, t, q, x)
  <2>1. Life(w, s, q, x)
    BY <1>2 DEF Lives
  <2>2. KeptCount(v.conns[q], x) = KeptCount(w.conns[q], x)
    BY DEF SameKept
  <2> QED BY <2>1, <2>2 DEF Life, Started, Got
<1> QED BY <1>1, <1>2 DEF Lives

\* One more observation is told.
LEMMA OwnedAppend ==
  ASSUME NEW w \in WireState, NEW v, NEW o \in Obs, FullOwned(w), v.out_obs = Append(w.out_obs, o),
         w.have \subseteq v.have, o.kind = "completion" /\ o.full_piece => o.sub[1] \in v.have
  PROVE  FullOwned(v)
<1> DEFINE a == w.out_obs
<1>1. a \in Seq(Obs)
  BY ConnType DEF WireState
<1> HIDE DEF a
<1>2. /\ Len(Append(a, o)) = Len(a) + 1 /\ Len(a) \in Nat /\ Append(a, o)[Len(a) + 1] = o
      /\ \A i \in 1 .. Len(a) : Append(a, o)[i] = a[i]
  BY <1>1
<1>3. ASSUME NEW i \in 1 .. Len(v.out_obs), v.out_obs[i].kind = "completion", v.out_obs[i].full_piece
      PROVE  v.out_obs[i].sub[1] \in v.have
  <2>1. CASE i \in 1 .. Len(a)
    <3>1. v.out_obs[i] = a[i]
      BY <1>2, <2>1 DEF a
    <3> QED BY <1>3, <2>1, <3>1 DEF FullOwned, a
  <2>2. CASE i \notin 1 .. Len(a)
    <3>1. v.out_obs = Append(a, o)
      BY DEF a
    <3>2. i = Len(a) + 1
      BY <1>2, <2>2, <3>1
    <3>3. v.out_obs[i] = o
      BY <1>2, <3>1, <3>2
    <3> QED BY <1>3, <3>3
  <2> QED BY <2>1, <2>2
<1> QED BY <1>3 DEF FullOwned

\* An observation that is no delivery,
LEMMA LivesTell ==
  ASSUME NEW w \in WireState, NEW v, NEW s, Lives(w, s),
         NEW o \in Obs, o.kind # "completion", v.out_obs = Append(w.out_obs, o), v.have = w.have,
         \A q \in Clients : SameKept(w.conns[q], v.conns[q])
  PROVE  Lives(v, s)
<1>1. FullOwned(v) /\ PlansOnce(s)
  BY OwnedAppend DEF Lives
<1>2. ASSUME NEW q \in Clients, NEW x \in SubPieceId, x[1] \notin v.have
      PROVE  Life(v, s, q, x)
  <2>1. Life(w, s, q, x)
    BY <1>2 DEF Lives
  <2>2. KeptCount(v.conns[q], x) = KeptCount(w.conns[q], x)
    BY DEF SameKept
  <2>3. At(v.out_obs, Delivers(q, x)) = At(w.out_obs, Delivers(q, x))
    <3>1. w.out_obs \in Seq(Obs) /\ o \notin Delivers(q, x)
      BY ConnType DEF Delivers
    <3> QED BY <3>1, AtAppend
  <2> QED BY <2>1, <2>2, <2>3 DEF Life
<1> QED BY <1>1, <1>2 DEF Lives

\* A sub-piece that was waited for is delivered.
LEMMA LivesPiece ==
  ASSUME NEW w \in WireState, Good(w), NEW s \in SelState, Lives(w, s),
         NEW src \in Clients, NEW sp \in SubPieceId,
         w.conns[src].handshake_received, Contains(w.conns[src].outstanding, sp)
  PROVE  Lives(OnPiece(w, src, sp), s)
<1> DEFINE c == w.conns[src]
           v1 == WithConn(w, src, Delivered(c, sp))
           v == OnPiece(w, src, sp)
           full == v1.conns[src].in_progress[sp[1]] = SubPieces
           o == obs_completion(src, sp, full)
<1>1. /\ v1 \in WireState /\ v \in WireState /\ WireStep(v1, v)
      /\ v.have = IF full THEN w.have \cup {sp[1]} ELSE w.have
      /\ full \in BOOLEAN
      /\ v.out_obs = Append(w.out_obs, o)
  BY OnPieceIs
<1>2. c \in conn /\ w.out_obs \in Seq(Obs)
  BY ConnType
<1>3. v1.conns[src] = Delivered(c, sp) /\ \A q \in Clients \ {src} : v1.conns[q] = w.conns[q]
  <2>1. Delivered(c, sp) \in conn
    BY <1>2, DeliveredType
  <2> QED BY <2>1, WithConnIs
<1> HIDE DEF v1, full, c, v
<1>4. o \in Obs /\ o.kind = "completion" /\ o.peer = src /\ o.sub = sp /\ o.full_piece = full
  BY <1>1, ObservationTypes DEF obs_completion
<1> HIDE DEF o
<1>5. FullOwned(v) /\ PlansOnce(s)
  <2>1. FullOwned(w) /\ w.have \subseteq v.have /\ (full => sp[1] \in v.have)
    BY <1>1 DEF Lives
  <2>2. FullOwned(v)
    BY <1>1, <1>4, <2>1, OwnedAppend
  <2> QED BY <2>2 DEF Lives
<1>6. ASSUME NEW q \in Clients, NEW x \in SubPieceId, x[1] \notin v.have
      PROVE  Life(v, s, q, x)
  <2>1. Life(w, s, q, x)
    BY <1>1, <1>6 DEF Lives
  <2>2. KeptCount(v.conns[q], x) = KeptCount(v1.conns[q], x)
    BY <1>1, StepKeeps DEF SameKept
  <2>3. o \in Delivers(q, x) <=> q = src /\ x = sp
    BY <1>4 DEF Delivers
  <2> DEFINE a == w.out_obs
             T == Delivers(q, x)
  <2>4. At(v.out_obs, T) = IF q = src /\ x = sp THEN At(a, T) \cup {Len(a) + 1} ELSE At(a, T)
    <3>1. a \in Seq(Obs) /\ v.out_obs = Append(a, o)
      BY <1>1, <1>2
    <3>2. o \in T <=> q = src /\ x = sp
      BY <2>3
    <3> HIDE DEF a, T
    <3>3. At(Append(a, o), T) = IF o \in T THEN At(a, T) \cup {Len(a) + 1} ELSE At(a, T)
      BY <1>4, <3>1, AtAppend
    <3> QED BY <3>1, <3>2, <3>3
  <2>5. CASE q = src /\ x = sp
    <3>1. KeptCount(v.conns[q], x) = KeptCount(w.conns[q], x) - 1 /\ KeptCount(w.conns[q], x) > 0
      BY <1>2, <1>3, <2>2, <2>5, DeliveredKeeps DEF c
    <3> DEFINE A == At(s.pending, AddsTo(q, x))
               D == At(s.pending, DropsOf(q, x))
               C == At(w.out_obs, Delivers(q, x))
               k == KeptCount(w.conns[q], x)
               n == Len(w.out_obs) + 1
               asked == q \in s.requested_from[x]
               started == x[1] \in Started(s)
               got == Got(s, x)
    <3>2. /\ A \in Places /\ D \in Places /\ C \in Places /\ k \in Nat /\ n \in Nat \ {0}
          /\ asked \in BOOLEAN /\ started \in BOOLEAN /\ got \in BOOLEAN
      BY <1>2, LifeTypes
    <3>3. LifeOf(asked, started, got, k, A, D, C) /\ k > 0
      BY <2>1, <3>1 DEF Life
    <3>4. Life(v, s, q, x) <=> LifeOf(asked, started, got, k - 1, A, D, C \cup {n})
      BY <2>4, <2>5, <3>1 DEF Life
    <3> HIDE DEF A, D, C, k, n, asked, started, got
    <3>5. LifeOf(asked, started, got, k - 1, A, D, C \cup {n})
      BY <3>2, <3>3, LifeDeliver
    <3> QED BY <3>4, <3>5
  <2>6. CASE ~(q = src /\ x = sp)
    <3>1. KeptCount(v.conns[q], x) = KeptCount(w.conns[q], x)
      <4>1. CASE q = src
        <5>1. KeptCount(Delivered(c, sp), x) = KeptCount(c, x) - 0
          BY <1>2, <2>6, <4>1, DeliveredKeeps DEF c
        <5>2. KeptCount(c, x) \in Nat
          BY <1>2, KeptCountType
        <5> QED BY <1>3, <2>2, <4>1, <5>1, <5>2 DEF c
      <4>2. CASE q # src
        BY <1>3, <2>2, <4>2
      <4> QED BY <4>1, <4>2
    <3>2. At(v.out_obs, Delivers(q, x)) = At(w.out_obs, Delivers(q, x))
      BY <2>4, <2>6
    <3> QED BY <2>1, <3>1, <3>2 DEF Life
  <2> QED BY <2>5, <2>6
<1> QED BY <1>5, <1>6 DEF Lives, v

\* The oldest plan is handled.
LEMMA LivesPlan ==
  ASSUME NEW w \in WireState, NEW s \in SelState, Good(w), Asks(w), SelGood(s), Follows(w, s),
         s.pending # <<>>, Lives(w, s)
  PROVE  Lives(AfterPlan(w, Head(s.pending)), [s EXCEPT !.pending = Tail(@)])
<1> DEFINE a == s.pending
           pl == Head(a)
           r == Tail(a)
           t == [s EXCEPT !.pending = r]
           v == AfterPlan(w, pl)
           c == w.conns[pl.peer]
<1>1. a \in Seq(request_plan) /\ a # <<>>
  BY SelType
<1>2. pl \in request_plan /\ PlanFits(s, pl)
  BY SelPop
<1>3. /\ t.pending = r /\ t.requested_from = s.requested_from
      /\ t.in_progress_pieces = s.in_progress_pieces
  BY DEF SelState
<1> HIDE DEF a, t
<1>4. /\ r \in Seq(request_plan) /\ pl = a[1] /\ 1 \in 1 .. Len(a)
      /\ Len(r) = Len(a) - 1 /\ Len(a) \in Nat
      /\ \A i \in 1 .. Len(r) : r[i] = a[i+1]
  BY <1>1
<1> HIDE DEF pl, r, c
<1>5. pl.peer \in Clients /\ pl.items \in Seq(SubPieceId) /\ pl.cancellations \in Seq(SubPieceId)
  BY <1>2 DEF request_plan
<1>6. PlansOnce(t) /\ \A x \in SubPieceId : Count(pl.items, x) <= 1
  <2>1. \A i \in 1 .. Len(a) : \A x \in SubPieceId : Count(a[i].items, x) <= 1
    BY DEF Lives, PlansOnce, a
  <2>2. \A i \in 1 .. Len(r) : \A x \in SubPieceId : Count(r[i].items, x) <= 1
    BY <1>4, <2>1
  <2> QED BY <1>3, <1>4, <2>1, <2>2 DEF PlansOnce
<1>7. Len(pl.cancellations) <= 1 /\ ItemsAnnounced(w, pl)
  <2>1. s.peer_bitfields[pl.peer] \subseteq w.conns[pl.peer].peer_bitfield
    BY <1>5 DEF Follows
  <2> QED BY <1>2, <2>1 DEF PlanFits, ItemsAnnounced
<1>8. v.have = w.have /\ v.out_obs = w.out_obs
  BY <1>2, <1>7, PlanHandledIs DEF AfterPlan
<1>9. c \in conn /\ ConnGood(c) /\ AsksOf(c) /\ \A x : KeptCount(c, x) \in Nat
  BY <1>5, ConnType, KeptCountType DEF Good, GoodBut, Asks, c
\* A connection that is not there keeps nothing, and nothing is asked of it.
<1>10. ASSUME ~c.handshake_sent, NEW x \in SubPieceId
       PROVE  KeptCount(c, x) = 0 /\ ~Contains(pl.items, x)
  <2>1. c.peer_bitfield = {}
    BY <1>9, <1>10 DEF ConnGood
  <2>2. ~(KeptCount(c, x) > 0)
    BY <1>9, <2>1 DEF AsksOf
  <2>3. ~Contains(pl.items, x)
    <3>1. ASSUME Contains(pl.items, x) PROVE FALSE
      <4>1. PICK i \in 1 .. Len(pl.items) : pl.items[i] = x
        BY <3>1 DEF Contains
      <4> QED BY <1>7, <2>1, <4>1 DEF ItemsAnnounced, c
    <3> QED BY <3>1
  <2> QED BY <1>9, <2>2, <2>3
<1>11. ASSUME NEW q \in Clients, NEW x \in SubPieceId
       PROVE  LET k == KeptCount(w.conns[q], x)
                  j == KeptCount(v.conns[q], x)
                  drop == q = pl.peer /\ Contains(pl.cancellations, x)
                  add == q = pl.peer /\ Contains(pl.items, x)
              IN  /\ drop /\ ~add /\ k <= 1 => j = 0
                  /\ add /\ ~drop => j = k + 1
                  /\ ~add /\ ~drop => j = k
  <2>0. KeptCount(w.conns[q], x) \in Nat
    BY ConnType, KeptCountType
  <2>1. CASE c.handshake_sent
    <3>1. v = PlanHandled(w, pl)
      BY <2>1 DEF AfterPlan, c
    <3>2. /\ q # pl.peer => KeptCount(v.conns[q], x) = KeptCount(w.conns[q], x)
          /\ q = pl.peer => KeptCount(v.conns[q], x) = KeptCount(c, x)
               - (IF Contains(pl.cancellations, x) /\ KeptCount(c, x) > 0 THEN 1 ELSE 0)
               + Count(pl.items, x)
      BY <1>2, <1>7, <2>1, <3>1, PlanKeeps DEF c
    <3>3. Count(pl.items, x) = IF Contains(pl.items, x) THEN 1 ELSE 0
      <4>1. Count(pl.items, x) \in Nat /\ (Contains(pl.items, x) <=> Count(pl.items, x) > 0)
        BY <1>5, CountType, CountContains
      <4> QED BY <1>6, <4>1
    <3>4. q = pl.peer => w.conns[q] = c
      BY DEF c
    <3> HIDE DEF v
    <3> QED BY <2>0, <3>2, <3>3, <3>4
  <2>2. CASE ~c.handshake_sent
    <3>1. v = w
      BY <2>2 DEF AfterPlan, c
    <3>2. q = pl.peer => KeptCount(w.conns[q], x) = 0 /\ ~Contains(pl.items, x)
      BY <1>10, <2>2 DEF c
    <3> HIDE DEF v
    <3> QED BY <2>0, <3>1, <3>2
  <2> QED BY <2>1, <2>2
<1> HIDE DEF v
<1>12. v \in WireState
  BY <1>2, <1>7, PlanHandledIs DEF AfterPlan, v
<1>13. ASSUME NEW q \in Clients, NEW x \in SubPieceId, x[1] \notin v.have
       PROVE  Life(v, t, q, x)
  <2> DEFINE A == At(a, AddsTo(q, x))
             D == At(a, DropsOf(q, x))
             A2 == At(r, AddsTo(q, x))
             D2 == At(r, DropsOf(q, x))
             C == At(w.out_obs, Delivers(q, x))
             k == KeptCount(w.conns[q], x)
             j == KeptCount(v.conns[q], x)
             asked == q \in s.requested_from[x]
             started == x[1] \in Started(s)
             got == Got(s, x)
  <2>1. LifeOf(asked, started, got, k, A, D, C)
    BY <1>8, <1>13 DEF Lives, Life, a
  <2>2. /\ A \in Places /\ D \in Places /\ A2 \in Places /\ D2 \in Places /\ C \in Places
        /\ k \in Nat /\ j \in Nat /\ got \in BOOLEAN
    BY <1>1, <1>4, <1>12, AtType, LifeTypes
  <2>3. /\ Shifted(A, A2) /\ Shifted(D, D2)
        /\ 1 \in A <=> pl \in AddsTo(q, x)
        /\ 1 \in D <=> pl \in DropsOf(q, x)
    BY <1>1, AtTail DEF pl, r
  <2>4. /\ 1 \in A <=> q = pl.peer /\ Contains(pl.items, x)
        /\ 1 \in D <=> q = pl.peer /\ Contains(pl.cancellations, x)
    BY <1>2, <2>3 DEF AddsTo, DropsOf
  <2>5. k <= 1
    BY <2>1 DEF LifeOf
  <2>6. /\ 1 \in D /\ 1 \notin A => j = 0
        /\ 1 \in A /\ 1 \notin D => j = k + 1
        /\ 1 \notin A /\ 1 \notin D => j = k
    BY <1>11, <2>4, <2>5
  <2>7. Life(v, t, q, x) <=> LifeOf(asked, started, got, j, A2, D2, C)
    BY <1>3, <1>8 DEF Life, Started, Got
  <2>8. asked \in BOOLEAN /\ started \in BOOLEAN
    OBVIOUS
  <2> HIDE DEF A, D, A2, D2, C, k, j, asked, started, got
  <2>9. LifeOf(asked, started, got, j, A2, D2, C)
    BY <2>1, <2>2, <2>3, <2>6, <2>8, LifePop
  <2> QED BY <2>7, <2>9
<1>14. FullOwned(v)
  BY <1>8 DEF Lives, FullOwned
<1>15. Lives(v, t)
  BY <1>6, <1>13, <1>14 DEF Lives
<1> QED BY <1>15 DEF v, t, r, pl, a

\* More plans that ask for nothing twice.
LEMMA PlansOnceMore ==
  ASSUME NEW s \in SelState, NEW v, NEW more \in Seq(request_plan), PlansOnce(s),
         v.pending = s.pending \o more,
         \A i \in 1 .. Len(more) : \A x \in SubPieceId : Count(more[i].items, x) <= 1
  PROVE  PlansOnce(v)
<1> DEFINE a == s.pending
<1>1. a \in Seq(request_plan)
  BY SelType
<1>2. \A i \in 1 .. Len(a) : \A x \in SubPieceId : Count(a[i].items, x) <= 1
  BY DEF PlansOnce
<1> HIDE DEF a
<1>3. /\ Len(a \o more) = Len(a) + Len(more) /\ Len(a) \in Nat /\ Len(more) \in Nat
      /\ \A i \in 1 .. Len(a) + Len(more) :
           (a \o more)[i] = IF i <= Len(a) THEN a[i] ELSE more[i - Len(a)]
  BY <1>1, ConcatIs
<1>4. ASSUME NEW i \in 1 .. Len(a \o more), NEW x \in SubPieceId
      PROVE  Count((a \o more)[i].items, x) <= 1
  <2>1. i \in 1 .. Len(a) + Len(more)
    BY <1>3
  <2>2. CASE i <= Len(a)
    <3>1. i \in 1 .. Len(a) /\ (a \o more)[i] = a[i]
      BY <1>3, <2>1, <2>2
    <3> QED BY <1>2, <3>1
  <2>3. CASE ~(i <= Len(a))
    <3>1. i - Len(a) \in 1 .. Len(more) /\ (a \o more)[i] = more[i - Len(a)]
      BY <1>3, <2>1, <2>3
    <3> QED BY <3>1
  <2> QED BY <2>2, <2>3
<1>5. v.pending = a \o more
  BY DEF a
<1> QED BY <1>4, <1>5 DEF PlansOnce

\* A peer is asked for what it has not been asked for and what has not come.
LEMMA LivesAsk ==
  ASSUME NEW w \in WireState, NEW s \in SelState, NEW v, Lives(w, s),
         NEW peer \in Clients, NEW p \in Pieces, NEW subs \in SUBSET SubPieces,
         AsksFor(s, v, peer, p, subs), p \in Started(s),
         \A k \in subs : p \notin w.have =>
           peer \notin s.requested_from[<<p, k>>] /\ k \notin s.in_progress_pieces[p]
  PROVE  Lives(w, v)
<1> DEFINE a == s.pending
<1>1. PICK pl \in request_plan :
        /\ v.pending = Append(s.pending, pl)
        /\ \A q \in Clients : \A x \in SubPieceId :
             /\ pl \in AddsTo(q, x) <=> q = peer /\ x[1] = p /\ x[2] \in subs
             /\ pl \notin DropsOf(q, x)
        /\ \A x \in SubPieceId : Count(pl.items, x) <= 1
  BY AskedPlan
<1>2. a \in Seq(request_plan) /\ w.out_obs \in Seq(Obs)
  BY SelType, ConnType DEF WireState
<1>3. PlansOnce(v)
  <2> DEFINE more == <<pl>>
  <2>1. more \in Seq(request_plan) /\ \A i \in 1 .. Len(more) : more[i] = pl
    OBVIOUS
  <2>2. v.pending = a \o more
    <3> HIDE DEF a
    <3>1. Append(a, pl) = a \o <<pl>>
      BY <1>2, AppendIsConcat
    <3> QED BY <1>1, <3>1 DEF a
  <2> HIDE DEF more
  <2> QED BY <1>1, <2>1, <2>2, PlansOnceMore DEF Lives
<1>4. ASSUME NEW q \in Clients, NEW x \in SubPieceId, x[1] \notin w.have
      PROVE  Life(w, v, q, x)
  <2> DEFINE A == At(a, AddsTo(q, x))
             D == At(a, DropsOf(q, x))
             C == At(w.out_obs, Delivers(q, x))
             k == KeptCount(w.conns[q], x)
             n == Len(a) + 1
             started == x[1] \in Started(s)
             got == Got(s, x)
             asked == q \in s.requested_from[x]
             chosen == q = peer /\ x[1] = p /\ x[2] \in subs
  <2>1. LifeOf(asked, started, got, k, A, D, C)
    BY <1>4 DEF Lives, Life
  <2>2. /\ A \in Places /\ D \in Places /\ C \in Places /\ k \in Nat /\ n \in Nat \ {0}
        /\ started \in BOOLEAN /\ got \in BOOLEAN /\ asked \in BOOLEAN
    BY <1>2, LifeTypes
  <2>3. /\ At(v.pending, AddsTo(q, x)) = IF chosen THEN A \cup {n} ELSE A
        /\ At(v.pending, DropsOf(q, x)) = D
    <3>1. v.pending = Append(a, pl)
      BY <1>1
    <3>2. (pl \in AddsTo(q, x) <=> chosen) /\ pl \notin DropsOf(q, x)
      BY <1>1
    <3> HIDE DEF a, chosen
    <3>3. /\ At(Append(a, pl), AddsTo(q, x)) = IF pl \in AddsTo(q, x) THEN A \cup {n} ELSE A
          /\ At(Append(a, pl), DropsOf(q, x)) = IF pl \in DropsOf(q, x) THEN D \cup {n} ELSE D
      BY <1>2, AtAppend
    <3> HIDE DEF A, D
    <3> QED BY <3>1, <3>2, <3>3
  <2>4. Started(v) = Started(s) /\ v.in_progress_pieces = s.in_progress_pieces
    BY DEF AsksFor, Started
  <2>5. q \in v.requested_from[x] <=> asked \/ chosen
    <3>1. v.requested_from[x] = IF x[1] = p /\ x[2] \in subs THEN s.requested_from[x] \cup {peer}
                                ELSE s.requested_from[x]
      BY DEF AsksFor
    <3> QED BY <3>1
  <2>6. CASE chosen
    <3>1. x = <<p, x[2]>>
      BY <2>6 DEF SubPieceId
    <3>2. asked = FALSE /\ got = FALSE
      BY <1>4, <2>6, <3>1 DEF Got
    <3>3. LifeOf(FALSE, started, FALSE, k, A, D, C)
      BY <2>1, <3>2
    <3>4. Life(w, v, q, x) <=> LifeOf(TRUE, TRUE, FALSE, k, A \cup {n}, D, C)
      <4>1. (q \in v.requested_from[x]) = TRUE
        BY <2>5, <2>6
      <4>2. (x[1] \in Started(v)) = TRUE
        BY <2>4, <2>6
      <4>3. Got(v, x) = FALSE
        BY <2>4, <3>2 DEF Got
      <4>4. At(v.pending, AddsTo(q, x)) = A \cup {n} /\ At(v.pending, DropsOf(q, x)) = D
        BY <2>3, <2>6
      <4> QED BY <4>1, <4>2, <4>3, <4>4 DEF Life
    <3> HIDE DEF A, D, C, k, n, asked, started, got, chosen
    <3>5. LifeOf(TRUE, TRUE, FALSE, k, A \cup {n}, D, C)
      BY <2>2, <3>3, LifeAsk
    <3> QED BY <3>4, <3>5
  <2>7. CASE ~chosen
    <3>1. (q \in v.requested_from[x]) = asked
      BY <2>5, <2>7
    <3>2. At(v.pending, AddsTo(q, x)) = A /\ At(v.pending, DropsOf(q, x)) = D
      BY <2>3, <2>7
    <3> QED BY <2>1, <2>4, <3>1, <3>2 DEF Life, Got
  <2> QED BY <2>6, <2>7
<1> QED BY <1>3, <1>4 DEF Lives

\* A piece starts that had not.
Starts(s, u, p) ==
  /\ p \notin Started(s) /\ u = [s EXCEPT !.in_progress_pieces = Put(@, p, {})]

\* Nothing of it has been asked for.
LEMMA LivesStart ==
  ASSUME NEW w \in WireState, NEW s \in SelState, NEW u \in SelState, Lives(w, s), NEW p \in Pieces, Starts(s, u, p)
  PROVE  /\ Lives(w, u) /\ p \in Started(u)
         /\ \A k \in SubPieces : p \notin w.have =>
              \A q \in Clients : q \notin u.requested_from[<<p, k>>] /\ k \notin u.in_progress_pieces[p]
<1> DEFINE f == s.in_progress_pieces
<1>1. /\ u.in_progress_pieces = Put(f, p, {}) /\ u.requested_from = s.requested_from
      /\ u.pending = s.pending
  BY DEF SelState, Starts
<1>2. u.in_progress_pieces = [x \in DOMAIN f \cup {p} |-> IF x = p THEN {} ELSE f[x]]
  BY <1>1 DEF Put
<1>3. \A x : (x \in Started(s) => x \in Started(u)) /\ (x \in Started(u) => x \in Started(s) \/ x = p)
  BY <1>2 DEF Started
<1>4. p \in Started(u) /\ u.in_progress_pieces[p] = {} /\ p \notin DOMAIN f
  BY <1>2 DEF Started, Starts
<1>5. \A x \in SubPieceId : Got(u, x) = Got(s, x)
  BY <1>2, <1>4 DEF Started, Got
<1> HIDE DEF f
<1>6. ASSUME NEW q \in Clients, NEW x \in SubPieceId, x[1] \notin w.have
      PROVE  Life(w, u, q, x) /\ (x[1] = p => q \notin u.requested_from[x])
  <2>1. Life(w, s, q, x)
    BY <1>6 DEF Lives
  <2>2. (q \in s.requested_from[x]) => x[1] \in Started(s)
    BY <2>1 DEF Life, LifeOf
  <2>3. LifeOf(q \in s.requested_from[x], x[1] \in Started(u), Got(s, x),
               KeptCount(w.conns[q], x), At(s.pending, AddsTo(q, x)), At(s.pending, DropsOf(q, x)),
               At(w.out_obs, Delivers(q, x)))
    BY <1>3, <2>1 DEF Life, LifeOf
  <2>4. Life(w, u, q, x)
    BY <1>1, <1>5, <2>3 DEF Life
  <2> QED BY <1>1, <2>2, <2>4 DEF Starts
<1>7. ASSUME NEW k \in SubPieces, p \notin w.have, NEW q \in Clients
      PROVE  q \notin u.requested_from[<<p, k>>] /\ k \notin u.in_progress_pieces[p]
  <2>1. <<p, k>> \in SubPieceId /\ <<p, k>>[1] = p
    BY DEF SubPieceId
  <2> QED BY <1>4, <1>6, <1>7, <2>1
<1>8. FullOwned(w) /\ PlansOnce(u)
  BY <1>1 DEF Lives, PlansOnce
<1> QED BY <1>4, <1>6, <1>7, <1>8 DEF Lives

\* try_plan_for asks one peer, or does nothing.
LEMMA LivesTry ==
  ASSUME NEW w \in WireState, NEW s \in SelState, NEW v, Lives(w, s), NEW peer \in Clients,
         Tries(s, v, peer)
  PROVE  Lives(w, v)
<1>1. CASE v = s
  BY <1>1
<1>2. ASSUME NEW p \in Started(s) \cap Pieces, AsksFor(s, v, peer, p, Wanted(s, peer, p))
      PROVE  Lives(w, v)
  <2> DEFINE subs == Wanted(s, peer, p)
  <2>1. subs \in SUBSET SubPieces
    BY DEF Wanted
  <2>2. \A k \in subs : peer \notin s.requested_from[<<p, k>>] /\ k \notin s.in_progress_pieces[p]
    BY DEF Wanted
  <2> HIDE DEF subs
  <2> QED BY <1>2, <2>1, <2>2, LivesAsk DEF subs
<1>3. ASSUME NEW p \in Pieces, NEW u \in SelState, Starts(s, u, p), AsksFor(u, v, peer, p, SubPieces)
      PROVE  Lives(w, v)
  <2>1. /\ Lives(w, u) /\ p \in Started(u)
        /\ \A k \in SubPieces : p \notin w.have =>
              \A q \in Clients : q \notin u.requested_from[<<p, k>>] /\ k \notin u.in_progress_pieces[p]
    BY <1>3, LivesStart
  <2>2. \A k \in SubPieces : p \notin w.have =>
          peer \notin u.requested_from[<<p, k>>] /\ k \notin u.in_progress_pieces[p]
    BY <2>1
  <2>3. SubPieces \in SUBSET SubPieces
    OBVIOUS
  <2> QED BY <1>3, <2>1, <2>2, <2>3, LivesAsk
<1>4. ASSUME NEW p \in Pieces \ Started(s), NEW u \in SelState,
             u = [s EXCEPT !.in_progress_pieces = Put(@, p, {})], AsksFor(u, v, peer, p, SubPieces)
      PROVE  Lives(w, v)
  <2>1. Starts(s, u, p)
    BY <1>4 DEF Starts
  <2> QED BY <1>3, <1>4, <2>1
<1> QED BY <1>1, <1>2, <1>4 DEF Tries

\* The oldest observation leaves the wire; if it is no delivery the record of
\* what was asked stays.
LEMMA OwnedTail ==
  ASSUME NEW w \in WireState, FullOwned(w), w.out_obs # <<>>
  PROVE  FullOwned(Popping(w))
<1> DEFINE a == w.out_obs
           r == Tail(a)
           v == Popping(w)
<1>1. a \in Seq(Obs) /\ a # <<>>
  BY ConnType DEF WireState
<1>2. v.have = w.have /\ v.out_obs = r
  BY PoppingIs DEF PopFront
<1> HIDE DEF a, v
<1>3. Len(r) = Len(a) - 1 /\ Len(a) \in Nat /\ \A i \in 1 .. Len(r) : r[i] = a[i+1]
  BY <1>1
<1> HIDE DEF r
<1>4. \A i \in 1 .. Len(r) : i + 1 \in 1 .. Len(a)
  BY <1>3
<1>5. \A i \in 1 .. Len(a) : a[i].kind = "completion" /\ a[i].full_piece => a[i].sub[1] \in w.have
  BY DEF FullOwned, a
<1>6. \A i \in 1 .. Len(r) : r[i].kind = "completion" /\ r[i].full_piece => r[i].sub[1] \in w.have
  BY <1>3, <1>4, <1>5
<1> QED BY <1>2, <1>6 DEF FullOwned, v

\* An observation that is no delivery leaves,
LEMMA LivesUntold ==
  ASSUME NEW w \in WireState, NEW s \in SelState, Lives(w, s), w.out_obs # <<>>,
         Head(w.out_obs).kind # "completion"
  PROVE  Lives(Popping(w), s)
<1> DEFINE a == w.out_obs
           v == Popping(w)
<1>1. a \in Seq(Obs) /\ a # <<>>
  BY ConnType DEF WireState
<1>2. v.have = w.have /\ v.out_obs = Tail(a) /\ v.conns = w.conns /\ v \in WireState
  BY PoppingIs DEF PopFront
<1>3. FullOwned(v) /\ PlansOnce(s)
  BY OwnedTail DEF Lives
<1> HIDE DEF v
<1>4. ASSUME NEW q \in Clients, NEW x \in SubPieceId, x[1] \notin v.have
      PROVE  Life(v, s, q, x)
  <2> DEFINE A == At(s.pending, AddsTo(q, x))
             D == At(s.pending, DropsOf(q, x))
             C == At(a, Delivers(q, x))
             C2 == At(Tail(a), Delivers(q, x))
             k == KeptCount(w.conns[q], x)
             started == x[1] \in Started(s)
             got == Got(s, x)
             asked == q \in s.requested_from[x]
  <2>1. LifeOf(asked, started, got, k, A, D, C)
    BY <1>2, <1>4 DEF Lives, Life
  <2>2. /\ A \in Places /\ D \in Places /\ C \in Places /\ C2 \in Places /\ k \in Nat
        /\ started \in BOOLEAN /\ got \in BOOLEAN /\ asked \in BOOLEAN
    <3>1. C2 = At(v.out_obs, Delivers(q, x))
      BY <1>2
    <3> QED BY <1>2, <3>1, LifeTypes
  <2>3. Shifted(C, C2) /\ 1 \notin C
    <3>1. Head(a) \notin Delivers(q, x)
      BY DEF Delivers
    <3> HIDE DEF a
    <3> QED BY <1>1, <3>1, AtTail
  <2>4. Life(v, s, q, x) <=> LifeOf(asked, started, got, k, A, D, C2)
    BY <1>2 DEF Life
  <2> HIDE DEF A, D, C, C2, k, asked, started, got
  <2>5. LifeOf(asked, started, got, k, A, D, C2)
    BY <2>1, <2>2, <2>3, LifeElse
  <2> QED BY <2>4, <2>5
<1> QED BY <1>3, <1>4 DEF Lives, v

\* or a delivery does, and the selector records it and cancels at the others.
LEMMA LivesCompletion ==
  ASSUME NEW w \in WireState, NEW s \in SelState, NEW u \in SelState, Lives(w, s), w.out_obs # <<>>,
         NEW peer \in Clients, NEW sp \in SubPieceId, NEW full \in BOOLEAN,
         NEW o \in Obs, o = Head(w.out_obs), o.kind = "completion", o.peer = peer, o.sub = sp,
         o.full_piece = full, Completes(s, u, peer, sp, full)
  PROVE  Lives(Popping(w), u)
<1> DEFINE a == w.out_obs
           v == Popping(w)
           b == s.pending
<1>1. a \in Seq(Obs) /\ a # <<>> /\ b \in Seq(request_plan)
  BY ConnType, SelType DEF WireState
<1>2. v.have = w.have /\ v.out_obs = Tail(a) /\ v.conns = w.conns /\ v \in WireState
  BY PoppingIs DEF PopFront
<1>3. FullOwned(v)
  BY OwnedTail DEF Lives
<1>4. o = Head(a)
  OBVIOUS
<1>5. full => sp[1] \in w.have
  <2>1. \A i \in 1 .. Len(a) : a[i].kind = "completion" /\ a[i].full_piece => a[i].sub[1] \in w.have
    BY DEF Lives, FullOwned
  <2>2. 1 \in 1 .. Len(a) /\ o = a[1]
    <3> HIDE DEF a
    <3> QED BY <1>1, <1>4
  <2> QED BY <2>1, <2>2
<1> HIDE DEF v, a, b
<1>8. PICK more \in Seq(request_plan) :
           /\ u.pending = s.pending \o more
           /\ \A q \in Clients : \A x \in SubPieceId :
                /\ At(more, AddsTo(q, x)) = {}
                /\ IF x = sp /\ q # peer /\ q \in s.requested_from[sp]
                   THEN \E n \in Nat \ {0} : At(more, DropsOf(q, x)) = {n}
                   ELSE At(more, DropsOf(q, x)) = {}
           /\ \A i \in 1 .. Len(more) : \A x \in SubPieceId : Count(more[i].items, x) <= 1
  <2>1. CancelsAt(s, u, peer, sp)
    BY CancelPlans
  <2> QED BY <2>1 DEF CancelsAt
<1>9. PlansOnce(u)
  BY <1>8, PlansOnceMore DEF Lives
<1>10. ASSUME NEW q \in Clients, NEW x \in SubPieceId, x[1] \notin v.have
       PROVE  Life(v, u, q, x)
  <2> DEFINE A == At(b, AddsTo(q, x))
             D == At(b, DropsOf(q, x))
             D2 == At(u.pending, DropsOf(q, x))
             C == At(a, Delivers(q, x))
             C2 == At(Tail(a), Delivers(q, x))
             k == KeptCount(w.conns[q], x)
             started == x[1] \in Started(s)
             started2 == x[1] \in Started(u)
             got == Got(s, x)
             asked == q \in s.requested_from[x]
  <2>1. LifeOf(asked, started, got, k, A, D, C)
    BY <1>2, <1>10 DEF Lives, Life, a, b
  <2>2. /\ A \in Places /\ D \in Places /\ D2 \in Places /\ C \in Places /\ C2 \in Places /\ k \in Nat
        /\ started \in BOOLEAN /\ started2 \in BOOLEAN /\ got \in BOOLEAN /\ asked \in BOOLEAN
    <3>1. C2 = At(v.out_obs, Delivers(q, x))
      BY <1>2
    <3> QED BY <1>2, <3>1, LifeTypes DEF a, b
  <2>3. Shifted(C, C2) /\ (1 \in C <=> x = sp /\ q = peer)
    <3>1. o \in Delivers(q, x) <=> x = sp /\ q = peer
      BY DEF Delivers
    <3> QED BY <1>1, <1>4, <3>1, AtTail
  <2>4. At(u.pending, AddsTo(q, x)) = A
    <3>1. At(b \o more, AddsTo(q, x)) = A \cup {Len(b) + i : i \in At(more, AddsTo(q, x))}
      BY <1>1, AtConcat
    <3>2. At(more, AddsTo(q, x)) = {}
      BY <1>8
    <3> HIDE DEF A
    <3> QED BY <1>8, <3>1, <3>2 DEF b
  <2>5. D2 = D \cup {Len(b) + i : i \in At(more, DropsOf(q, x))}
    <3>1. At(b \o more, DropsOf(q, x)) = D \cup {Len(b) + i : i \in At(more, DropsOf(q, x))}
      BY <1>1, AtConcat
    <3> QED BY <1>8, <3>1 DEF b
  <2>6. u.requested_from[x] = IF x = sp THEN {} ELSE s.requested_from[x]
    <3>1. u.requested_from = [s.requested_from EXCEPT ![sp] = {}]
      BY DEF Completes
    <3>2. s.requested_from \in [SubPieceId -> SUBSET Clients]
      BY SelType
    <3> QED BY <3>1, <3>2
  <2>7. /\ started => started2
        /\ x # sp => (Got(u, x) <=> got)
        /\ x = sp => started2 /\ Got(u, x)
    <3>1. full => x[1] # sp[1]
      BY <1>2, <1>5, <1>10
    <3>2. /\ x[1] \in Started(s) => x[1] \in Started(u)
          /\ x # sp => (Got(u, x) <=> Got(s, x))
          /\ x = sp => x[1] \in Started(u) /\ Got(u, x)
      BY <3>1, CompletionGets
    <3> QED BY <3>2
  <2>8. Got(u, x) \in BOOLEAN
    BY DEF Got
  <2>9. Life(v, u, q, x) <=> LifeOf(q \in u.requested_from[x], started2, Got(u, x), k, A, D2, C2)
    BY <1>2, <2>4 DEF Life
  <2>10. \A i \in A : i <= Len(b) /\ i \in Nat
    <3>1. \A i \in A : i <= Len(b)
      BY <1>1, AtType
    <3> QED BY <2>2, <3>1 DEF Places
  <2>11. Len(b) \in Nat
    BY <1>1
  <2> HIDE DEF A, D, C, C2, D2, k, asked, started, got, started2
  <2>12. CASE x = sp /\ q = peer
    <3>1. D2 = D
      <4>1. At(more, DropsOf(q, x)) = {}
        BY <1>8, <2>12
      <4> QED BY <2>5, <4>1
    <3>2. LifeOf(FALSE, TRUE, TRUE, k, A, D, C2)
      <4>1. 1 \in C /\ Shifted(C, C2)
        BY <2>3, <2>12
      <4>2. Once(C) /\ C # {}
        BY <2>1, <4>1 DEF LifeOf
      <4>3. C2 = {} /\ Once(C2)
        BY <2>2, <4>1, <4>2, ShiftedIs
      <4> QED BY <2>1, <4>2, <4>3 DEF LifeOf
    <3>3. (q \in u.requested_from[x]) = FALSE /\ started2 = TRUE /\ Got(u, x) = TRUE
      BY <2>2, <2>6, <2>7, <2>8, <2>12
    <3> QED BY <2>9, <3>1, <3>2, <3>3
  <2>13. CASE x = sp /\ q # peer
    <3>1. ~asked => D2 = D
      <4>1. ASSUME ~asked PROVE At(more, DropsOf(q, x)) = {}
        BY <1>8, <2>13, <4>1 DEF asked
      <4> QED BY <2>5, <4>1
    <3>2. asked => \E n \in Nat : D2 = D \cup {n} /\ \A i \in A : i < n
      <4>1. ASSUME asked PROVE \E n \in Nat : D2 = D \cup {n} /\ \A i \in A : i < n
        <5>1. PICK n \in Nat \ {0} : At(more, DropsOf(q, x)) = {n}
          BY <1>8, <2>13, <4>1 DEF asked
        <5>2. D2 = D \cup {Len(b) + n}
          BY <2>5, <5>1
        <5>3. Len(b) + n \in Nat /\ \A i \in A : i < Len(b) + n
          BY <2>10, <2>11, <5>1
        <5> QED BY <5>2, <5>3
      <4> QED BY <4>1
    <3>3. LifeOf(FALSE, TRUE, TRUE, k, A, D2, C2)
      <4>1. 1 \notin C /\ Shifted(C, C2)
        BY <2>3, <2>13
      <4>2. Once(C) /\ Once(D)
        BY <2>1 DEF LifeOf
      <4>3. Once(C2) /\ (C2 = {} <=> C = {})
        BY <2>2, <4>1, <4>2, ShiftedIs
      <4>4. Once(D2) /\ (\A i \in A, n \in D2 : i < n) /\ (asked => D2 # {})
        BY <2>1, <3>1, <3>2 DEF LifeOf, Once
      <4> QED BY <2>1, <3>1, <4>3, <4>4 DEF LifeOf
    <3>4. (q \in u.requested_from[x]) = FALSE /\ started2 = TRUE /\ Got(u, x) = TRUE
      BY <2>2, <2>6, <2>7, <2>8, <2>13
    <3> QED BY <2>9, <3>3, <3>4
  <2>14. CASE x # sp
    <3>1. D2 = D
      <4>1. At(more, DropsOf(q, x)) = {}
        BY <1>8, <2>14
      <4> QED BY <2>5, <4>1
    <3>2. LifeOf(asked, started2, got, k, A, D, C2)
      BY <2>1, <2>2, <2>3, <2>7, <2>14, LifeElse
    <3>3. (q \in u.requested_from[x]) = asked /\ Got(u, x) = got
      BY <2>2, <2>6, <2>7, <2>8, <2>14 DEF asked
    <3> QED BY <2>9, <3>1, <3>2, <3>3
  <2> QED BY <2>12, <2>13, <2>14
<1> QED BY <1>3, <1>9, <1>10 DEF Lives, v

\* The selector sees the oldest observation.
LEMMA LivesSeen ==
  ASSUME NEW w \in WireState, NEW s \in SelState, SelGood(s), Follows(w, s), Lives(w, s)
  PROVE  Lives(Popping(w), Seen(s, w))
<1> DEFINE v == Popping(w)
           t == Seen(s, w)
<1>1. /\ v \in WireState /\ v.conns = w.conns /\ v.have = w.have
      /\ v.out_obs = PopFront(w.out_obs)
  BY PoppingIs
<1> HIDE DEF v
<1>2. \A q \in Clients : SameKept(w.conns[q], v.conns[q]) /\ SameKept(v.conns[q], v.conns[q])
  BY <1>1 DEF SameKept
<1>3. CASE w.out_obs = <<>>
  <2>1. t = s /\ v.out_obs = w.out_obs
    BY <1>1, <1>3 DEF Seen, Leaving, PopFront
  <2>2. Lives(v, s)
    BY <1>1, <1>2, <2>1, LivesQuiet
  <2> QED BY <2>1, <2>2 DEF v
<1>4. CASE w.out_obs # <<>>
  <2> DEFINE o == Head(w.out_obs)
  <2>1. t = OnObs(s, o)
    BY <1>4 DEF Seen, Leaving
  <2>2. o \in Obs /\ (o.kind = "availability" => s.peer_bitfields[o.peer] \subseteq o.bitfield)
    BY <1>4, FollowsHead
  <2>3. o = Head(w.out_obs)
    OBVIOUS
  <2> HIDE DEF o, t
  <2>4. t \in SelState /\ Handles(s, t, o)
    BY <2>1, <2>2, OnObsIs
  <2>5. o.peer \in Clients
    BY <2>2, ObsIs
  <2>6. o.kind # "completion" => Lives(v, s)
    BY <1>4, <2>3, LivesUntold DEF v
  <2>7. CASE o.kind = "availability"
    <3>1. PICK u \in SelState : Updates(s, u, o.peer, o.bitfield) /\ Tries(u, t, o.peer)
      BY <2>4, <2>7 DEF Handles
    <3>2. /\ u.pending = s.pending /\ u.requested_from = s.requested_from
          /\ u.in_progress_pieces = s.in_progress_pieces
      BY <3>1 DEF Updates
    <3>3. Lives(v, u)
      BY <1>2, <2>6, <2>7, <3>2, LivesQuiet
    <3>4. Lives(v, t)
      BY <1>1, <2>4, <2>5, <3>1, <3>3, LivesTry
    <3> QED BY <3>4 DEF v, t
  <2>8. CASE o.kind = "completion"
    <3>1. PICK u \in SelState : /\ Completes(s, u, o.peer, o.sub, o.full_piece) /\ Tries(u, t, o.peer)
                                /\ o.sub \in SubPieceId /\ o.full_piece \in BOOLEAN
      BY <2>4, <2>8 DEF Handles
    <3>2. Lives(v, u)
      BY <1>4, <2>2, <2>3, <2>5, <2>8, <3>1, LivesCompletion DEF v
    <3>3. Lives(v, t)
      BY <1>1, <2>4, <2>5, <3>1, <3>2, LivesTry
    <3> QED BY <3>3 DEF v, t
  <2>9. CASE o.kind \notin {"availability", "completion"}
    <3>1. t = s
      BY <2>4, <2>9 DEF Handles
    <3> QED BY <2>6, <2>9, <3>1 DEF v, t
  <2> QED BY <2>7, <2>8, <2>9
<1> QED BY <1>3, <1>4

\* A connection changes but keeps what it keeps, and the wire answers.
LEMMA StillKept ==
  ASSUME NEW w \in WireState, NEW src \in Clients, NEW d \in conn, SameKept(w.conns[src], d),
         NEW v \in WireState, WireStep(WithConn(w, src, d), v), NEW q \in Clients
  PROVE  SameKept(w.conns[q], v.conns[q])
<1> DEFINE v1 == WithConn(w, src, d)
<1>1. v1 \in WireState /\ v1.conns[src] = d /\ \A r \in Clients \ {src} : v1.conns[r] = w.conns[r]
  BY WithConnIs
<1> HIDE DEF v1
<1>2. SameKept(v1.conns[q], v.conns[q])
  BY <1>1, StepKeeps DEF v1
<1>3. SameKept(w.conns[q], v1.conns[q])
  BY <1>1 DEF SameKept
<1> QED BY <1>2, <1>3 DEF SameKept

\* Every message keeps the lives of the sub-pieces.
LEMMA LivesReceive ==
  ASSUME NEW w \in WireState, Good(w), NEW s \in SelState, Lives(w, s),
         NEW src \in Clients, NEW m \in WireMsg,
         m.type # "handshake" => w.conns[src].handshake_received,
         NEW v, Received(w, src, m, v)
  PROVE  Lives(v, s)
<1> DEFINE d == w.conns[src]
           sp == m.sub
           KeptIn(x) == \A q \in Clients : SameKept(w.conns[q], x.conns[q])
<1>0. d \in conn /\ d.peer_bitfield \in SUBSET Pieces
  BY ConnType
<1>1. ASSUME NEW x, x.out_obs = w.out_obs, x.have = w.have, KeptIn(x)
      PROVE  Lives(x, s)
  BY <1>1, LivesQuiet
<1>2. ASSUME NEW x, NEW o \in Obs, o.kind # "completion", x.out_obs = Append(w.out_obs, o),
             x.have = w.have, KeptIn(x)
      PROVE  Lives(x, s)
  BY <1>2, LivesTell
<1>3. \A q \in Clients : SameKept(w.conns[q], w.conns[q])
  BY DEF SameKept
<1>4. ASSUME NEW e \in conn, SameKept(d, e) PROVE KeptIn(WithConn(w, src, e))
  <2> DEFINE v1 == WithConn(w, src, e)
  <2>1. v1.conns[src] = e /\ \A q \in Clients \ {src} : v1.conns[q] = w.conns[q]
    BY <1>4, WithConnIs
  <2> HIDE DEF v1
  <2>2. ASSUME NEW q \in Clients PROVE SameKept(w.conns[q], v1.conns[q])
    BY <1>3, <1>4, <2>1
  <2> QED BY <2>2 DEF v1
<1> HIDE DEF KeptIn
<1>10. CASE m.type = "handshake" /\ v = OnHandshake(w, src)
  <2> DEFINE e == Greeted(d)
             v1 == WithConn(w, src, e)
  <2>1. /\ e \in conn /\ v1 \in WireState /\ v.have = w.have /\ v.out_obs = w.out_obs
        /\ v = v1 \/ Opens(v1, v, src)
    BY <1>10, OnHandshakeIs
  <2>2. SameKept(d, e)
    BY <1>0, FlagsKeep
  <2>3. KeptIn(v1)
    BY <1>4, <2>1, <2>2
  <2>4. KeptIn(v)
    <3>1. CASE Opens(v1, v, src)
      <4> HIDE DEF v1
      <4>1. /\ v.conns[src] = Opened(v1.conns[src])
            /\ \A q \in Clients \ {src} : v.conns[q] = v1.conns[q]
        BY <3>1 DEF Opens
      <4>2. SameKept(v1.conns[src], v.conns[src])
        BY <2>1, <4>1, ConnType, FlagsKeep
      <4> QED BY <2>3, <4>1, <4>2 DEF KeptIn, SameKept
    <3> QED BY <2>1, <2>3, <3>1
  <2> QED BY <1>1, <2>1, <2>4
<1>11. CASE m.type = "choke" /\ v = OnChoke(w, src)
  <2> DEFINE e == Choked(d)
  <2>1. d.handshake_received
    BY <1>11
  <2>2. e \in conn /\ v = WithConn(w, src, e)
    BY <1>11, <2>1, OnChokeIs
  <2>3. SameKept(d, e)
    BY <1>0, ChokedKeeps
  <2> HIDE DEF e
  <2>4. KeptIn(v)
    BY <1>4, <2>2, <2>3
  <2>5. v.have = w.have /\ v.out_obs = w.out_obs
    BY <2>2, WithConnIs
  <2> QED BY <1>1, <2>4, <2>5
<1>12. CASE m.type = "unchoke" /\ v = OnUnchoke(w, src)
  <2> DEFINE e == Unchoked(d)
  <2>1. /\ e \in conn /\ v \in WireState /\ v.have = w.have /\ v.out_obs = w.out_obs
        /\ WireStep(WithConn(w, src, e), v)
    BY <1>12, OnUnchokeIs
  <2>2. SameKept(d, e)
    BY <1>0, FlagsKeep
  <2>3. KeptIn(v)
    BY <2>1, <2>2, StillKept DEF KeptIn
  <2> QED BY <1>1, <2>1, <2>3
<1>13. ASSUME NEW b \in BOOLEAN, v = OnInterest(w, src, b)
       PROVE  Lives(v, s)
  <2> DEFINE e == Interested(d, b)
             o == obs_peer_interest(src, b)
  <2>1. /\ e \in conn /\ v \in WireState /\ v.have = w.have /\ v.out_obs = Append(w.out_obs, o)
        /\ WireStep(WithConn(w, src, e), v)
    BY <1>13, OnInterestIs
  <2>2. SameKept(d, e)
    BY <1>0, FlagsKeep
  <2>3. KeptIn(v)
    BY <2>1, <2>2, StillKept DEF KeptIn
  <2>4. o \in Obs /\ o.kind # "completion"
    BY ObservationTypes DEF obs_peer_interest
  <2> QED BY <1>2, <2>1, <2>3, <2>4
<1>14. ASSUME NEW bits \in SUBSET Pieces, d.handshake_received, v = OnAvailability(w, src, bits)
       PROVE  Lives(v, s)
  <2> DEFINE e == Announced(d, bits)
             o == obs_availability(src, bits)
  <2>1. /\ e \in conn /\ v \in WireState /\ v.have = w.have /\ v.out_obs = Append(w.out_obs, o)
        /\ WireStep(WithConn(w, src, e), v)
    BY <1>14, OnAvailabilityIs
  <2>2. SameKept(d, e)
    BY <1>0, FlagsKeep
  <2>3. KeptIn(v)
    BY <2>1, <2>2, StillKept DEF KeptIn
  <2>4. o \in Obs /\ o.kind # "completion"
    BY ObservationTypes DEF obs_availability
  <2> QED BY <1>2, <2>1, <2>3, <2>4
<1>15. CASE m.type = "have" /\ v = OnAvailability(w, src, d.peer_bitfield \cup {m.index})
  <2> DEFINE bits == d.peer_bitfield \cup {m.index}
  <2>1. bits \in SUBSET Pieces /\ d.handshake_received
    BY <1>0, <1>15, MessageIs
  <2> HIDE DEF bits
  <2> QED BY <1>14, <1>15, <2>1 DEF bits
<1>16. CASE m.type = "bitfield" /\ v = OnAvailability(w, src, m.pieces)
  <2>1. m.pieces \in SUBSET Pieces /\ d.handshake_received
    BY <1>16, MessageIs
  <2> QED BY <1>14, <1>16, <2>1
<1>17. CASE m.type = "request" /\ v = OnRequest(w, src, m.sub)
  <2> DEFINE o == obs_upload(src, sp[1])
  <2>1. sp \in SubPieceId /\ d.handshake_received
    BY <1>17, MessageIs
  <2>2. /\ v \in WireState /\ v.have = w.have /\ WireStep(w, v)
        /\ v.out_obs = w.out_obs \/ v.out_obs = Append(w.out_obs, o)
    BY <1>17, <2>1, OnRequestIs
  <2>3. KeptIn(v)
    BY <2>2, StepKeeps DEF KeptIn
  <2>4. o \in Obs /\ o.kind # "completion"
    <3>1. sp[1] \in Pieces
      BY <2>1 DEF SubPieceId
    <3> QED BY <3>1, ObservationTypes DEF obs_upload
  <2> QED BY <1>1, <1>2, <2>2, <2>3, <2>4
<1>18. CASE m.type = "piece" /\ v = OnPiece(w, src, m.sub)
  <2>1. sp \in SubPieceId /\ d.handshake_received
    BY <1>18, MessageIs
  <2>2. CASE ~Contains(d.outstanding, sp)
    <3>1. v = w
      BY <1>18, <2>2 DEF OnPiece
    <3> QED BY <3>1
  <2>3. CASE Contains(d.outstanding, sp)
    BY <1>18, <2>1, <2>3, LivesPiece
  <2> QED BY <2>2, <2>3
<1>19. CASE v = w
  BY <1>19
<1> QED BY <1>10, <1>11, <1>12, <1>13, <1>15, <1>16, <1>17, <1>18, <1>19 DEF Received

\* A command changes nothing of it,
LEMMA LivesCommand ==
  ASSUME NEW w \in WireState, Good(w), NEW s, Lives(w, s), NEW peer \in Clients, NEW unchoke \in BOOLEAN,
         w.conns[peer].handshake_sent, w.conns[peer].am_choking = unchoke
  PROVE  Lives(Commanded(w, peer, unchoke), s)
<1> DEFINE v == Commanded(w, peer, unchoke)
<1>1. v \in WireState /\ v.have = w.have /\ v.out_obs = w.out_obs /\ WireStep(w, v)
  BY CommandedIs
<1> HIDE DEF v
<1>2. \A q \in Clients : SameKept(w.conns[q], v.conns[q])
  BY <1>1, StepKeeps
<1>3. Lives(v, s)
  BY <1>1, <1>2, LivesQuiet
<1> QED BY <1>3 DEF v

\* and a client starts with nothing asked.
LEMMA LivesBegin ==
  ASSUME NEW self \in Clients, NEW w \in WireState, Begins(self, w)
  PROVE  Lives(w, NoPlans)
<1>1. /\ \A q \in Clients : w.conns[q] = NoConn \/ w.conns[q] = Opened(NoConn)
      /\ w.out_obs = <<>>
  BY BeginsIs
<1>2. FullOwned(w) /\ PlansOnce(NoPlans)
  BY <1>1 DEF FullOwned, PlansOnce, NoPlans
<1>3. ASSUME NEW q \in Clients, NEW x \in SubPieceId
      PROVE  Life(w, NoPlans, q, x)
  <2>1. KeptCount(w.conns[q], x) = 0
    <3>1. KeptCount(NoConn, x) = 0
      BY CountEmpty DEF KeptCount, NoConn
    <3>2. KeptCount(Opened(NoConn), x) = KeptCount(NoConn, x)
      BY FreshIs, FlagsKeep DEF SameKept
    <3> QED BY <1>1, <3>1, <3>2
  <2>2. /\ At(NoPlans.pending, AddsTo(q, x)) = {} /\ At(NoPlans.pending, DropsOf(q, x)) = {}
        /\ At(w.out_obs, Delivers(q, x)) = {}
    BY <1>1, AtNone DEF NoPlans
  <2>3. (q \in NoPlans.requested_from[x]) = FALSE
    BY DEF NoPlans
  <2>4. Got(NoPlans, x) = FALSE
    BY DEF Got, Started, NoPlans
  <2>5. \A started : LifeOf(FALSE, started, FALSE, 0, {}, {}, {})
    BY DEF LifeOf, Once
  <2> QED BY <2>1, <2>2, <2>3, <2>4, <2>5 DEF Life
<1> QED BY <1>2, <1>3 DEF Lives

\* Every sub-piece of an incomplete piece is somewhere in its life at every client.
LifeInv == \A p \in Clients : Lives(wire[p], selector[p])

\* A step of one client.
LEMMA LivesChange ==
  ASSUME wire \in Wires, selector \in Selectors, LifeInv, NEW p \in Clients, NEW v, NEW t,
         wire' = [wire EXCEPT ![p] = v], selector' = [selector EXCEPT ![p] = t], Lives(v, t)
  PROVE  LifeInv'
<1>1. \A q \in Clients : q # p => wire'[q] = wire[q] /\ selector'[q] = selector[q]
  BY DEF Wires, Selectors
<1>2. wire'[p] = v /\ selector'[p] = t
  BY DEF Wires, Selectors
<1>3. \A q \in Clients : Lives(wire'[q], selector'[q])
  BY <1>1, <1>2 DEF LifeInv
<1> QED BY <1>3 DEF LifeInv

\* It holds initially,
LEMMA InitLives ==
  Init => LifeInv
<1> SUFFICES ASSUME Init, NEW p \in Clients PROVE Lives(wire[p], selector[p])
  BY DEF LifeInv
<1>1. wire[p] \in WireState /\ Begins(p, wire[p]) /\ selector[p] = NoPlans
  BY InitIs DEF Wires
<1> QED BY <1>1, LivesBegin

\* and every step keeps it.
LEMMA NextLives ==
  IInv /\ LifeInv /\ [Next]_vars => LifeInv'
<1> SUFFICES ASSUME IInv, LifeInv, [Next]_vars PROVE LifeInv'
  OBVIOUS
<1>0. /\ wire \in Wires /\ selector \in Selectors /\ link \in Links /\ Pairs(wire, link)
      /\ Sound(wire, selector, link)
      /\ \A p \in Clients : /\ wire[p] \in WireState /\ selector[p] \in SelState
                            /\ Good(wire[p]) /\ Asks(wire[p]) /\ SelGood(selector[p])
                            /\ Follows(wire[p], selector[p]) /\ Lives(wire[p], selector[p])
  <2>1. Sound(wire, selector, link)
    BY DEF IInv
  <2> QED BY <2>1 DEF Sound, Local, Wires, Selectors, LifeInv
<1>00. selector = [p \in Clients |-> selector[p]] /\ \A p \in Clients : selector = [selector EXCEPT ![p] = selector[p]]
  BY <1>0 DEF Selectors
<1>1. ASSUME NEW self \in Clients, Emit(self) PROVE LifeInv'
  <2> DEFINE v == Popping(wire[self])
             t == Seen(selector[self], wire[self])
  <2>1. wire' = [wire EXCEPT ![self] = v] /\ selector' = [selector EXCEPT ![self] = t]
    BY <1>0, <1>1, EmitIs
  <2>2. Lives(v, t)
    BY <1>0, LivesSeen
  <2> HIDE DEF v, t
  <2> QED BY <1>0, <2>1, <2>2, LivesChange
<1>2. ASSUME NEW self \in Clients, Plan(self) PROVE LifeInv'
  <2> DEFINE s == selector[self]
             v == AfterPlan(wire[self], Head(s.pending))
             t == [s EXCEPT !.pending = Tail(@)]
  <2>1. s.pending # <<>> /\ wire' = [wire EXCEPT ![self] = v]
    BY <1>0, <1>2, PlanIs
  <2>2. selector' = [selector EXCEPT ![self] = t]
    BY <1>0, <1>2 DEF Plan, EmitPlan, Selectors, SelState
  <2>3. Lives(v, t)
    BY <1>0, <2>1, LivesPlan
  <2> HIDE DEF v, t
  <2> QED BY <1>0, <2>1, <2>2, <2>3, LivesChange
<1>3. ASSUME NEW self \in Clients, NEW src \in Clients, Receive(self, src) PROVE LifeInv'
  <2> DEFINE m == Head(link[src][self])
             w == wire[self]
  <2>1. /\ link[src][self] # <<>> /\ selector' = selector
        /\ \E v : wire' = [wire EXCEPT ![self] = v] /\ Received(w, src, m, v)
    BY <1>0, <1>3, ReceiveIs
  <2>2. PICK v : wire' = [wire EXCEPT ![self] = v] /\ Received(w, src, m, v)
    BY <2>1
  <2>3. m \in WireMsg /\ (m.type # "handshake" => w.conns[src].handshake_received)
    BY <1>0, <2>1, ArrivalIs DEF Arrives
  <2>4. Lives(v, selector[self])
    BY <1>0, <2>2, <2>3, LivesReceive
  <2>5. selector' = [selector EXCEPT ![self] = selector[self]]
    BY <1>00, <2>1
  <2> QED BY <1>0, <2>2, <2>4, <2>5, LivesChange
<1>4. ASSUME NEW self \in Clients, NEW peer \in Clients, NEW unchoke \in BOOLEAN,
             Command(self, peer, unchoke)
      PROVE  LifeInv'
  <2> DEFINE v == Commanded(wire[self], peer, unchoke)
  <2>1. /\ wire[self].conns[peer].handshake_sent /\ wire[self].conns[peer].am_choking = unchoke
        /\ wire' = [wire EXCEPT ![self] = v] /\ selector' = selector
    BY <1>4 DEF Command, handle_choke_cmd, HasConn, Commanded
  <2>2. Lives(v, selector[self])
    BY <1>0, <2>1, LivesCommand
  <2>3. selector' = [selector EXCEPT ![self] = selector[self]]
    BY <1>00, <2>1
  <2> HIDE DEF v
  <2> QED BY <1>0, <2>1, <2>2, <2>3, LivesChange
<1>5. ASSUME NEW self \in Clients, NEW peer \in Clients, UnchokePeer(self, peer) PROVE LifeInv'
  BY <1>4, <1>5 DEF UnchokePeer
<1>6. ASSUME NEW self \in Clients, NEW peer \in Clients, ChokePeer(self, peer) PROVE LifeInv'
  BY <1>4, <1>6 DEF ChokePeer
<1>7. ASSUME UNCHANGED vars PROVE LifeInv'
  BY <1>7 DEF vars, LifeInv
<1> QED BY <1>1, <1>2, <1>3, <1>5, <1>6, <1>7 DEF Next

\* Always, each sub-piece of an incomplete piece is at each peer planned, kept or
\* delivered, at most one of these and once, and what the selector has given up is
\* cancelled behind its plan (LifeOf).
THEOREM LifeInvariant == Spec => []LifeInv
<1>1. Init => LifeInv
  BY InitLives
<1>2. IInv /\ LifeInv /\ [Next]_vars => LifeInv'
  BY NextLives
<1> QED BY <1>1, <1>2, InductiveInvariant, PTL DEF Spec

\* What it says of a sub-piece.
LEMMA LifeInvIs ==
  ASSUME IInv, LifeInv, NEW p \in Clients, NEW q \in Clients, NEW sp \in SubPieceId,
         sp[1] \notin wire[p].have
  PROVE  /\ KeptCount(wire[p].conns[q], sp) <= 1
         /\ q \in selector[p].requested_from[sp] =>
              InPlans(p, q, sp) \/ Contains(Kept(p, q), sp) \/ Completing(p, q, sp)
         /\ Contains(Kept(p, q), sp) =>
              q \in selector[p].requested_from[sp] \/ CancelInPlans(p, q, sp)
<1> DEFINE a == selector[p].pending
           b == wire[p].out_obs
           c == wire[p].conns[q]
           k == KeptCount(c, sp)
           asked == q \in selector[p].requested_from[sp]
<1>1. /\ a \in Seq(request_plan) /\ b \in Seq(Obs) /\ c \in conn
      /\ DOMAIN a = 1 .. Len(a) /\ DOMAIN b = 1 .. Len(b)
  BY IInvIs, SelType, ConnType
<1>2. LifeOf(asked, sp[1] \in Started(selector[p]), Got(selector[p], sp), k,
             At(a, AddsTo(q, sp)), At(a, DropsOf(q, sp)), At(b, Delivers(q, sp)))
  BY DEF LifeInv, Lives, Life
<1>3. /\ k <= 1
      /\ asked => At(a, AddsTo(q, sp)) # {} \/ k = 1 \/ At(b, Delivers(q, sp)) # {}
      /\ ~asked => (k = 1 => At(a, DropsOf(q, sp)) # {})
  BY <1>2 DEF LifeOf
<1>4. k \in Nat /\ (Contains(Kept(p, q), sp) <=> k > 0)
  <2> DEFINE o == c.outstanding
             n == c.planned
  <2>1. o \in Seq(SubPieceId) /\ n \in Seq(SubPieceId)
    BY <1>1 DEF conn
  <2>2. k = Count(o, sp) + Count(n, sp) /\ Kept(p, q) = o \o n
    BY DEF KeptCount, Kept
  <2> HIDE DEF o, n, k
  <2>3. o \o n \in Seq(SubPieceId) /\ Count(o \o n, sp) = k
    BY <2>1, <2>2, CountConcat
  <2>4. Contains(o \o n, sp) <=> Count(o \o n, sp) > 0
    BY <2>3, CountContains
  <2>5. Count(o \o n, sp) \in Nat
    BY <2>3, CountType
  <2> QED BY <2>2, <2>3, <2>4, <2>5
<1>5. At(a, AddsTo(q, sp)) # {} => InPlans(p, q, sp)
  BY <1>1 DEF At, AddsTo, InPlans
<1>6. At(a, DropsOf(q, sp)) # {} => CancelInPlans(p, q, sp)
  BY <1>1 DEF At, DropsOf, CancelInPlans
<1>7. At(b, Delivers(q, sp)) # {} => Completing(p, q, sp)
  BY <1>1 DEF At, Delivers, Completing
<1> HIDE DEF a, b, k
<1>8. k > 0 => k = 1
  BY <1>3, <1>4
<1> QED BY <1>3, <1>4, <1>5, <1>6, <1>7, <1>8 DEF k

\* The selector's record of whom it asked is what the wire does, while a piece is
\* incomplete, however requests, chokes, completions and cancellations cross: the
\* plans leave in the order in which try_plan_for and handle_completion made them.
THEOREM RequestPlansAlwaysAgree == Spec => []PlansAgree
<1>1. IInv /\ LifeInv => PlansAgree
  <2> SUFFICES ASSUME IInv, LifeInv, NEW p \in Clients, NEW q \in Clients,
                      NEW sp \in (Pieces \ wire[p].have) \X SubPieces
               PROVE  /\ q \in selector[p].requested_from[sp] =>
                           InPlans(p, q, sp) \/ Contains(Kept(p, q), sp) \/ Completing(p, q, sp)
                      /\ Contains(Kept(p, q), sp) =>
                           q \in selector[p].requested_from[sp] \/ CancelInPlans(p, q, sp)
    BY DEF PlansAgree
  <2>1. sp \in SubPieceId /\ sp[1] \notin wire[p].have
    BY DEF SubPieceId
  <2> QED BY <2>1, LifeInvIs
<1> QED BY <1>1, InductiveInvariant, LifeInvariant, PTL

\* Two places of one sub-piece count twice.
LEMMA CountTwice ==
  ASSUME NEW S, NEW s \in Seq(S), NEW i \in 1 .. Len(s), NEW j \in 1 .. Len(s), s[i] = s[j],
         Count(s, s[i]) <= 1
  PROVE  i = j
<1> DEFINE I == {n \in 1 .. Len(s) : s[n] = s[i]}
<1>1. i \in I /\ j \in I
  OBVIOUS
<1>2. IsFiniteSet(I) /\ Cardinality(I) <= 1
  BY CountType DEF Count
<1> HIDE DEF I
<1>3. Cardinality(I) = 0 \/ Cardinality(I) = 1
  BY <1>2, FS_CardinalityType
<1> QED BY <1>1, <1>2, <1>3, FS_EmptySet, FS_Singleton

\* No sub-piece of an incomplete piece is kept twice for a peer, as try_plan_for asks
\* for no sub-piece that its record says has been asked.
THEOREM NeverAskedTwice == Spec => []NoDuplicates
<1>1. IInv /\ LifeInv => NoDuplicates
  <2> SUFFICES ASSUME IInv, LifeInv, NEW p \in Clients, NEW q \in Clients
               PROVE  /\ Len(wire[p].conns[q].outstanding) <= PipelineDepth
                      /\ \A i, j \in DOMAIN Kept(p, q) :
                           Kept(p, q)[i] = Kept(p, q)[j] /\ Kept(p, q)[i][1] \notin wire[p].have => i = j
    BY DEF NoDuplicates
  <2>1. Len(wire[p].conns[q].outstanding) <= PipelineDepth
    BY PipelineHolds DEF PipelineBounded
  <2> DEFINE r == Kept(p, q)
             c == wire[p].conns[q]
             o == c.outstanding
             n == c.planned
  <2>2. c \in conn
    BY IInvIs, ConnType
  <2>3. o \in Seq(SubPieceId) /\ n \in Seq(SubPieceId) /\ r = o \o n
    BY <2>2 DEF conn, Kept
  <2>4. \A x : KeptCount(c, x) = Count(o, x) + Count(n, x)
    BY DEF KeptCount
  <2> HIDE DEF r, o, n
  <2>5. r \in Seq(SubPieceId) /\ \A x : Count(r, x) = Count(o, x) + Count(n, x)
    BY <2>3, CountConcat
  <2>6. ASSUME NEW i \in DOMAIN r, NEW j \in DOMAIN r, r[i] = r[j], r[i][1] \notin wire[p].have
        PROVE  i = j
    <3>1. i \in 1 .. Len(r) /\ j \in 1 .. Len(r) /\ r[i] \in SubPieceId
      BY <2>5
    <3>2. KeptCount(c, r[i]) <= 1
      BY <2>6, <3>1, LifeInvIs
    <3>3. Count(r, r[i]) <= 1
      BY <2>4, <2>5, <3>2
    <3> QED BY <2>5, <2>6, <3>1, <3>3, CountTwice
  <2> QED BY <2>1, <2>6 DEF r
<1> QED BY <1>1, InductiveInvariant, LifeInvariant, PTL
=============================================================================
