------------------------------- MODULE PeerWire -------------------------------
(***************************************************************************)
(* peer_wire.hpp: the connection state machine of every client, one record *)
(* wire[self] per client.  Each handler is an operator from that state to  *)
(* the next one; what it sends is appended to out_wire, what it tells the  *)
(* policies to out_obs.                                                    *)
(*                                                                         *)
(* A vector of bits is the set of its true indices.  A sub-piece is a pair *)
(* of a piece and an index in it: its byte offset, which the code computes *)
(* and divides again, is the same thing with pieces of one size.           *)
(***************************************************************************)
EXTENDS Integers, Sequences, FiniteSets, SequencesExt, OrderedMaps

CONSTANTS
  Clients,        \* ids of the clients
  TotalPieces, SubPiecesPerPiece,
  PipelineDepth,  \* requests outstanding per connection
  InitialHave,    \* InitialHave[self]: pieces self owns at the start
  ConnectTo       \* ConnectTo[self]: the set of the peer self opens to, or {}

Pieces == 0 .. TotalPieces - 1
SubPieces == 0 .. SubPiecesPerPiece - 1
SubPieceId == Pieces \X SubPieces

ASSUME ClientsAssumption == Clients \subseteq Nat /\ IsFiniteSet(Clients)
ASSUME GeometryAssumption ==
  TotalPieces \in Nat \ {0} /\ SubPiecesPerPiece \in Nat \ {0} /\ PipelineDepth \in Nat \ {0}
ASSUME SwarmAssumption ==
  /\ InitialHave \in [Clients -> SUBSET Pieces]
  /\ ConnectTo \in [Clients -> SUBSET Clients]
  /\ \A self \in Clients : self \notin ConnectTo[self] /\ Cardinality(ConnectTo[self]) <= 1

VARIABLE wire   \* wire[self]: have, conns, out_wire, out_obs

-----------------------------------------------------------------------------
\* Messages, observations and plans.
Handshake == [type |-> "handshake"]
Bitfield(pieces) == [type |-> "bitfield", pieces |-> pieces]
Have(p) == [type |-> "have", index |-> p]
Choke(unchoke) == [type |-> IF unchoke THEN "unchoke" ELSE "choke"]
Interest(b) == [type |-> IF b THEN "interested" ELSE "not_interested"]
Request(sp) == [type |-> "request", sub |-> sp]
Piece(sp) == [type |-> "piece", sub |-> sp]
Cancel(sp) == [type |-> "cancel", sub |-> sp]

WireMsg ==
  {Handshake} \cup {Bitfield(s) : s \in SUBSET Pieces} \cup {Have(p) : p \in Pieces}
  \cup {Choke(b) : b \in BOOLEAN} \cup {Interest(b) : b \in BOOLEAN}
  \cup UNION {{Request(sp), Piece(sp), Cancel(sp)} : sp \in SubPieceId}

obs_peer_interest(peer, b) == [kind |-> "interest", peer |-> peer, interested |-> b]
obs_availability(peer, bits) == [kind |-> "availability", peer |-> peer, bitfield |-> bits]
obs_completion(peer, sp, full) ==
  [kind |-> "completion", peer |-> peer, sub |-> sp, full_piece |-> full]
obs_upload(peer, p) == [kind |-> "upload", peer |-> peer, piece_index |-> p]

Obs ==
  {obs_peer_interest(q, b) : q \in Clients, b \in BOOLEAN}
  \cup {obs_availability(q, s) : q \in Clients, s \in SUBSET Pieces}
  \cup {obs_completion(q, sp, b) : q \in Clients, sp \in SubPieceId, b \in BOOLEAN}
  \cup {obs_upload(q, p) : q \in Clients, p \in Pieces}

request_plan == [peer : Clients, items : Seq(SubPieceId), cancellations : Seq(SubPieceId)]

-----------------------------------------------------------------------------
\* Connections.
NoConn == [handshake_sent |-> FALSE, handshake_received |-> FALSE,
           am_choking |-> TRUE, am_interested |-> FALSE,
           peer_choking |-> TRUE, peer_interested |-> FALSE,
           peer_bitfield |-> {}, in_progress |-> [p \in Pieces |-> {}],
           outstanding |-> <<>>, planned |-> <<>>]

conn ==
  [handshake_sent : BOOLEAN, handshake_received : BOOLEAN,
   am_choking : BOOLEAN, am_interested : BOOLEAN,
   peer_choking : BOOLEAN, peer_interested : BOOLEAN,
   peer_bitfield : SUBSET Pieces, in_progress : [Pieces -> SUBSET SubPieces],
   outstanding : Seq(SubPieceId), planned : Seq(SubPieceId)]

\* An entry of state.conns is made only together with handshake_sent.
HasConn(w, peer) == w.conns[peer].handshake_sent

queue_to(w, dst, m) == [w EXCEPT !.out_wire = Append(@, [dst |-> dst, msg |-> m])]
observe(w, o) == [w EXCEPT !.out_obs = Append(@, o)]

queue_handshake_and_bitfield(w, dst) ==
  queue_to(queue_to([w EXCEPT !.conns[dst].handshake_sent = TRUE], dst, Handshake),
           dst, Bitfield(w.have))

\* The constructor, which opens the connection connect_to asks for.
WireInit ==
  wire = [self \in Clients |->
    LET w == [have |-> InitialHave[self], conns |-> [peer \in Clients |-> NoConn],
              out_wire |-> <<>>, out_obs |-> <<>>]
    IN  IF ConnectTo[self] = {} THEN w
        ELSE queue_handshake_and_bitfield(w, CHOOSE peer \in ConnectTo[self] : TRUE)]

missing(w, p) == p \notin w.have

should_interest(w, peer) == \E p \in w.conns[peer].peer_bitfield : missing(w, p)
set_interest(w, peers) ==
  [peer \in Clients |-> IF peer \in peers
                        THEN [w.conns[peer] EXCEPT !.am_interested = should_interest(w, peer)]
                        ELSE w.conns[peer]]

\* Faulty: a peer is told only that interest began.
RecomputeTellsOnset(w, peers) ==
  LET changed == Ascending({q \in peers : should_interest(w, q) /\ ~w.conns[q].am_interested})
  IN  [w EXCEPT !.conns = set_interest(w, peers),
                !.out_wire = @ \o [i \in DOMAIN changed |->
                    [dst |-> changed[i], msg |-> Interest(TRUE)]]]

\* Towards each of peers in turn: those for which it changed are told.
recompute_interest(w, peers) ==
  LET changed == Ascending({q \in peers : should_interest(w, q) # w.conns[q].am_interested})
  IN  [w EXCEPT !.conns = set_interest(w, peers),
                !.out_wire = @ \o [i \in DOMAIN changed |->
                    [dst |-> changed[i], msg |-> Interest(should_interest(w, changed[i]))]]]

RecomputeAllInterest(w) == recompute_interest(w, {q \in Clients : HasConn(w, q)})

fill_pipeline(w, peer) ==
  LET c == w.conns[peer]
      room == PipelineDepth - Len(c.outstanding)
      n == IF c.peer_choking THEN 0 ELSE IF room < Len(c.planned) THEN room ELSE Len(c.planned)
      asked == SubSeq(c.planned, 1, n)
  IN  [w EXCEPT !.conns[peer].outstanding = @ \o asked,
                !.conns[peer].planned = SubSeq(@, n + 1, Len(@)),
                !.out_wire = @ \o [i \in 1 .. n |-> [dst |-> peer, msg |-> Request(asked[i])]]]

-----------------------------------------------------------------------------
\* handle_wire_in, by message.  All but the handshake are dropped before the
\* other side's handshake.
OnHandshake(w, src) ==
  IF w.conns[src].handshake_received THEN w
  ELSE LET r == [w EXCEPT !.conns[src].handshake_received = TRUE]
       IN  IF r.conns[src].handshake_sent THEN r ELSE queue_handshake_and_bitfield(r, src)

\* Faulty: requests stay outstanding through a choke, or are forgotten by it.
OnChokeKeeping(w, src) == [w EXCEPT !.conns[src].peer_choking = TRUE]
OnChokeForgetting(w, src) ==
  [w EXCEPT !.conns[src].peer_choking = TRUE, !.conns[src].outstanding = <<>>]

\* Requests under way are presumed dropped and go back to the plan's front.
OnChoke(w, src) ==
  [w EXCEPT !.conns[src].peer_choking = TRUE,
            !.conns[src].planned = w.conns[src].outstanding \o @,
            !.conns[src].outstanding = <<>>]

OnUnchoke(w, src) == fill_pipeline([w EXCEPT !.conns[src].peer_choking = FALSE], src)

OnInterest(w, src, b) ==
  observe([w EXCEPT !.conns[src].peer_interested = b], obs_peer_interest(src, b))

\* have adds one piece to what the peer announced, bitfield replaces it.
OnAvailability(w, src, bits) ==
  observe(recompute_interest([w EXCEPT !.conns[src].peer_bitfield = bits], {src}),
          obs_availability(src, bits))

\* Served at once, or ignored for good.
OnRequest(w, src, sp) ==
  IF w.conns[src].am_choking \/ missing(w, sp[1]) THEN w
  ELSE observe(queue_to(w, src, Piece(sp)), obs_upload(src, sp[1]))

\* Faulty: interest is recomputed towards src only.
CompletePieceForSrc(w, src, p) ==
  recompute_interest(
    queue_to([w EXCEPT !.have = @ \cup {p}, !.conns[src].in_progress[p] = {}], src, Have(p)), {src})

\* The whole piece is there: it is announced to src, and interest in every
\* peer may have ended.
CompletePiece(w, src, p) ==
  RecomputeAllInterest(
    queue_to([w EXCEPT !.have = @ \cup {p}, !.conns[src].in_progress[p] = {}], src, Have(p)))

OnPiece(w, src, sp) ==
  IF ~Contains(w.conns[src].outstanding, sp) THEN w
  ELSE LET r == [w EXCEPT !.conns[src].outstanding = RemoveFirst(@, sp),
                          !.conns[src].in_progress[sp[1]] = @ \cup {sp[2]}]
           piece_done == r.conns[src].in_progress[sp[1]] = SubPieces
           done == IF piece_done THEN CompletePiece(r, src, sp[1]) ELSE r
       IN  fill_pipeline(observe(done, obs_completion(src, sp, piece_done)), src)

\* A message of src reaches self.
handle_wire_in(self, src, m) ==
  LET w == wire[self]
      known == w.conns[src].handshake_received
      Becomes(next) == wire' = [wire EXCEPT ![self] = next]
  IN  \/ m.type = "handshake" /\ Becomes(OnHandshake(w, src))
      \/ m.type # "handshake" /\ ~known /\ UNCHANGED wire
      \/ m.type = "choke" /\ known /\ Becomes(OnChoke(w, src))
      \/ m.type = "unchoke" /\ known /\ Becomes(OnUnchoke(w, src))
      \/ m.type = "interested" /\ known /\ Becomes(OnInterest(w, src, TRUE))
      \/ m.type = "not_interested" /\ known /\ Becomes(OnInterest(w, src, FALSE))
      \/ /\ m.type = "have" /\ known
         /\ Becomes(OnAvailability(w, src, w.conns[src].peer_bitfield \cup {m.index}))
      \/ m.type = "bitfield" /\ known /\ Becomes(OnAvailability(w, src, m.pieces))
      \/ m.type = "request" /\ known /\ Becomes(OnRequest(w, src, m.sub))
      \/ m.type = "piece" /\ known /\ Becomes(OnPiece(w, src, m.sub))
      \/ m.type = "cancel" /\ known /\ UNCHANGED wire

-----------------------------------------------------------------------------
\* A command that changes nothing is ignored.
handle_choke_cmd(self, peer, unchoke) ==
  LET w == wire[self]
  IN  /\ HasConn(w, peer)
      /\ w.conns[peer].am_choking = unchoke
      /\ wire' = [wire EXCEPT ![self] =
           queue_to([w EXCEPT !.conns[peer].am_choking = ~unchoke], peer, Choke(unchoke))]

\* A cancelled sub-piece leaves the plan silently, or the requests with a
\* message; one in neither is let be.
CancelOne(peer, w, sp) ==
  LET c == w.conns[peer]
  IN  IF Contains(c.planned, sp) THEN [w EXCEPT !.conns[peer].planned = RemoveFirst(@, sp)]
      ELSE IF Contains(c.outstanding, sp)
      THEN queue_to([w EXCEPT !.conns[peer].outstanding = RemoveFirst(@, sp)], peer, Cancel(sp))
      ELSE w

handle_plan_in(self, plan) ==
  LET w == wire[self]
      peer == plan.peer
      cancelled == FoldLeft(LAMBDA v, sp : CancelOne(peer, v, sp), w, plan.cancellations)
      planned == [cancelled EXCEPT !.conns[peer].planned = @ \o plan.items]
  IN  IF ~HasConn(w, peer) THEN UNCHANGED wire
      ELSE wire' = [wire EXCEPT ![self] = fill_pipeline(planned, peer)]

-----------------------------------------------------------------------------
\* time_advance is zero.
WireDue(self) == wire[self].out_wire # <<>> \/ wire[self].out_obs # <<>>

\* The front of a queue as the set of the at most one element it gives out.
Leaving(q) == IF q = <<>> THEN {} ELSE {Head(q)}
PopFront(q) == IF q = <<>> THEN q ELSE Tail(q)

\* internal_transition: one element leaves each queue that has one.
EmitWire(self) ==
  /\ WireDue(self)
  /\ wire' = [wire EXCEPT ![self].out_wire = PopFront(@), ![self].out_obs = PopFront(@)]

WireTypeOK ==
  wire \in [Clients -> [have : SUBSET Pieces, conns : [Clients -> conn],
                        out_wire : Seq([dst : Clients, msg : WireMsg]), out_obs : Seq(Obs)]]
=============================================================================
