------------------------------- MODULE Download -------------------------------
(***************************************************************************)
(* Clients that couple a wire and a selector as bittorrent_client does,    *)
(* joined by connections that deliver every message once and in order:     *)
(* what ReliableStream promises of the sockets.  The choking policy is any *)
(* that chokes at most MaxChokes times in all and unchokes only interested *)
(* peers.                                                                  *)
(***************************************************************************)
EXTENDS PieceSelector

CONSTANT MaxChokes
ASSUME ChokesAssumption == MaxChokes \in Nat

VARIABLES
  link,    \* link[src][dst]: messages under way
  chokes

vars == <<wire, selector, link, chokes>>

Init ==
  /\ WireInit
  /\ SelectorInit
  /\ link = [src \in Clients |-> [dst \in Clients |-> <<>>]]
  /\ chokes = 0

-----------------------------------------------------------------------------
\* One message and one observation leave the wire; the selector sees the
\* observation in the same step.
Emit(self) ==
  /\ EmitWire(self)
  /\ Observe(self, Leaving(wire[self].out_obs))
  /\ link' = [link EXCEPT ![self] = [dst \in Clients |->
       link[self][dst] \o (IF \E f \in Leaving(wire[self].out_wire) : f.dst = dst
                           THEN <<Head(wire[self].out_wire).msg>> ELSE <<>>)]]
  /\ UNCHANGED chokes

\* A message may arrive at any moment, as sockets go before the wire.
Receive(self, src) ==
  /\ link[src][self] # <<>>
  /\ handle_wire_in(self, src, Head(link[src][self]))
  /\ link' = [link EXCEPT ![src][self] = Tail(@)]
  /\ UNCHANGED <<selector, chokes>>

\* The wire goes before the selector, and both before the choking policy.
Plan(self) ==
  /\ ~WireDue(self)
  /\ EmitPlan(self)
  /\ handle_plan_in(self, Head(selector[self].pending))
  /\ UNCHANGED <<link, chokes>>

Command(self, peer, unchoke) ==
  /\ ~WireDue(self) /\ ~SelectorDue(self)
  /\ handle_choke_cmd(self, peer, unchoke)
  /\ UNCHANGED <<selector, link>>

UnchokePeer(self, peer) ==
  /\ wire[self].conns[peer].peer_interested
  /\ Command(self, peer, TRUE)
  /\ UNCHANGED chokes

ChokePeer(self, peer) ==
  /\ chokes < MaxChokes
  /\ Command(self, peer, FALSE)
  /\ chokes' = chokes + 1

Next ==
  \/ \E self \in Clients : Emit(self) \/ Plan(self)
  \/ \E self, peer \in Clients :
       Receive(self, peer) \/ UnchokePeer(self, peer) \/ ChokePeer(self, peer)

Spec == Init /\ [][Next]_vars

\* The coordinator runs what is due, the sockets deliver, and the policy gives
\* every interested peer its turn.
Fairness ==
  /\ \A self \in Clients : WF_vars(Emit(self)) /\ WF_vars(Plan(self))
  /\ \A self, peer \in Clients :
       WF_vars(Receive(self, peer)) /\ WF_vars(UnchokePeer(self, peer))

FairSpec == Spec /\ Fairness

-----------------------------------------------------------------------------
\* Every variable holds values of its type.
TypeOK ==
  /\ WireTypeOK
  /\ SelectorTypeOK
  /\ link \in [Clients -> [Clients -> Seq(WireMsg)]]
  /\ chokes \in 0 .. MaxChokes

\* What of the queue out is for dst; the entries for others are left blank.
Blank == [type |-> "none"]
For(dst, out) == [i \in DOMAIN out |-> IF out[i].dst = dst THEN out[i].msg ELSE Blank]

\* What src has sent dst and dst has not yet handled, oldest first.
UnderWay(src, dst) == link[src][dst] \o For(dst, wire[src].out_wire)

\* The type of the last of the messages ms that is of one of types.
LastOf(ms, types) ==
  LET telling == {i \in DOMAIN ms : ms[i].type \in types}
  IN  IF telling = {} THEN Blank.type ELSE ms[Max(telling)].type

\* The value of a flag, that is now, once the messages ms have arrived.
Told(ms, on, off, now) ==
  LET last == LastOf(ms, {on, off})
  IN  IF last = Blank.type THEN now ELSE last = on

\* Both ends of a connection come to agree on who chokes whom and on who is
\* interested, however commands, announcements and completions cross: the
\* one's own flag is what the other holds once the messages under way are in
\* (recompute_interest and handle_choke_cmd send exactly on a change).
ViewsAgree ==
  \A p, q \in Clients : p # q =>
    LET mine == wire[p].conns[q]
        theirs == wire[q].conns[p]
    IN  /\ mine.am_choking = Told(UnderWay(p, q), "choke", "unchoke", theirs.peer_choking)
        /\ mine.am_interested =
             Told(UnderWay(p, q), "interested", "not_interested", theirs.peer_interested)

\* A client is interested in a peer exactly if that peer has announced a piece
\* it lacks, on every connection, also after a piece came in on another one
\* (the loop over all connections in handle_wire_in).
InterestIsCurrent ==
  \A p, q \in Clients :
    wire[p].conns[q].am_interested <=> wire[p].conns[q].peer_bitfield \ wire[p].have # {}

Waiting(p, q) == ToSet(wire[p].conns[q].outstanding)

\* No request is forgotten: while p waits for a sub-piece of q, the request, its
\* answer or a choke that puts it back into the plan is under way, whatever
\* chokes, unchokes and cancellations the request has crossed.
RequestsAccounted ==
  \A p, q \in Clients : \A sp \in Waiting(p, q) :
    \/ Contains(UnderWay(p, q), Request(sp))
    \/ Contains(UnderWay(q, p), Piece(sp))
    \/ Contains(UnderWay(q, p), Choke(FALSE))

\* The sub-pieces p's wire keeps for q, requested or not.
Kept(p, q) == wire[p].conns[q].outstanding \o wire[p].conns[q].planned

InPlans(p, q, sp) ==
  \E i \in DOMAIN selector[p].pending : LET pl == selector[p].pending[i]
                                        IN  pl.peer = q /\ Contains(pl.items, sp)
CancelInPlans(p, q, sp) ==
  \E i \in DOMAIN selector[p].pending : LET pl == selector[p].pending[i]
                                        IN  pl.peer = q /\ Contains(pl.cancellations, sp)
Completing(p, q, sp) ==
  \E i \in DOMAIN wire[p].out_obs : LET o == wire[p].out_obs[i]
                                    IN  o.kind = "completion" /\ o.peer = q /\ o.sub = sp

\* While a piece is incomplete, the selector's record of whom it asked is what
\* the wire does: a sub-piece asked of a peer is planned, requested or just
\* delivered, and the wire asks for nothing the selector has given up, but for a
\* cancellation on its way.
PlansAgree ==
  \A p, q \in Clients : \A sp \in (Pieces \ wire[p].have) \X SubPieces :
    /\ q \in selector[p].requested_from[sp] =>
         InPlans(p, q, sp) \/ Contains(Kept(p, q), sp) \/ Completing(p, q, sp)
    /\ Contains(Kept(p, q), sp) =>
         q \in selector[p].requested_from[sp] \/ CancelInPlans(p, q, sp)

\* The count by which rarity is judged is the number of peers known to have the
\* piece, and no peer is believed to have a piece it does not have.
AvailabilityIsCount ==
  \A p \in Clients :
    /\ \A x \in Pieces :
         selector[p].availability[x] =
           Cardinality({q \in Clients : x \in selector[p].peer_bitfields[q]})
    /\ \A q \in Clients : wire[p].conns[q].peer_bitfield \subseteq wire[q].have

\* What started but incomplete means: some sub-piece of it has not been delivered.
StartedIsIncomplete ==
  \A p \in Clients : \A x \in Started(selector[p]) :
    selector[p].in_progress_pieces[x] # SubPieces

\* At most PipelineDepth sub-pieces are requested of a peer, and while a piece is
\* incomplete each sub-piece of it is planned or requested there at most once.
NoDuplicates ==
  \A p, q \in Clients :
    /\ Len(wire[p].conns[q].outstanding) <= PipelineDepth
    /\ \A i, j \in DOMAIN Kept(p, q) :
         Kept(p, q)[i] = Kept(p, q)[j] /\ Kept(p, q)[i][1] \notin wire[p].have => i = j

\* The pieces the clients possess spread as in PieceTransfer: nobody completes a
\* piece nobody has, no piece is lost, and in the end all have all.
Transfer == INSTANCE PieceTransfer WITH owned <- [self \in Clients |-> wire[self].have]
ImplementsTransfer == Transfer!TransferSpec
=============================================================================
