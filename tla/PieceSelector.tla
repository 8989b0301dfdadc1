----------------------------- MODULE PieceSelector -----------------------------
(***************************************************************************)
(* piece_selector.hpp: which sub-pieces to ask of which peer, one record   *)
(* selector[self] per client.  It sees the observations of PeerWire and    *)
(* answers with request plans.  An absent entry of requested_from is the   *)
(* empty set: no handler leaves an empty entry behind.                     *)
(***************************************************************************)
EXTENDS PeerWire

VARIABLE selector

SelectorInit ==
  selector = [self \in Clients |->
    [have |-> {},                                    \* whatever the client owns
     peer_bitfields |-> [peer \in Clients |-> {}],
     availability |-> [p \in Pieces |-> 0],
     in_progress_pieces |-> <<>>,                    \* started: delivered sub-pieces
     requested_from |-> [sp \in SubPieceId |-> {}],
     completed_count |-> 0,
     pending |-> <<>>]]

Started(s) == DOMAIN s.in_progress_pieces
plan(peer, items, cancellations) ==
  [peer |-> peer, items |-> items, cancellations |-> cancellations]

\* No sub-piece is left that nobody has been asked for.
in_endgame(s) ==
  \A p \in Pieces \ s.have :
    /\ p \in Started(s)
    /\ \A i \in SubPieces \ s.in_progress_pieces[p] : s.requested_from[<<p, i>>] # {}

-----------------------------------------------------------------------------
\* Faulty: every announcement counts its pieces again.
UpdateRecounting(s, peer, bits) ==
  [s EXCEPT !.availability = [p \in Pieces |-> IF p \in bits THEN @[p] + 1 ELSE @[p]],
            !.peer_bitfields[peer] = bits]

update_availability(s, peer, bits) ==
  LET new == bits \ s.peer_bitfields[peer]
  IN  [s EXCEPT !.availability = [p \in Pieces |-> IF p \in new THEN @[p] + 1 ELSE @[p]],
                !.peer_bitfields[peer] = bits]

\* Faulty: the others asked are forgotten without a cancellation.
CompletionWithoutCancel(s, peer, sp, full_piece) ==
  LET p == sp[1]
      before == IF p \in Started(s) THEN s.in_progress_pieces[p] ELSE {}
      r == [s EXCEPT !.requested_from[sp] = {}]
  IN  IF full_piece
      THEN [r EXCEPT !.have = @ \cup {p},
                     !.completed_count = @ + 1,
                     !.in_progress_pieces = [x \in Started(s) \ {p} |-> @[x]]]
      ELSE [r EXCEPT !.in_progress_pieces = Put(@, p, before \cup {sp[2]})]

\* Faulty: a complete piece keeps its progress.
CompletionKeepsProgress(s, peer, sp, full_piece) ==
  LET p == sp[1]
      before == IF p \in Started(s) THEN s.in_progress_pieces[p] ELSE {}
      r == [s EXCEPT !.requested_from[sp] = {},
                     !.in_progress_pieces = Put(@, p, before \cup {sp[2]})]
  IN  IF full_piece THEN [r EXCEPT !.have = @ \cup {p}, !.completed_count = @ + 1] ELSE r

\* A sub-piece has come from peer: whoever else was asked for it is cancelled.
handle_completion(s, peer, sp, full_piece) ==
  LET p == sp[1]
      before == IF p \in Started(s) THEN s.in_progress_pieces[p] ELSE {}
      others == Ascending(s.requested_from[sp] \ {peer})
      r == [s EXCEPT !.requested_from[sp] = {},
                     !.pending = @ \o [i \in DOMAIN others |-> plan(others[i], <<>>, <<sp>>)]]
  IN  IF full_piece
      THEN [r EXCEPT !.have = @ \cup {p},
                     !.completed_count = @ + 1,
                     !.in_progress_pieces = [x \in Started(s) \ {p} |-> @[x]]]
      ELSE [r EXCEPT !.in_progress_pieces = Put(@, p, before \cup {sp[2]})]

\* Faulty: in endgame a peer is asked again.
WantedAgain(s, peer, p) ==
  {i \in SubPieces \ s.in_progress_pieces[p] : s.requested_from[<<p, i>>] = {} \/ in_endgame(s)}

\* Sub-pieces of a started piece to ask peer for: nobody has been asked yet,
\* or in endgame this peer has not.
Wanted(s, peer, p) ==
  {i \in SubPieces \ s.in_progress_pieces[p] :
     LET askers == s.requested_from[<<p, i>>]
     IN  peer \notin askers /\ (askers = {} \/ in_endgame(s))}

\* Faulty: sub-pieces counted from one.
AskFromOne(s, peer, p, subs) ==
  LET order == Ascending(subs)
      items == [i \in DOMAIN order |-> <<p, order[i] + 1>>]
  IN  [s EXCEPT !.requested_from = [sp \in SubPieceId |->
                    IF sp[1] = p /\ sp[2] \in subs THEN @[sp] \cup {peer} ELSE @[sp]],
                !.pending = Append(@, plan(peer, items, <<>>))]

Ask(s, peer, p, subs) ==
  LET order == Ascending(subs)
      items == [i \in DOMAIN order |-> <<p, order[i]>>]
  IN  [s EXCEPT !.requested_from = [sp \in SubPieceId |->
                    IF sp[1] = p /\ sp[2] \in subs THEN @[sp] \cup {peer} ELSE @[sp]],
                !.pending = Append(@, plan(peer, items, <<>>))]

\* Rarest first, or the lowest index while no piece is complete.
Better(s, p, q) ==
  IF s.completed_count = 0 \/ s.availability[p] = s.availability[q] THEN p < q
  ELSE s.availability[p] < s.availability[q]

\* Strict priority: the lowest started piece with something to ask for, then
\* the best piece not yet started, then nothing.
try_plan_for(s, peer) ==
  LET bits == s.peer_bitfields[peer]
      started == {p \in Started(s) \cap bits : Wanted(s, peer, p) # {}}
      fresh == bits \ (s.have \cup Started(s))
      best == CHOOSE p \in fresh : \A q \in fresh \ {p} : Better(s, p, q)
      first == Min(started)
  IN  IF started # {} THEN Ask(s, peer, first, Wanted(s, peer, first))
      ELSE IF fresh # {}
      THEN Ask([s EXCEPT !.in_progress_pieces = Put(@, best, {})], peer, best, SubPieces)
      ELSE s

\* external_transition; other observations are the choking policy's concern.
OnObs(s, o) ==
  CASE o.kind = "availability" ->
         try_plan_for(update_availability(s, o.peer, o.bitfield), o.peer)
    [] o.kind = "completion" ->
         try_plan_for(handle_completion(s, o.peer, o.sub, o.full_piece), o.peer)
    [] OTHER -> s

\* The observations that leave self's wire in this step, at most one.
Observe(self, observations) ==
  selector' = [selector EXCEPT ![self] =
    IF observations = {} THEN @ ELSE OnObs(@, CHOOSE o \in observations : TRUE)]

\* time_advance is zero; internal_transition.
SelectorDue(self) == selector[self].pending # <<>>
EmitPlan(self) ==
  /\ SelectorDue(self)
  /\ selector' = [selector EXCEPT ![self].pending = Tail(@)]

SelectorTypeOK ==
  /\ DOMAIN selector = Clients
  /\ \A self \in Clients : LET s == selector[self] IN
       /\ s.have \subseteq Pieces
       /\ s.peer_bitfields \in [Clients -> SUBSET Pieces]
       /\ s.availability \in [Pieces -> Nat]
       /\ Started(s) \subseteq Pieces
       /\ \A p \in Started(s) : s.in_progress_pieces[p] \subseteq SubPieces
       /\ s.requested_from \in [SubPieceId -> SUBSET Clients]
       /\ s.completed_count \in Nat
       /\ s.pending \in Seq(request_plan)
=============================================================================
