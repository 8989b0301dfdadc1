---------------------------- MODULE PieceTransfer ----------------------------
(***************************************************************************)
(* What a swarm promises: pieces spread by copying from clients that have  *)
(* them, one at a time, until every client has everything.                 *)
(***************************************************************************)
EXTENDS Naturals

CONSTANTS Clients, Pieces, InitialHave

VARIABLE owned   \* owned[self]: pieces self has

Init == owned = InitialHave

Acquire(self, p) ==
  /\ p \notin owned[self]
  /\ \E other \in Clients : p \in owned[other]
  /\ owned' = [owned EXCEPT ![self] = @ \cup {p}]

Next == \E self \in Clients, p \in Pieces : Acquire(self, p)

TransferSpec ==
  /\ Init /\ [][Next]_owned
  /\ \A self \in Clients, p \in Pieces : WF_owned(Acquire(self, p))
=============================================================================
