---------------------------- MODULE ReliableStream ----------------------------
(***************************************************************************)
(* What utp_socket.hpp promises the application of every ordered pair of   *)
(* peers: the payloads given to app_send come out at the other side in the *)
(* order they went in, each exactly once, and all of them eventually.      *)
(***************************************************************************)
EXTENDS Naturals, Sequences

CONSTANTS Peers, MaxSend

VARIABLES
  sent,        \* sent[p][q]: how many payloads p has sent to q; the n-th is n
  delivered    \* delivered[q][p]: the payloads of p handed to the application of q

streamVars == <<sent, delivered>>

StreamInit ==
  /\ sent = [p \in Peers |-> [q \in Peers |-> 0]]
  /\ delivered = [q \in Peers |-> [p \in Peers |-> <<>>]]

Send(p, q) ==
  /\ sent[p][q] < MaxSend[p]
  /\ sent' = [sent EXCEPT ![p][q] = @ + 1]
  /\ UNCHANGED delivered

DeliverNext(p, q) ==
  /\ Len(delivered[q][p]) < sent[p][q]
  /\ delivered' = [delivered EXCEPT ![q][p] = Append(@, Len(@) + 1)]
  /\ UNCHANGED sent

StreamNext == \E p, q \in Peers : Send(p, q) \/ DeliverNext(p, q)

StreamSpec ==
  /\ StreamInit /\ [][StreamNext]_streamVars
  /\ \A p, q \in Peers : WF_streamVars(DeliverNext(p, q))
=============================================================================
