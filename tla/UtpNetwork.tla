------------------------------ MODULE UtpNetwork ------------------------------
(***************************************************************************)
(* The sockets of UtpSocket joined by a network that loses and reorders    *)
(* frames but never duplicates or alters one, as the channel models do,    *)
(* with an application on top that sends numbered payloads: the n-th       *)
(* payload self sends to dst is n.                                         *)
(***************************************************************************)
EXTENDS UtpSocket, Bags

CONSTANTS
  Openers,      \* peers whose application may send with no live connection
  MaxSend,      \* MaxSend[self]: payloads self sends to each other peer
  MaxLosses,    \* frames the network loses
  MaxSpurious   \* timers that expire while frames of the pair are under way

ASSUME OpenersAssumption == Openers \subseteq Peers
ASSUME BoundsAssumption ==
  MaxSend \in [Peers -> Nat] /\ MaxLosses \in Nat /\ MaxSpurious \in Nat

VARIABLES
  net,         \* the bag of frames under way
  sent,        \* sent[self][dst]: number of payloads given to app_send
  delivered,   \* delivered[self][src]: the payloads handed to the application
  losses, spurious

vars == <<socketVars, net, sent, delivered, losses, spurious>>

Init ==
  /\ SocketInit
  /\ net = EmptyBag
  /\ sent = [self \in Peers |-> [dst \in Peers |-> 0]]
  /\ delivered = [self \in Peers |-> [src \in Peers |-> <<>>]]
  /\ losses = 0
  /\ spurious = 0

-----------------------------------------------------------------------------
AppSend(self, dst) ==
  /\ self # dst
  /\ sent[self][dst] < MaxSend[self]
  /\ self \in Openers \/ HasLiveConn(self, dst)
  /\ handle_app_send(self, dst, sent[self][dst] + 1)
  /\ sent' = [sent EXCEPT ![self][dst] = @ + 1]
  /\ UNCHANGED <<net, delivered, losses, spurious>>

\* What leaves the socket enters the network and the application.
Emit(self) ==
  /\ EmitFront(self)
  /\ net' = IF out_frames[self] = <<>> THEN net
            ELSE net (+) SetToBag({Head(out_frames[self])})
  /\ delivered' = IF out_delivers[self] = <<>> THEN delivered
                  ELSE LET d == Head(out_delivers[self])
                       IN  [delivered EXCEPT ![self][d.src] = Append(@, d.payload)]
  /\ UNCHANGED <<sent, losses, spurious>>

Arrive(f) ==
  /\ handle_frame(f.dst, f)
  /\ net' = net (-) SetToBag({f})
  /\ UNCHANGED <<sent, delivered, losses, spurious>>

Receive(self) == \E f \in BagToSet(net) : f.dst = self /\ Arrive(f)

Lose(f) ==
  /\ losses < MaxLosses
  /\ losses' = losses + 1
  /\ net' = net (-) SetToBag({f})
  /\ UNCHANGED <<socketVars, sent, delivered, spurious>>

\* Some frame between the two is under way or about to leave.
Between(p, q) ==
  \E f \in BagToSet(net) \cup {out_frames[p][i] : i \in DOMAIN out_frames[p]}
                         \cup {out_frames[q][i] : i \in DOMAIN out_frames[q]} :
    {f.src, f.dst} = {p, q}

\* A timer that expires with nothing under way has its packet or the answer
\* lost; any other expiry is spurious (the round trip outlasts the timeout).
Timeout(self) ==
  /\ \E due \in SUBSET Peers :
       /\ TimerExpiry(self, due)
       /\ IF \E r \in due : Between(self, r)
          THEN spurious < MaxSpurious /\ spurious' = spurious + 1
          ELSE UNCHANGED spurious
  /\ UNCHANGED <<net, sent, delivered, losses>>

Next ==
  \/ \E self, dst \in Peers : AppSend(self, dst)
  \/ \E self \in Peers : Emit(self) \/ Receive(self) \/ Timeout(self)
  \/ \E f \in BagToSet(net) : Lose(f)

Spec == Init /\ [][Next]_vars

\* The coordinator runs a socket with output due before time passes, the
\* channel forwards what it does not drop, and time advances to every timer.
Fairness ==
  \A self \in Peers :
    WF_vars(Emit(self)) /\ WF_vars(Receive(self)) /\ WF_vars(Timeout(self))

FairSpec == Spec /\ Fairness

-----------------------------------------------------------------------------
\* Every variable holds values of its type.
TypeOK ==
  /\ SocketTypeOK
  /\ IsABag(net) /\ BagToSet(net) \subseteq Frame
  /\ sent \in [Peers -> [Peers -> Nat]]
  /\ delivered \in [Peers -> [Peers -> Seq(Payload)]]
  /\ losses \in 0 .. MaxLosses
  /\ spurious \in 0 .. MaxSpurious

Frames == BagToSet(net) \cup UNION {{out_frames[p][i] : i \in DOMAIN out_frames[p]} : p \in Peers}

\* The application sees the payloads of a peer in the order they were sent,
\* each once and none skipped, whatever is lost, reordered or sent again
\* (receive_data and drain_ooo against process_acks and the timer).
InOrderExactlyOnce ==
  \A self, src \in Peers :
    /\ Len(delivered[self][src]) <= sent[src][self]
    /\ \A i \in DOMAIN delivered[self][src] : delivered[self][src][i] = i

\* A payload given to app_send is never forgotten by both ends: it is
\* delivered, on its way to the application, buffered out of order at the
\* receiver, or still kept by the sender.  So the sender drops a packet only
\* for an acknowledgement, cumulative or selective, of a packet the receiver
\* keeps for good.
NothingLost ==
  \A p, q \in Peers : \A n \in 1 .. sent[p][q] :
    \/ \E i \in DOMAIN delivered[q][p] : delivered[q][p][i] = n
    \/ \E i \in DOMAIN out_delivers[q] : out_delivers[q][i] = [src |-> p, payload |-> n]
    \/ HasConn(q, p) /\ \E b \in conns[q][p].ooo : b.completing = n
    \/ /\ HasConn(p, q)
       /\ \/ \E i \in DOMAIN conns[p][q].inflight : conns[p][q].inflight[i].completing = n
          \/ \E i \in DOMAIN conns[p][q].pending : conns[p][q].pending[i] = n

\* The deque of unacknowledged packets stays in sequence order behind seq_nr,
\* across the wrap of the 16-bit numbers, and the out-of-order buffer holds no
\* packet at or below the one that is next: process_acks pops from the front,
\* cut_window and build_sack read offsets, and all three rely on it.
WindowShape ==
  \A p, q \in Peers : HasConn(p, q) =>
    LET c == conns[p][q]
    IN  /\ \A i, j \in DOMAIN c.inflight :
             i < j => seq_diff(c.inflight[j].seq, c.inflight[i].seq) >= j - i
        /\ \A i \in DOMAIN c.inflight : seq_diff(c.seq_nr, c.inflight[i].seq) > 0
        /\ \A b \in c.ooo : seq_diff(b.seq, c.ack_nr) > 1
        /\ \A b1, b2 \in c.ooo : b1.seq = b2.seq => b1 = b2

\* Of any two peers at most one opens connections, as in the scenarios.
OneOpener == \A p, q \in Peers : p # q => ~(p \in Openers /\ q \in Openers)

\* With one opener per pair, a connection once begun is never closed or
\* replaced and nothing is ever reset: late and repeated SYNs reach the entry
\* they opened, and the two ends keep opposite connection ids (accept_syn
\* against open_initiator and the id test of handle_frame).
HandshakeAgreement ==
  /\ \A f \in Frames : f.type # "st_reset"
  /\ \A p, q \in Peers :
       /\ HasConn(p, q) => conns[p][q].state # "closed"
       /\ HasConn(p, q) /\ HasConn(q, p) =>
            /\ conns[p][q].conn_id_send = conns[q][p].conn_id_recv
            /\ conns[p][q].conn_id_recv = conns[q][p].conn_id_send
       /\ HasConn(p, q) /\ conns[p][q].state = "connected" => HasConn(q, p)

\* Packets are in flight only on a connected stream, and a closed one keeps
\* nothing to send: whatever the order of resets, SYNs and app_sends, no
\* payload waits in a dead entry (handle_app_send, the reset branch of
\* handle_frame, packetize's callers).
TransmitStates ==
  \A p, q \in Peers : HasConn(p, q) =>
    /\ conns[p][q].inflight # <<>> => conns[p][q].state = "connected"
    /\ conns[p][q].state = "closed" => conns[p][q].pending = <<>>

\* A peer's application sees each payload at most once and in order even when
\* connections are reset and replaced under it (two openers): frames of an
\* earlier connection never enter a later one with the same numbers.
OrderedDelivery ==
  \A p, q \in Peers : \A i, j \in DOMAIN delivered[q][p] :
    i < j => delivered[q][p][i] < delivered[q][p][j]

\* The sockets implement the reliable stream, with its liveness.
Stream == INSTANCE ReliableStream
ImplementsStream == Stream!StreamSpec

\* Both ends come to rest: every packet is in the end acknowledged, so no
\* timer stays armed (each duplicate is acknowledged again, and packetize
\* never leaves payloads behind with nothing in flight).
EventuallyQuiet ==
  <>[](\A p, q \in Peers : HasConn(p, q) =>
         conns[p][q].inflight = <<>> /\ conns[p][q].pending = <<>>)
=============================================================================
