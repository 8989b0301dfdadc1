------------------------------ MODULE UtpWindow ------------------------------
(***************************************************************************)
(* The sending half of a connected uTP stream, counted in bytes            *)
(* (models/utp/utp_socket.hpp): how packetize cuts the payloads into       *)
(* packets, the LEDBAT congestion window that bounds the bytes in flight,  *)
(* the retransmission timer, and what acknowledgements and losses do to    *)
(* them.  UtpSocket has the same code with one payload per packet, any     *)
(* window and no time; here there is one direction and no handshake.       *)
(*                                                                         *)
(* The other end is its receive_data, with acknowledgements that arrive in *)
(* the order they were sent; it may send data of its own as well, which    *)
(* carries acknowledgements too.  What is abstracted:                      *)
(*   - windows are whole bytes, rounded down;                              *)
(*   - the queueing delay measured, and the timeout that the round-trip    *)
(*     times lead to, are choices;                                         *)
(*   - time passes in ticks, and only while a packet is in flight.         *)
(***************************************************************************)
EXTENDS SeqNumbers, FiniteSetsExt

Lists == INSTANCE SequencesExt

CONSTANTS
  Mtu, MinPacket, InitialCwnd,  \* mtu_payload, min_packet, initial_cwnd
  Header,                       \* utp_header_bytes
  RecvWindow,                   \* recv_window, advertised by every packet
  Gain,                         \* gain_bytes_per_rtt
  TargetDelay,                  \* target_delay
  DupAckThreshold,              \* dup_ack_threshold
  InitialTimeout,               \* initial_timeout
  RttTimeouts,                  \* what max(min_timeout, rtt + 4 rtt_var) may be
  Delays,                       \* the queueing delays measured
  PayloadSizes,                 \* wire sizes of the payloads
  FirstSeq,                     \* the first data packet's number
  MaxPayloads,                  \* bound: payloads the application sends
  MaxLosses,                    \* bound: packets and acknowledgements lost
  MaxReverse,                   \* bound: data packets of the other end
  MaxTimeouts                   \* bound: expiries of the timer

ASSUME WindowAssumption ==
  /\ {Mtu, Gain, TargetDelay, DupAckThreshold, InitialTimeout} \subseteq Nat \ {0}
  /\ {Header, MaxPayloads, MaxLosses, MaxReverse, MaxTimeouts} \subseteq Nat
  /\ MinPacket \in Nat /\ MinPacket > Header
  /\ InitialCwnd \in Nat /\ InitialCwnd >= MinPacket
  /\ RecvWindow \in Nat /\ RecvWindow > Header
  /\ RttTimeouts \subseteq Nat \ {0} /\ Delays \subseteq Nat
  /\ PayloadSizes \subseteq Nat \ {0} /\ FirstSeq \in 1 .. SeqMod - 1

VARIABLES
  conn,          \* the connection at the sender
  flying,        \* data packets under way
  peer,          \* the receiver: ack_nr and the numbers in its ooo buffer
  acks,          \* acknowledgements under way, in order
  submitted,     \* history: the sizes of the payloads given to app_send
  heard,         \* history: packets received since the front of inflight was
                 \* sent, or became the front
  cut_flight,    \* history: what was in flight at the last cut and still is
  losses, reverse, timeouts

vars == <<conn, flying, peer, acks, submitted, heard, cut_flight, losses, reverse, timeouts>>

\* offset is history: the payload bytes before the packet in the stream.
InflightPkt == [seq : Uint16, stream_bytes : Nat \ {0}, completing : SUBSET (1 .. MaxPayloads),
                transmissions : Nat \ {0}, sacked_past : Nat, offset : Nat]

\* idle is state.now - last_activity; out_frames the packets a handler queues;
\* cuts is history: how often a loss cut the window.
Conn == [cwnd : Nat, slow_start : BOOLEAN, ssthres : Nat, timeout : Nat, idle : Nat,
         pending : Seq([payload : 1 .. MaxPayloads, remaining : Nat \ {0}]),
         inflight : Seq(InflightPkt), seq_nr : Uint16, offset : Nat,
         last_ack_seen : Uint16, dup_acks : Nat, cut_seq : Uint16, cut_valid : BOOLEAN, cuts : Nat,
         out_frames : SUBSET [seq : Uint16, nth : Nat]]

Init ==
  /\ conn = [cwnd |-> InitialCwnd, slow_start |-> TRUE, ssthres |-> 0,
             timeout |-> InitialTimeout, idle |-> 0, pending |-> <<>>, inflight |-> <<>>,
             seq_nr |-> FirstSeq, offset |-> 0, last_ack_seen |-> 0, dup_acks |-> 0,
             cut_seq |-> 0, cut_valid |-> FALSE, cuts |-> 0, out_frames |-> {}]
  /\ flying = {}
  /\ peer = [ack_nr |-> Plus(FirstSeq, -1), ooo |-> {}]
  /\ acks = <<>>
  /\ submitted = <<>> /\ heard = 0 /\ cut_flight = {}
  /\ losses = 0 /\ reverse = 0 /\ timeouts = 0

SumOf(seq, F(_)) == Lists!FoldLeft(LAMBDA sum, e : sum + F(e), 0, seq)

-----------------------------------------------------------------------------
(* The steps handlers are made of, from connection to connection. *)

bytes_in_flight(c) == SumOf(c.inflight, LAMBDA p : p.stream_bytes + Header)

WaitingUntil(c, k) == SumOf(SubSeq(c.pending, 1, k), LAMBDA p : p.remaining)

\* The bytes of pending that packetize sends: as many full packets as there are
\* bytes and room for, then one with what is left of the bytes or of the room.
Admitted(c) ==
  LET waiting == WaitingUntil(c, Len(c.pending))
      room    == Max({0, Min({c.cwnd, RecvWindow}) - bytes_in_flight(c)})
      full    == Min({waiting \div Mtu, room \div (Mtu + Header)})
  IN  full * Mtu + Max({0, Min({waiting - full * Mtu, room - full * (Mtu + Header) - Header})})

\* Mutant of Completed: a payload is completed by the packet that starts it.
CompletedByFirst(c, from, to) ==
  {c.pending[k].payload :
     k \in {k \in DOMAIN c.pending : from <= WaitingUntil(c, k - 1) /\ WaitingUntil(c, k - 1) < to}}

\* The payloads whose last byte a packet takes that carries the bytes of pending
\* after from, up to to.
Completed(c, from, to) ==
  {c.pending[k].payload :
     k \in {k \in DOMAIN c.pending : from < WaitingUntil(c, k) /\ WaitingUntil(c, k) <= to}}

\* What waits when the first bytes of pending are sent.
Remaining(c, sent) ==
  LET done == Cardinality({k \in DOMAIN c.pending : WaitingUntil(c, k) <= sent})
      rest == SubSeq(c.pending, done + 1, Len(c.pending))
  IN  IF rest = <<>> THEN rest ELSE [rest EXCEPT ![1].remaining = WaitingUntil(c, done + 1) - sent]

packetize(c) ==
  LET bytes == Admitted(c)
      count == (bytes + Mtu - 1) \div Mtu
      To(i) == Min({i * Mtu, bytes})
      Pkt(i) == [seq |-> Plus(c.seq_nr, i - 1), stream_bytes |-> To(i) - To(i - 1),
                 completing |-> Completed(c, To(i - 1), To(i)), transmissions |-> 1,
                 sacked_past |-> 0, offset |-> c.offset + To(i - 1)]
  IN  IF bytes = 0 THEN c
      ELSE [c EXCEPT !.pending = Remaining(c, bytes), !.inflight = @ \o [i \in 1 .. count |-> Pkt(i)],
                     !.seq_nr = Plus(@, count), !.offset = @ + bytes, !.idle = 0,
                     !.out_frames = @ \cup {[seq |-> Plus(c.seq_nr, i - 1), nth |-> 1] : i \in 1 .. count}]

\* The packets at the indices in I are sent again.
retransmit(c, I) ==
  LET Again(i) == [c.inflight[i] EXCEPT !.transmissions = @ + IF i \in I THEN 1 ELSE 0]
  IN  [c EXCEPT !.inflight = [i \in DOMAIN @ |-> Again(i)],
                !.idle = IF I = {} THEN @ ELSE 0,
                !.out_frames = @ \cup {[seq |-> c.inflight[i].seq,
                                        nth |-> c.inflight[i].transmissions + 1] : i \in I}]

\* Mutant of clamp_cwnd: the window may fall below a packet.
ClampAtZero(w) == Max({w, 0})

clamp_cwnd(w) == Max({w, MinPacket})

\* Mutant of AlreadyCut: every loss cuts.
NeverCut(c) == FALSE

\* Mutant of AlreadyCut: the cut covers the next packet, not yet sent then.
CutCoversNext(c) == c.cut_valid /\ seq_diff(Plus(c.cut_seq, 1), c.inflight[1].seq) >= 0

\* At most one multiplicative cut per outstanding window.
AlreadyCut(c) == c.cut_valid /\ seq_diff(c.cut_seq, c.inflight[1].seq) >= 0

\* loss_multiplier is one half.
cut_window(c) ==
  IF AlreadyCut(c) THEN c
  ELSE LET w == clamp_cwnd(c.cwnd \div 2)
       IN  [c EXCEPT !.cwnd = w, !.slow_start = FALSE,
                     !.ssthres = IF c.slow_start THEN w ELSE @,
                     !.cut_seq = Plus(c.seq_nr, -1), !.cut_valid = TRUE, !.cuts = @ + 1]

\* Below the target, slow start adds what was acknowledged.
SlowStart(c, acked) ==
  [c EXCEPT !.cwnd = clamp_cwnd(@ + acked),
            !.slow_start = c.ssthres = 0 \/ c.cwnd + acked <= c.ssthres]

ledbat_update(c, acked, before, delay) ==
  IF c.slow_start /\ delay < TargetDelay THEN SlowStart(c, acked)
  ELSE [c EXCEPT !.cwnd = clamp_cwnd(@ + (Gain * (TargetDelay - delay) * acked)
                                             \div (TargetDelay * before)),
                 !.slow_start = FALSE,
                 !.ssthres = IF c.slow_start THEN c.cwnd \div 2 ELSE @]

\* The front of inflight that the cumulative acknowledgement covers leaves it.
DropAcked(c, pkt) ==
  LET covered == {i \in DOMAIN c.inflight :
                    \A j \in 1 .. i : seq_diff(c.inflight[j].seq, pkt.ack_nr) <= 0}
  IN  [c EXCEPT !.inflight = SubSeq(@, Cardinality(covered) + 1, Len(@))]

\* What the selective acknowledgement names leaves it, and each packet that
\* stays counts the later ones acknowledged past it.
Holes(c, pkt) ==
  LET sacked  == {i \in DOMAIN c.inflight : c.inflight[i].seq \in pkt.sack}
      Counted == [i \in DOMAIN c.inflight |->
                    [c.inflight[i] EXCEPT !.sacked_past = @ + Cardinality({j \in sacked : i < j})]]
  IN  Subsequence(Counted, DOMAIN c.inflight \ sacked)

\* Enough packets acknowledged past a hole mark it lost: one cut for all of
\* them, and each is sent again.
ResendLost(c) ==
  LET lost     == {i \in DOMAIN c.inflight : c.inflight[i].sacked_past >= DupAckThreshold}
      Recounted == [i \in DOMAIN c.inflight |->
                      [c.inflight[i] EXCEPT !.sacked_past = IF i \in lost THEN 0 ELSE @]]
  IN  IF lost = {} THEN c ELSE retransmit([cut_window(c) EXCEPT !.inflight = Recounted], lost)

apply_sack(c, pkt) ==
  IF pkt.sack = {} \/ c.inflight = <<>> THEN c
  ELSE ResendLost([c EXCEPT !.inflight = Holes(c, pkt)])

\* Mutant of Repeated: repeated acknowledgements are not counted.
RepeatedIgnored(c) == c

\* An acknowledgement that repeats the last one counts towards sending the
\* front again.
Repeated(c) ==
  IF c.dup_acks + 1 < DupAckThreshold THEN [c EXCEPT !.dup_acks = @ + 1]
  ELSE retransmit(cut_window([c EXCEPT !.dup_acks = 0]), {1})

\* What acknowledgements do before packetize: left is the connection without
\* the packets acknowledged.
Progress(c, left, delay, rto) ==
  ledbat_update([left EXCEPT !.dup_acks = 0, !.timeout = rto],
                bytes_in_flight(c) - bytes_in_flight(left), bytes_in_flight(c), delay)

NoProgress(c, pkt) ==
  IF pkt.ack_nr = c.last_ack_seen /\ c.inflight # <<>> THEN Repeated(c)
  ELSE [c EXCEPT !.dup_acks = 0]

-----------------------------------------------------------------------------
(* Actions of the sender *)

Seqs(c) == {p.seq : p \in Lists!ToSet(c.inflight)}

\* The step of a handler that leaves the connection c: what it queued enters
\* the network, and the history follows.
Leaves(c, arrivals) ==
  LET stays == /\ conn.inflight # <<>> /\ c.inflight # <<>>
               /\ c.inflight[1].seq = conn.inflight[1].seq
               /\ c.inflight[1].transmissions = conn.inflight[1].transmissions
  IN  /\ conn' = [c EXCEPT !.out_frames = {}]
      /\ flying' = flying \cup c.out_frames
      /\ heard' = IF stays THEN heard + arrivals ELSE 0
      /\ cut_flight' = (IF c.cuts > conn.cuts THEN Seqs(conn) ELSE cut_flight) \cap Seqs(c)

app_send(size) ==
  /\ Len(submitted) < MaxPayloads
  /\ submitted' = Append(submitted, size)
  /\ \E c \in {[conn EXCEPT !.pending = Append(@, [payload |-> Len(submitted'), remaining |-> size])]} :
       Leaves(packetize(c), 0)
  /\ UNCHANGED <<peer, acks, losses, reverse, timeouts>>

\* process_acks, for the connection c that handle_frame gives it.
process_acks(c, pkt) ==
  \E left \in {apply_sack(DropAcked(c, pkt), pkt)} :
    LET Seen(d) == [d EXCEPT !.last_ack_seen = pkt.ack_nr]
    IN  IF Len(left.inflight) < Len(c.inflight)
        THEN \E delay \in Delays, rto \in RttTimeouts :
               \E d \in {Progress(c, left, delay, rto)} : Leaves(Seen(packetize(d)), 1)
        ELSE Leaves(Seen(NoProgress(left, pkt)), 1)

\* handle_frame: whatever arrives restarts the timer.
ReceiveAck ==
  /\ acks # <<>>
  /\ acks' = Tail(acks)
  /\ process_acks([conn EXCEPT !.idle = 0], Head(acks))
  /\ UNCHANGED <<peer, submitted, losses, reverse, timeouts>>

on_timeout ==
  /\ conn.inflight # <<>>
  /\ conn.idle >= conn.timeout
  /\ timeouts < MaxTimeouts
  /\ timeouts' = timeouts + 1
  /\ Leaves(retransmit([conn EXCEPT !.timeout = 2 * @, !.cwnd = MinPacket], {1}), 0)
  /\ UNCHANGED <<peer, acks, submitted, losses, reverse>>

\* time_advance: up to the deadline of the timer.
Elapse ==
  /\ conn.inflight # <<>>
  /\ conn.idle < conn.timeout
  /\ conn' = [conn EXCEPT !.idle = @ + 1]
  /\ UNCHANGED <<flying, peer, acks, submitted, heard, cut_flight, losses, reverse, timeouts>>

-----------------------------------------------------------------------------
(* The network and the other end *)

\* receive_data of the other end, and its send_ack.
Deliver(pkt) ==
  LET rel   == seq_diff(pkt.seq, peer.ack_nr)
      run   == {k \in 1 .. SeqMod - 1 : \A j \in 1 .. k : Plus(pkt.seq, j) \in peer.ooo}
      after == IF rel <= 0 THEN peer
               ELSE IF rel = 1
                    THEN [ack_nr |-> Plus(pkt.seq, Cardinality(run)),
                          ooo    |-> peer.ooo \ {Plus(pkt.seq, k) : k \in run}]
               ELSE [peer EXCEPT !.ooo = @ \cup {pkt.seq}]
  IN  /\ flying' = flying \ {pkt}
      /\ peer' = after
      /\ acks' = Append(acks, [ack_nr |-> after.ack_nr, sack |-> after.ooo])
      /\ UNCHANGED <<conn, submitted, heard, cut_flight, losses, reverse, timeouts>>

\* Data of the other end carries its ack_nr and no selective acknowledgement.
\* Bound: it is sent when no acknowledgement is under way; what the sender sees
\* is the same as if it were behind some.
PeerSends ==
  /\ reverse < MaxReverse
  /\ acks = <<>>
  /\ reverse' = reverse + 1
  /\ acks' = Append(acks, [ack_nr |-> peer.ack_nr, sack |-> {}])
  /\ UNCHANGED <<conn, flying, peer, submitted, heard, cut_flight, losses, timeouts>>

Lose ==
  /\ losses < MaxLosses
  /\ losses' = losses + 1
  /\ \/ \E pkt \in flying : flying' = flying \ {pkt} /\ UNCHANGED acks
     \/ \E i \in DOMAIN acks : acks' = Lists!RemoveAt(acks, i) /\ UNCHANGED flying
  /\ UNCHANGED <<conn, peer, submitted, heard, cut_flight, reverse, timeouts>>

Next ==
  \/ \E size \in PayloadSizes : app_send(size)
  \/ ReceiveAck
  \/ on_timeout
  \/ Elapse
  \/ \E pkt \in flying : Deliver(pkt)
  \/ PeerSends
  \/ Lose

Spec == Init /\ [][Next]_vars

-----------------------------------------------------------------------------
\* Every variable holds values of its type.
TypeOK ==
  /\ conn \in Conn /\ conn.out_frames = {}
  /\ flying \subseteq [seq : Uint16, nth : Nat \ {0}]
  /\ peer \in [ack_nr : Uint16, ooo : SUBSET Uint16]
  /\ acks \in Seq([ack_nr : Uint16, sack : SUBSET Uint16])
  /\ submitted \in Seq(PayloadSizes)
  /\ heard \in Nat /\ cut_flight \subseteq Uint16
  /\ losses \in 0 .. MaxLosses /\ reverse \in 0 .. MaxReverse /\ timeouts \in 0 .. MaxTimeouts

\* Where payload n ends in the stream.
EndOf(n) == SumOf(SubSeq(submitted, 1, n), LAMBDA size : size)

\* However payloads are cut and packed, the packets carry the stream without
\* gap or overlap, a payload is completed by the packet that has its last
\* byte, and what has not been sent waits in order (packetize).
StreamCovered ==
  /\ conn.offset + SumOf(conn.pending, LAMBDA p : p.remaining) = EndOf(Len(submitted))
  /\ \A p \in Lists!ToSet(conn.inflight) :
       p.completing = {n \in DOMAIN submitted :
                         p.offset < EndOf(n) /\ EndOf(n) <= p.offset + p.stream_bytes}
  /\ \A i \in DOMAIN conn.pending :
       LET n == conn.pending[i].payload
       IN  /\ n = Len(submitted) - Len(conn.pending) + i
           /\ conn.pending[i].remaining <= submitted[n]

\* Payloads never wait with nothing in flight, for then no acknowledgement and
\* no timer would ever send them: whatever cuts, timeouts and delays do to the
\* window, it admits a packet once everything is acknowledged.
NeverStalls == conn.pending # <<>> => conn.inflight # <<>>

\* "At most one multiplicative cut per outstanding window": when the window is
\* cut, nothing of what was in flight at the cut before is in flight still.
OneCutPerWindow ==
  [][conn'.cuts > conn.cuts => \A p \in Lists!ToSet(conn'.inflight) : p.seq \notin cut_flight]_vars

SentAgain ==
  \E p \in Lists!ToSet(conn.inflight), q \in Lists!ToSet(conn'.inflight) :
    p.seq = q.seq /\ p.transmissions < q.transmissions

\* And no fewer: when an acknowledgement makes packets leave again, the window
\* is cut, unless the front of inflight was in flight at the cut before.
\* cut_window tells that by a 16-bit number, so this holds while fewer than half
\* of the numbers are sent between two losses.
LossIsCut ==
  [][timeouts' = timeouts /\ SentAgain =>
       conn'.cuts > conn.cuts \/ conn'.inflight[1].seq \in cut_flight]_vars

\* Every packet that arrives restarts the timer, so traffic of the other end
\* postpones it; but repeated and selective acknowledgements send the packet at
\* the front again before more than this many have arrived (handle_frame
\* against process_acks and apply_sack).
NotPostponed == conn.inflight # <<>> => heard <= DupAckThreshold * DupAckThreshold
=============================================================================
