------------------------------ MODULE UtpSocket ------------------------------
(***************************************************************************)
(* The uTP endpoint (models/utp/utp_socket.hpp): connection handshake,     *)
(* numbered packets, in-order delivery with an out-of-order buffer,        *)
(* cumulative and selective acknowledgements, and the three ways a packet  *)
(* is sent again (timer, duplicate acks, selective-ack holes).             *)
(*                                                                         *)
(* The variables hold the sockets of all peers, indexed by the peer that   *)
(* owns them; an operator or action whose first parameter is self reads    *)
(* and changes the socket of that peer only.  What is abstracted:          *)
(*   - one payload is what one packet carries, so packetize moves whole    *)
(*     payloads from pending to inflight;                                  *)
(*   - the window: any number of packets may leave when packetize runs,    *)
(*     but at least one when nothing is in flight (the window never drops  *)
(*     below min_packet, which is more than a header);                     *)
(*   - time: an armed timer may expire at any instant at which the socket  *)
(*     has nothing queued for output.                                      *)
(***************************************************************************)
EXTENDS SeqNumbers

CONSTANTS
  Peers,            \* the peer ids
  AcceptorSeq0,     \* utp_constants::acceptor_seq0
  DupAckThreshold   \* utp_constants::dup_ack_threshold

ASSUME PeersAssumption     == Peers \subseteq Nat /\ IsFiniteSet(Peers)
ASSUME AcceptorAssumption  == AcceptorSeq0 \in 0 .. SeqMod - 1
ASSUME ThresholdAssumption == DupAckThreshold \in Nat \ {0}

VARIABLES
  conns,          \* conns[self][remote]: the connection, or NoConn
  out_frames,     \* out_frames[self]: frames waiting to leave the socket
  out_delivers,   \* out_delivers[self]: payloads waiting to go to the application
  next_conn_id    \* next_conn_id[self]

socketVars == <<conns, out_frames, out_delivers, next_conn_id>>

-----------------------------------------------------------------------------
(* Data *)

NoPayload == 0
Payload   == Nat \ {NoPayload}
NoConn    == [state |-> "none"]
ConnState == {"syn_sent", "syn_recv", "connected", "closed"}
PktType   == {"st_syn", "st_state", "st_data", "st_reset"}

InflightPkt == [seq : Uint16, completing : Payload, sacked_past : Nat]
RecvPkt     == [seq : Uint16, completing : Payload]

Conn == [state        : ConnState,
         conn_id_send : Uint16,
         conn_id_recv : Uint16,
         seq_nr       : Uint16,            \* next to send
         ack_nr       : Uint16,            \* last received in order
         pending      : Seq(Payload),
         inflight     : Seq(InflightPkt),
         ooo          : SUBSET RecvPkt,    \* received out of order
         last_ack_seen : Uint16,
         dup_acks     : Nat]

\* Data packets, and they alone, carry a payload.
Frame ==
  {f \in [src : Peers, dst : Peers, type : PktType, connection_id : Uint16,
          seq_nr : Uint16, ack_nr : Uint16, sack : SUBSET Uint16,
          completing : Payload \cup {NoPayload}] :
     f.type = "st_data" <=> f.completing # NoPayload}

Deliver == [src : Peers, payload : Payload]

-----------------------------------------------------------------------------
(* Frames *)

header_for(self, dst, c, type) ==
  [src |-> self, dst |-> dst, type |-> type, connection_id |-> c.conn_id_send,
   seq_nr |-> c.seq_nr, ack_nr |-> c.ack_nr, sack |-> {}, completing |-> NoPayload]

SynFrame(self, dst, c) ==
  [src |-> self, dst |-> dst, type |-> "st_syn", connection_id |-> c.conn_id_recv,
   seq_nr |-> 1, ack_nr |-> 0, sack |-> {}, completing |-> NoPayload]

ResetFrame(self, f) ==
  [src |-> self, dst |-> f.src, type |-> "st_reset", connection_id |-> f.connection_id,
   seq_nr |-> 0, ack_nr |-> f.seq_nr, sack |-> {}, completing |-> NoPayload]

DataFrame(self, dst, c, p) ==
  [header_for(self, dst, c, "st_data") EXCEPT !.seq_nr = p.seq, !.completing = p.completing]

build_sack(c) ==
  {s \in {p.seq : p \in c.ooo} : seq_diff(s, Plus(c.ack_nr, 2)) >= 0}

AckFrame(self, dst, c) ==
  [header_for(self, dst, c, "st_state") EXCEPT !.sack = build_sack(c)]

-----------------------------------------------------------------------------
(* The steps handlers are made of.  Each is the set of its outcomes: the     *)
(* connection it leaves, the frames it queues and, in receive_data, the      *)
(* payloads it delivers.                                                     *)

\* How many packets the window may let packetize send.
SendCounts(c) ==
  {n \in 0 .. Len(c.pending) : c.inflight = <<>> /\ c.pending # <<>> => n > 0}

packetize(self, dst, c) ==
  LET Sent(n) == [i \in 1 .. n |-> [seq |-> Plus(c.seq_nr, i - 1),
                                    completing |-> c.pending[i], sacked_past |-> 0]]
  IN  {[conn   |-> [c EXCEPT !.inflight = @ \o Sent(n),
                             !.pending  = SubSeq(@, n + 1, Len(@)),
                             !.seq_nr   = Plus(@, n)],
        frames |-> [i \in 1 .. n |-> DataFrame(self, dst, c, Sent(n)[i])]] : n \in SendCounts(c)}

\* Mutant: the packet after the acknowledged one leaves inflight too.
AckedCountOffByOne(c, pkt) ==
  Cardinality({i \in 1 .. Len(c.inflight) :
                 \A j \in 1 .. i : seq_diff(c.inflight[j].seq, pkt.ack_nr) <= 1})

\* The front of inflight that pkt.ack_nr covers leaves it.
AckedCount(c, pkt) ==
  Cardinality({i \in 1 .. Len(c.inflight) :
                 \A j \in 1 .. i : seq_diff(c.inflight[j].seq, pkt.ack_nr) <= 0})

Unacked(c, pkt) == SubSeq(c.inflight, AckedCount(c, pkt) + 1, Len(c.inflight))

\* What pkt.sack names leaves it too; each packet that stays counts the later
\* ones acknowledged past it.
Holes(q, pkt) ==
  LET sacked == {i \in 1 .. Len(q) : q[i].seq \in pkt.sack}
      Counted == [i \in 1 .. Len(q) |->
                    [q[i] EXCEPT !.sacked_past = @ + Cardinality({j \in sacked : i < j})]]
  IN  Subsequence(Counted, (1 .. Len(q)) \ sacked)

LostIndices(q) == {i \in 1 .. Len(q) : q[i].sacked_past >= DupAckThreshold}

\* A hole with enough packets acknowledged past it is sent again and its
\* count starts over.
Recounted(holes) ==
  [i \in 1 .. Len(holes) |-> IF i \in LostIndices(holes)
                             THEN [holes[i] EXCEPT !.sacked_past = 0] ELSE holes[i]]

LostFrames(self, dst, c, holes) ==
  [i \in 1 .. Cardinality(LostIndices(holes)) |->
     DataFrame(self, dst, c, Subsequence(holes, LostIndices(holes))[i])]

\* process_acks once inflight is cut down to holes: new acknowledgements let
\* packetize run, a repeated one counts towards a retransmission.
AckOutcomes(self, dst, c, pkt, holes) ==
  LET ackedNew == Len(holes) < Len(c.inflight)
      isDup    == pkt.ack_nr = c.last_ack_seen /\ holes # <<>>
      c1       == [c EXCEPT !.inflight = Recounted(holes), !.last_ack_seen = pkt.ack_nr,
                            !.dup_acks = 0]
      lost     == LostFrames(self, dst, c, holes)
  IN  CASE ackedNew /\ c.state = "connected" ->
             UNION {{[conn |-> o.conn, frames |-> lost \o o.frames] :
                       o \in packetize(self, dst, conn)} : conn \in {c1}}
        [] ackedNew /\ c.state # "connected" -> {[conn |-> c1, frames |-> lost]}
        [] ~ackedNew /\ isDup /\ c.dup_acks + 1 >= DupAckThreshold ->
             {[conn |-> c1, frames |-> lost \o <<DataFrame(self, dst, c, Head(holes))>>]}
        [] ~ackedNew /\ isDup /\ c.dup_acks + 1 < DupAckThreshold ->
             {[conn |-> [c1 EXCEPT !.dup_acks = c.dup_acks + 1], frames |-> lost]}
        [] ~ackedNew /\ ~isDup -> {[conn |-> c1, frames |-> lost]}

process_acks(self, dst, c, pkt) ==
  UNION {AckOutcomes(self, dst, c, pkt, holes) : holes \in {Holes(Unacked(c, pkt), pkt)}}

\* The buffered packets that follow ack_nr without a gap.
InOrderRun(c) ==
  {k \in 1 .. SeqMod - 1 : \A j \in 1 .. k : \E p \in c.ooo : p.seq = Plus(c.ack_nr, j)}

\* Mutant: delivered packets stay in the out-of-order buffer.
DrainKeeping(c) ==
  LET n == Cardinality(InOrderRun(c))
      Buffered(j) == CHOOSE p \in c.ooo : p.seq = Plus(c.ack_nr, j)
  IN  [conn     |-> [c EXCEPT !.ack_nr = Plus(@, n)],
       payloads |-> [j \in 1 .. n |-> Buffered(j).completing]]

drain_ooo(c) ==
  LET n == Cardinality(InOrderRun(c))
      Buffered(j) == CHOOSE p \in c.ooo : p.seq = Plus(c.ack_nr, j)
  IN  [conn     |-> [c EXCEPT !.ack_nr = Plus(@, n),
                              !.ooo = @ \ {Buffered(j) : j \in 1 .. n}],
       payloads |-> [j \in 1 .. n |-> Buffered(j).completing]]

\* receive_data before its send_ack: a duplicate changes nothing, the next
\* packet is delivered with the run behind it, a later one is buffered.
Accepted(c, f) ==
  LET rel    == seq_diff(f.seq_nr, c.ack_nr)
      known  == \E p \in c.ooo : p.seq = f.seq_nr
      run    == drain_ooo([c EXCEPT !.ack_nr = f.seq_nr])
      buffer == c.ooo \cup {[seq |-> f.seq_nr, completing |-> f.completing]}
  IN  CASE rel = 1 -> [conn |-> run.conn, payloads |-> <<f.completing>> \o run.payloads]
        [] rel > 1 /\ ~known -> [conn |-> [c EXCEPT !.ooo = buffer], payloads |-> <<>>]
        [] rel <= 0 \/ (rel > 1 /\ known) -> [conn |-> c, payloads |-> <<>>]

\* Mutant: a duplicate is not acknowledged again.
ReceiveDataWithoutReack(self, src, c, f) ==
  {[conn     |-> a.conn,
    frames   |-> IF seq_diff(f.seq_nr, c.ack_nr) <= 0 THEN <<>>
                 ELSE <<AckFrame(self, src, a.conn)>>,
    delivers |-> [i \in 1 .. Len(a.payloads) |-> [src |-> src, payload |-> a.payloads[i]]]] :
     a \in {Accepted(c, f)}}

receive_data(self, src, c, f) ==
  {[conn     |-> a.conn,
    frames   |-> <<AckFrame(self, src, a.conn)>>,
    delivers |-> [i \in 1 .. Len(a.payloads) |-> [src |-> src, payload |-> a.payloads[i]]]] :
     a \in {Accepted(c, f)}}

-----------------------------------------------------------------------------
(* Actions: application side *)

HasConn(self, remote)     == conns[self][remote] # NoConn
HasLiveConn(self, remote) == HasConn(self, remote) /\ conns[self][remote].state # "closed"

SetConn(self, remote, c) == conns' = [conns EXCEPT ![self][remote] = c]
Queue(self, frames) == out_frames' = [out_frames EXCEPT ![self] = @ \o frames]

\* Mutant: both directions use one connection id.
OpenInitiatorOneId(self) ==
  [state |-> "syn_sent",
   conn_id_recv |-> next_conn_id[self], conn_id_send |-> next_conn_id[self],
   seq_nr |-> 2, ack_nr |-> 0, pending |-> <<>>, inflight |-> <<>>, ooo |-> {},
   last_ack_seen |-> 0, dup_acks |-> 0]

open_initiator(self) ==
  [state |-> "syn_sent",
   conn_id_recv |-> next_conn_id[self], conn_id_send |-> Plus(next_conn_id[self], 1),
   seq_nr |-> 2, ack_nr |-> 0, pending |-> <<>>, inflight |-> <<>>, ooo |-> {},
   last_ack_seen |-> 0, dup_acks |-> 0]

\* app_send with no connection or a closed one: a fresh connection replaces it.
AppSendOpens(self, dst, payload) ==
  /\ ~HasLiveConn(self, dst)
  /\ SetConn(self, dst, [open_initiator(self) EXCEPT !.pending = <<payload>>])
  /\ Queue(self, <<SynFrame(self, dst, open_initiator(self))>>)
  /\ next_conn_id' = [next_conn_id EXCEPT ![self] = Plus(@, 1)]
  /\ UNCHANGED out_delivers

\* app_send during the handshake: the payload waits.
AppSendWaits(self, dst, payload) ==
  /\ HasLiveConn(self, dst)
  /\ conns[self][dst].state # "connected"
  /\ SetConn(self, dst, [conns[self][dst] EXCEPT !.pending = Append(@, payload)])
  /\ UNCHANGED <<out_frames, out_delivers, next_conn_id>>

\* app_send on an established connection.
AppSendConnected(self, dst, payload) ==
  /\ HasConn(self, dst)
  /\ conns[self][dst].state = "connected"
  /\ \E o \in packetize(self, dst, [conns[self][dst] EXCEPT !.pending = Append(@, payload)]) :
       /\ SetConn(self, dst, o.conn)
       /\ Queue(self, o.frames)
  /\ UNCHANGED <<out_delivers, next_conn_id>>

handle_app_send(self, dst, payload) ==
  \/ AppSendOpens(self, dst, payload)
  \/ AppSendWaits(self, dst, payload)
  \/ AppSendConnected(self, dst, payload)

-----------------------------------------------------------------------------
(* Actions: network side.  f is the frame that arrives at self = f.dst. *)

Matching(self, f) ==
  /\ HasConn(self, f.src)
  /\ \/ f.connection_id = conns[self][f.src].conn_id_recv
     \/ f.type = "st_reset" /\ f.connection_id = conns[self][f.src].conn_id_send

\* Mutant: every SYN starts over.
NeverRetransmitOfCurrent(self, f) == FALSE

\* The SYN of the attempt this entry already answers.
IsRetransmitOfCurrent(self, f) ==
  HasLiveConn(self, f.src) /\ conns[self][f.src].conn_id_send = f.connection_id

\* accept_syn for a new attempt: whatever entry exists is erased.
AcceptNewSyn(self, f) ==
  /\ f.type = "st_syn"
  /\ ~IsRetransmitOfCurrent(self, f)
  /\ LET c == [state |-> "syn_recv",
               conn_id_send |-> f.connection_id, conn_id_recv |-> Plus(f.connection_id, 1),
               seq_nr |-> AcceptorSeq0, ack_nr |-> f.seq_nr,
               pending |-> <<>>, inflight |-> <<>>, ooo |-> {},
               last_ack_seen |-> 0, dup_acks |-> 0]
     IN  /\ SetConn(self, f.src, c)
         /\ Queue(self, <<header_for(self, f.src, c, "st_state")>>)
  /\ UNCHANGED <<out_delivers, next_conn_id>>

AcceptSynAgain(self, f) ==
  /\ f.type = "st_syn"
  /\ IsRetransmitOfCurrent(self, f)
  /\ Queue(self, <<header_for(self, f.src, conns[self][f.src], "st_state")>>)
  /\ UNCHANGED <<conns, out_delivers, next_conn_id>>

\* A frame of no known stream is answered by a reset that echoes its id.
RejectForeign(self, f) ==
  /\ f.type \in {"st_state", "st_data"}
  /\ ~Matching(self, f)
  /\ Queue(self, <<ResetFrame(self, f)>>)
  /\ UNCHANGED <<conns, out_delivers, next_conn_id>>

IgnoreForeignReset(self, f) ==
  /\ f.type = "st_reset"
  /\ ~Matching(self, f)
  /\ UNCHANGED socketVars

\* The acceptor's answer completes the initiator's handshake.
ReceiveSynAck(self, f) ==
  /\ f.type = "st_state"
  /\ Matching(self, f)
  /\ conns[self][f.src].state = "syn_sent"
  /\ \E o \in packetize(self, f.src,
                [conns[self][f.src] EXCEPT !.state = "connected", !.ack_nr = Plus(f.seq_nr, -1)]) :
       /\ SetConn(self, f.src, o.conn)
       /\ Queue(self, o.frames)
  /\ UNCHANGED <<out_delivers, next_conn_id>>

ReceiveState(self, f) ==
  /\ f.type = "st_state"
  /\ Matching(self, f)
  /\ conns[self][f.src].state # "syn_sent"
  /\ \E o \in process_acks(self, f.src, conns[self][f.src], f) :
       /\ SetConn(self, f.src, o.conn)
       /\ Queue(self, o.frames)
  /\ UNCHANGED <<out_delivers, next_conn_id>>

\* Mutant: what the application queued during the handshake is not flushed.
OnFirstDataNoFlush(self, src, c) ==
  {[conn |-> IF c.state = "syn_recv" THEN [c EXCEPT !.state = "connected"] ELSE c,
    frames |-> <<>>]}

\* The first data packet takes SYN_RECV to CONNECTED and flushes what the
\* application queued meanwhile.
OnFirstData(self, src, c) ==
  IF c.state = "syn_recv" THEN packetize(self, src, [c EXCEPT !.state = "connected"])
                          ELSE {[conn |-> c, frames |-> <<>>]}

ReceiveData(self, f) ==
  /\ f.type = "st_data"
  /\ Matching(self, f)
  /\ \E o1 \in OnFirstData(self, f.src, conns[self][f.src]) :
     \E o2 \in process_acks(self, f.src, o1.conn, f) :
     \E o3 \in receive_data(self, f.src, o2.conn, f) :
       /\ SetConn(self, f.src, o3.conn)
       /\ Queue(self, o1.frames \o o2.frames \o o3.frames)
       /\ out_delivers' = [out_delivers EXCEPT ![self] = @ \o o3.delivers]
  /\ UNCHANGED next_conn_id

\* Mutant: a reset leaves the pending payloads in the dead entry.
ReceiveResetKeepsPending(self, f) ==
  /\ f.type = "st_reset"
  /\ Matching(self, f)
  /\ SetConn(self, f.src, [conns[self][f.src] EXCEPT !.state = "closed", !.inflight = <<>>])
  /\ UNCHANGED <<out_frames, out_delivers, next_conn_id>>

\* A matching reset closes; the out-of-order buffer and the ids stay.
ReceiveReset(self, f) ==
  /\ f.type = "st_reset"
  /\ Matching(self, f)
  /\ SetConn(self, f.src, [conns[self][f.src] EXCEPT !.state = "closed",
                                                     !.inflight = <<>>, !.pending = <<>>])
  /\ UNCHANGED <<out_frames, out_delivers, next_conn_id>>

handle_frame(self, f) ==
  \/ AcceptNewSyn(self, f)
  \/ AcceptSynAgain(self, f)
  \/ RejectForeign(self, f)
  \/ IgnoreForeignReset(self, f)
  \/ ReceiveSynAck(self, f)
  \/ ReceiveState(self, f)
  \/ ReceiveData(self, f)
  \/ ReceiveReset(self, f)

-----------------------------------------------------------------------------
(* Actions: internal transition *)

Idle(self) == out_frames[self] = <<>> /\ out_delivers[self] = <<>>

PopFront(q) == IF q = <<>> THEN q ELSE Tail(q)

\* With anything queued, the step emits the front of both queues.
EmitFront(self) ==
  /\ ~Idle(self)
  /\ out_frames' = [out_frames EXCEPT ![self] = PopFront(@)]
  /\ out_delivers' = [out_delivers EXCEPT ![self] = PopFront(@)]
  /\ UNCHANGED <<conns, next_conn_id>>

timer_armed(self, remote) ==
  /\ HasConn(self, remote)
  /\ \/ conns[self][remote].inflight # <<>>
     \/ conns[self][remote].state = "syn_sent"

TimeoutFrame(self, remote) ==
  LET c == conns[self][remote]
  IN  IF c.state = "syn_sent" THEN SynFrame(self, remote, c)
                              ELSE DataFrame(self, remote, c, Head(c.inflight))

\* The timers of the connections in due expire together; they are served in
\* the order of the map, that is of the peer ids.
TimerExpiry(self, due) ==
  /\ Idle(self)
  /\ due # {} /\ \A r \in due : timer_armed(self, r)
  /\ \E order \in [1 .. Cardinality(due) -> due] :
       /\ \A i, j \in 1 .. Cardinality(due) : i < j => order[i] < order[j]
       /\ Queue(self, [i \in 1 .. Cardinality(due) |-> TimeoutFrame(self, order[i])])
  /\ UNCHANGED <<conns, out_delivers, next_conn_id>>

-----------------------------------------------------------------------------
SocketInit ==
  /\ conns = [self \in Peers |-> [remote \in Peers |-> NoConn]]
  /\ out_frames = [self \in Peers |-> <<>>]
  /\ out_delivers = [self \in Peers |-> <<>>]
  /\ next_conn_id = [self \in Peers |-> 1]

\* Every variable holds values of its type.
SocketTypeOK ==
  /\ conns \in [Peers -> [Peers -> Conn \cup {NoConn}]]
  /\ out_frames \in [Peers -> Seq(Frame)]
  /\ out_delivers \in [Peers -> Seq(Deliver)]
  /\ next_conn_id \in [Peers -> Uint16]
=============================================================================
