--------------------------- MODULE UtpNetworkProofs ---------------------------
(***************************************************************************)
(* Theorems about UtpNetwork for any number of peers, payloads, losses and *)
(* spurious timeouts, any width of the sequence numbers and any initial    *)
(* one.  For any peers that open: type correctness, and that packets are   *)
(* in flight only on a connected stream.  When of any two peers only one   *)
(* opens: the agreement of the two ends of a handshake; and, for streams   *)
(* shorter than half the range of the numbers, that the payloads come out  *)
(* in order, each once, that none is lost, and that the sockets implement  *)
(* the reliable stream (its safety).                                       *)
(***************************************************************************)
EXTENDS UtpNetwork, TLAPS, FiniteNatSets

-----------------------------------------------------------------------------
(* The operators of UtpSocket, and that each handler keeps the variables in *)
(* their types.                                                             *)

\* The sum of a 16-bit number and an offset is a 16-bit number.
LEMMA PlusType ==
  ASSUME NEW a \in Int, NEW k \in Int
  PROVE  Plus(a, k) \in Uint16
BY SeqModAssumption DEF Plus, Uint16

LEMMA SeqDiffType ==
  ASSUME NEW a \in Uint16, NEW b \in Uint16
  PROVE  seq_diff(a, b) \in Int
BY SeqModAssumption DEF seq_diff, Uint16

\* A subsequence has the elements of the sequence, one per index.
LEMMA SubsequenceType ==
  ASSUME NEW S, NEW s \in Seq(S), NEW I \in SUBSET (1 .. Len(s))
  PROVE  /\ Subsequence(s, I) \in Seq(S)
         /\ Len(Subsequence(s, I)) = Cardinality(I)
<1> DEFINE pick(k) == CHOOSE j \in I : Cardinality({i \in I : i < j}) = k - 1
<1>1. Len(s) \in Nat /\ \A i \in 1 .. Len(s) : s[i] \in S
  BY ElementOfSeq
<1>2. I \subseteq Nat /\ IsFiniteSet(I)
  <2>1. IsFiniteSet(1 .. Len(s))
    BY <1>1, FS_Interval
  <2>2. IsFiniteSet(I)
    BY <2>1, FS_Subset
  <2>3. \A i \in 1 .. Len(s) : i \in Nat
    BY <1>1
  <2>4. QED BY <2>2, <2>3
<1>3. Cardinality(I) \in Nat
  BY <1>2, FS_CardinalityType
<1>4. ASSUME NEW k \in 1 .. Cardinality(I)
      PROVE  s[pick(k)] \in S
  <2>1. k - 1 \in Nat /\ k - 1 < Cardinality(I)
    BY <1>3
  <2>2. \E j \in I : Cardinality({i \in I : i < j}) = k - 1
    BY <1>2, <2>1, NthElement
  <2>3. pick(k) \in I
    BY <2>2
  <2>4. QED BY <2>3, <1>1
<1>5. Subsequence(s, I) = [k \in 1 .. Cardinality(I) |-> s[pick(k)]]
  BY DEF Subsequence
<1> HIDE DEF pick
<1>6. QED
  BY <1>3, <1>4, <1>5, IsASeq

-----------------------------------------------------------------------------
(* Frames *)

\* The frames a connection sends on its stream.
StreamFrame(self, remote, c) ==
  {f \in Frame : /\ f.src = self /\ f.dst = remote
                 /\ f.connection_id = c.conn_id_send
                 /\ f.type \in {"st_state", "st_data"}}

LEMMA HeaderType ==
  ASSUME NEW self \in Peers, NEW dst \in Peers, NEW c \in Conn
  PROVE  header_for(self, dst, c, "st_state") \in StreamFrame(self, dst, c)
BY DEF header_for, StreamFrame, Frame, Conn, PktType, NoPayload

LEMMA DataFrameType ==
  ASSUME NEW self \in Peers, NEW dst \in Peers, NEW c \in Conn, NEW p \in InflightPkt
  PROVE  DataFrame(self, dst, c, p) \in StreamFrame(self, dst, c)
<1>1. p.completing \in Payload /\ p.completing # NoPayload /\ p.seq \in Uint16
  BY DEF InflightPkt, Payload
<1>2. QED
  BY <1>1 DEF DataFrame, header_for, StreamFrame, Frame, Conn, PktType

LEMMA AckFrameType ==
  ASSUME NEW self \in Peers, NEW dst \in Peers, NEW c \in Conn
  PROVE  AckFrame(self, dst, c) \in StreamFrame(self, dst, c)
<1>1. build_sack(c) \in SUBSET Uint16
  BY DEF build_sack, Conn, RecvPkt
<1>2. QED
  BY <1>1 DEF AckFrame, header_for, StreamFrame, Frame, Conn, PktType

LEMMA SynFrameType ==
  ASSUME NEW self \in Peers, NEW dst \in Peers, NEW c \in Conn
  PROVE  SynFrame(self, dst, c) \in Frame
BY SeqModAssumption DEF SynFrame, Frame, Conn, PktType, Uint16

LEMMA ResetFrameType ==
  ASSUME NEW self \in Peers, NEW f \in Frame
  PROVE  ResetFrame(self, f) \in Frame
BY SeqModAssumption DEF ResetFrame, Frame, PktType, Uint16

-----------------------------------------------------------------------------
(* The steps of the handlers *)

\* What a step of a handler may do to a connection: it changes neither the
\* state nor the connection ids, and queues only frames of the stream.
Keeps(self, remote, c, o) ==
  /\ o.conn \in Conn
  /\ o.conn.state = c.state
  /\ o.conn.conn_id_send = c.conn_id_send
  /\ o.conn.conn_id_recv = c.conn_id_recv
  /\ o.frames \in Seq(StreamFrame(self, remote, c))

LEMMA PacketizeKeeps ==
  ASSUME NEW self \in Peers, NEW dst \in Peers, NEW c \in Conn,
         NEW o \in packetize(self, dst, c)
  PROVE  Keeps(self, dst, c, o)
<1> DEFINE Sent(n) == [i \in 1 .. n |-> [seq |-> Plus(c.seq_nr, i - 1),
                                         completing |-> c.pending[i], sacked_past |-> 0]]
<1>1. PICK n \in SendCounts(c) :
        o = [conn   |-> [c EXCEPT !.inflight = c.inflight \o Sent(n),
                                  !.pending  = SubSeq(c.pending, n + 1, Len(c.pending)),
                                  !.seq_nr   = Plus(c.seq_nr, n)],
             frames |-> [i \in 1 .. n |-> DataFrame(self, dst, c, Sent(n)[i])]]
  BY DEF packetize
<1>2. /\ c.pending \in Seq(Payload) /\ c.inflight \in Seq(InflightPkt)
      /\ c.seq_nr \in Uint16
  BY DEF Conn
<1>3. Len(c.pending) \in Nat /\ n \in Nat /\ n <= Len(c.pending)
  BY <1>2 DEF SendCounts
<1>4. \A i \in 1 .. n : Sent(n)[i] \in InflightPkt
  <2>1. ASSUME NEW i \in 1 .. n
        PROVE  /\ Plus(c.seq_nr, i - 1) \in Uint16
               /\ c.pending[i] \in Payload
    <3>1. c.seq_nr \in Int /\ i - 1 \in Int
      BY <1>2, <1>3, SeqModAssumption DEF Uint16
    <3>2. i \in 1 .. Len(c.pending)
      BY <1>3
    <3>3. QED BY <1>2, <3>1, <3>2, PlusType, ElementOfSeq
  <2>2. QED BY <2>1 DEF InflightPkt
<1>5. Sent(n) \in Seq(InflightPkt)
  <2>1. Sent(n) \in [1 .. n -> InflightPkt]
    BY <1>4
  <2>2. QED BY <2>1, <1>3, IsASeq
<1> HIDE DEF Sent
<1>6. c.inflight \o Sent(n) \in Seq(InflightPkt)
  BY <1>2, <1>5, ConcatProperties
<1>7. SubSeq(c.pending, n + 1, Len(c.pending)) \in Seq(Payload)
  BY <1>2, <1>3, SubSeqProperties
<1>8. Plus(c.seq_nr, n) \in Uint16
  <2>1. c.seq_nr \in Int /\ n \in Int
    BY <1>2, <1>3, SeqModAssumption DEF Uint16
  <2>2. QED BY <2>1, PlusType
<1>9. o.conn \in Conn
  BY <1>1, <1>6, <1>7, <1>8 DEF Conn
<1>10. o.frames \in Seq(StreamFrame(self, dst, c))
  <2>1. \A i \in 1 .. n : DataFrame(self, dst, c, Sent(n)[i]) \in StreamFrame(self, dst, c)
    BY <1>4, DataFrameType
  <2>2. QED BY <1>1, <1>3, <2>1, IsASeq
<1>11. QED
  BY <1>1, <1>9, <1>10 DEF Keeps, Conn

\* The cumulative acknowledgement leaves a suffix of the deque.
LEMMA UnackedType ==
  ASSUME NEW c \in Conn, NEW pkt \in Frame
  PROVE  Unacked(c, pkt) \in Seq(InflightPkt)
<1> DEFINE acked == {i \in 1 .. Len(c.inflight) :
                       \A j \in 1 .. i : seq_diff(c.inflight[j].seq, pkt.ack_nr) <= 0}
<1>1. c.inflight \in Seq(InflightPkt) /\ Len(c.inflight) \in Nat
  BY LenProperties DEF Conn
<1>2. IsFiniteSet(1 .. Len(c.inflight)) /\ Cardinality(1 .. Len(c.inflight)) = Len(c.inflight)
  BY <1>1, FS_Interval, SMTT(30)
<1>3. Cardinality(acked) \in Nat
  BY <1>2, FS_Subset, FS_CardinalityType
<1>4. AckedCount(c, pkt) \in Nat
  BY <1>3 DEF AckedCount
<1>5. QED
  BY <1>1, <1>4, SubSeqProperties DEF Unacked

\* The selective acknowledgement leaves a subsequence of the deque.
LEMMA HolesType ==
  ASSUME NEW q \in Seq(InflightPkt), NEW pkt \in Frame
  PROVE  Holes(q, pkt) \in Seq(InflightPkt)
<1> DEFINE sacked == {i \in 1 .. Len(q) : q[i].seq \in pkt.sack}
           Later(i) == {j \in sacked : i < j}
           e(i)    == [q[i] EXCEPT !.sacked_past = q[i].sacked_past + Cardinality(Later(i))]
           Counted == [i \in 1 .. Len(q) |-> e(i)]
<1>1. Len(q) \in Nat /\ IsFiniteSet(1 .. Len(q))
  BY LenProperties, FS_Interval
<1>2. IsFiniteSet(sacked)
  BY <1>1, FS_Subset
<1>3. \A i \in 1 .. Len(q) : Cardinality(Later(i)) \in Nat
  BY <1>2, FS_Subset, FS_CardinalityType
<1>4. \A i \in 1 .. Len(q) : q[i] \in InflightPkt
  BY ElementOfSeq
<1>5. Counted \in Seq(InflightPkt) /\ Len(Counted) = Len(q)
  <2>1. \A i \in 1 .. Len(q) : e(i) \in InflightPkt
    <3> HIDE DEF Later
    <3>1. QED BY <1>3, <1>4 DEF InflightPkt
  <2> HIDE DEF e
  <2>2. Counted \in Seq(InflightPkt)
    BY <1>1, <2>1, IsASeq
  <2>3. QED BY <1>1, <2>2, LenProperties
<1>6. Holes(q, pkt) = Subsequence(Counted, (1 .. Len(q)) \ sacked)
  BY DEF Holes
<1> HIDE DEF Counted, sacked
<1>7. (1 .. Len(q)) \ sacked \in SUBSET (1 .. Len(Counted))
  BY <1>5
<1>8. QED
  BY <1>5, <1>6, <1>7, SubsequenceType

LEMMA RecountedType ==
  ASSUME NEW q \in Seq(InflightPkt)
  PROVE  Recounted(q) \in Seq(InflightPkt)
<1>1. Len(q) \in Nat /\ \A i \in 1 .. Len(q) : q[i] \in InflightPkt
  BY LenProperties, ElementOfSeq
<1>2. \A i \in 1 .. Len(q) : (IF i \in LostIndices(q) THEN [q[i] EXCEPT !.sacked_past = 0]
                              ELSE q[i]) \in InflightPkt
  BY <1>1 DEF InflightPkt
<1>3. QED
  BY <1>1, <1>2, IsASeq DEF Recounted

LEMMA LostFramesType ==
  ASSUME NEW self \in Peers, NEW dst \in Peers, NEW c \in Conn, NEW q \in Seq(InflightPkt)
  PROVE  LostFrames(self, dst, c, q) \in Seq(StreamFrame(self, dst, c))
<1> DEFINE lost == Subsequence(q, LostIndices(q))
<1>1. LostIndices(q) \in SUBSET (1 .. Len(q))
  BY DEF LostIndices
<1>2. lost \in Seq(InflightPkt) /\ Len(lost) = Cardinality(LostIndices(q))
  BY <1>1, SubsequenceType
<1> HIDE DEF lost
<1>3. Cardinality(LostIndices(q)) \in Nat
  BY <1>2, LenProperties
<1>4. \A i \in 1 .. Cardinality(LostIndices(q)) :
        DataFrame(self, dst, c, lost[i]) \in StreamFrame(self, dst, c)
  BY <1>2, ElementOfSeq, DataFrameType
<1>5. LostFrames(self, dst, c, q)
        = [i \in 1 .. Cardinality(LostIndices(q)) |-> DataFrame(self, dst, c, lost[i])]
  BY DEF LostFrames, lost
<1>6. QED
  BY <1>3, <1>4, <1>5, IsASeq

\* The connection process_acks leaves before it sends anything.
AckedConn(c, pkt, holes) ==
  [c EXCEPT !.inflight = Recounted(holes), !.last_ack_seen = pkt.ack_nr, !.dup_acks = 0]

CountedConn(c, pkt, holes) ==
  [AckedConn(c, pkt, holes) EXCEPT !.dup_acks = c.dup_acks + 1]

LEMMA AckCases ==
  ASSUME NEW self, NEW dst, NEW c \in Conn, NEW pkt, NEW holes,
         NEW o \in AckOutcomes(self, dst, c, pkt, holes)
  PROVE  LET c1   == AckedConn(c, pkt, holes)
             lost == LostFrames(self, dst, c, holes)
         IN  \/ /\ c.state = "connected"
                /\ \E p \in packetize(self, dst, c1) :
                     o = [conn |-> p.conn, frames |-> lost \o p.frames]
             \/ o = [conn |-> c1, frames |-> lost]
             \/ /\ holes # <<>>
                /\ o = [conn |-> c1, frames |-> lost \o <<DataFrame(self, dst, c, Head(holes))>>]
             \/ o = [conn |-> CountedConn(c, pkt, holes), frames |-> lost]
<1> DEFINE lost == LostFrames(self, dst, c, holes)
           c1   == AckedConn(c, pkt, holes)
           c2   == CountedConn(c, pkt, holes)
           A == Len(holes) < Len(c.inflight)
           D == pkt.ack_nr = c.last_ack_seen /\ holes # <<>>
           T == c.dup_acks + 1 >= DupAckThreshold
<1>0. c.dup_acks + 1 >= DupAckThreshold \/ c.dup_acks + 1 < DupAckThreshold
  BY ThresholdAssumption DEF Conn
<1>1. CASE A /\ c.state = "connected"
  BY <1>1 DEF AckOutcomes, AckedConn
<1>2. CASE A /\ c.state # "connected"
  BY <1>2 DEF AckOutcomes, AckedConn
<1>3. CASE ~A /\ D /\ T
  <2>1. ~(c.dup_acks + 1 < DupAckThreshold)
    BY <1>3, ThresholdAssumption DEF Conn
  <2>2. AckOutcomes(self, dst, c, pkt, holes)
          = {[conn |-> c1, frames |-> lost \o <<DataFrame(self, dst, c, Head(holes))>>]}
    BY <1>3, <2>1 DEF AckOutcomes, AckedConn
  <2>3. QED BY <1>3, <2>2
<1>4. CASE ~A /\ D /\ ~T
  <2>1. c.dup_acks + 1 < DupAckThreshold
    BY <1>4, <1>0
  <2>2. AckOutcomes(self, dst, c, pkt, holes) = {[conn |-> c2, frames |-> lost]}
    BY <1>4, <2>1 DEF AckOutcomes, AckedConn, CountedConn
  <2>3. QED BY <2>2
<1>5. CASE ~A /\ ~D
  BY <1>5 DEF AckOutcomes, AckedConn
<1>6. QED BY <1>1, <1>2, <1>3, <1>4, <1>5

LEMMA ProcessAcksKeeps ==
  ASSUME NEW self \in Peers, NEW dst \in Peers, NEW c \in Conn, NEW pkt \in Frame,
         NEW o \in process_acks(self, dst, c, pkt)
  PROVE  Keeps(self, dst, c, o)
<1> DEFINE holes == Holes(Unacked(c, pkt), pkt)
           lost  == LostFrames(self, dst, c, holes)
           c1    == AckedConn(c, pkt, holes)
           c2    == CountedConn(c, pkt, holes)
           SF    == StreamFrame(self, dst, c)
<1>1. holes \in Seq(InflightPkt)
  BY UnackedType, HolesType
<1>2. Recounted(holes) \in Seq(InflightPkt) /\ lost \in Seq(SF)
  BY <1>1, RecountedType, LostFramesType
<1>3. pkt.ack_nr \in Uint16
  BY DEF Frame
<1>4. o \in AckOutcomes(self, dst, c, pkt, holes)
  BY DEF process_acks
<1> HIDE DEF holes, lost
<1>5. /\ c1 \in Conn /\ c1.state = c.state
      /\ c1.conn_id_send = c.conn_id_send /\ c1.conn_id_recv = c.conn_id_recv
  BY <1>2, <1>3 DEF Conn, AckedConn
<1> HIDE DEF c1
<1>6. /\ c2 \in Conn /\ c2.state = c.state
      /\ c2.conn_id_send = c.conn_id_send /\ c2.conn_id_recv = c.conn_id_recv
  <2>1. c.dup_acks + 1 \in Nat
    BY DEF Conn
  <2>2. QED BY <1>5, <2>1 DEF Conn, CountedConn, c1
<1> HIDE DEF c2
<1>7. \/ \E p \in packetize(self, dst, c1) : o = [conn |-> p.conn, frames |-> lost \o p.frames]
      \/ o = [conn |-> c1, frames |-> lost]
      \/ holes # <<>> /\ o = [conn |-> c1, frames |-> lost \o <<DataFrame(self, dst, c, Head(holes))>>]
      \/ o = [conn |-> c2, frames |-> lost]
  BY <1>4, AckCases DEF c1, c2, lost
<1>8. CASE \E p \in packetize(self, dst, c1) : o = [conn |-> p.conn, frames |-> lost \o p.frames]
  <2>1. PICK p \in packetize(self, dst, c1) : o = [conn |-> p.conn, frames |-> lost \o p.frames]
    BY <1>8
  <2>2. Keeps(self, dst, c1, p)
    BY <1>5, PacketizeKeeps
  <2>3. StreamFrame(self, dst, c1) = SF
    BY <1>5 DEF StreamFrame
  <2>4. lost \o p.frames \in Seq(SF)
    BY <1>2, <2>2, <2>3, ConcatProperties DEF Keeps
  <2>6. o.conn = p.conn /\ o.frames = lost \o p.frames
    BY <2>1
  <2>7. QED BY <2>2, <2>4, <2>6, <1>5 DEF Keeps
<1>9. CASE holes # <<>> /\ o = [conn |-> c1, frames |-> lost \o <<DataFrame(self, dst, c, Head(holes))>>]
  <2>1. Head(holes) \in InflightPkt
    BY <1>1, <1>9, HeadTailProperties
  <2>2. <<DataFrame(self, dst, c, Head(holes))>> \in Seq(SF)
    BY <2>1, DataFrameType
  <2>3. o.frames \in Seq(SF)
    BY <1>2, <1>9, <2>2, ConcatProperties
  <2>4. QED BY <2>3, <1>9, <1>5 DEF Keeps
<1>10. QED
  BY <1>2, <1>5, <1>6, <1>7, <1>8, <1>9 DEF Keeps

\* Every number up to the length of the in-order run is in the run.
LEMMA InOrderRunPrefix ==
  ASSUME NEW c, NEW j \in 1 .. Cardinality(InOrderRun(c))
  PROVE  /\ Cardinality(InOrderRun(c)) \in Nat
         /\ \E p \in c.ooo : p.seq = Plus(c.ack_nr, j)
<1> DEFINE R == InOrderRun(c)
<1>1. IsFiniteSet(1 .. SeqMod - 1)
  BY SeqModAssumption, FS_Interval
<1>2. IsFiniteSet(R) /\ Cardinality(R) \in Nat
  BY <1>1, FS_Subset, FS_CardinalityType DEF InOrderRun
<1>3. \A k \in R : k \in Nat /\ k >= 1
  BY SeqModAssumption DEF InOrderRun
<1>4. \E k \in R : j <= k
  <2>1. SUFFICES ASSUME \A k \in R : ~(j <= k) PROVE FALSE
    OBVIOUS
  <2>2. j \in Nat /\ j >= 1 /\ j <= Cardinality(R)
    BY <1>2
  <2>3. R \subseteq 1 .. j - 1
    BY <2>1, <2>2, <1>3
  <2>4. IsFiniteSet(1 .. j - 1) /\ Cardinality(1 .. j - 1) = j - 1
    BY <2>2, FS_Interval
  <2>5. Cardinality(R) <= j - 1
    BY <2>3, <2>4, FS_Subset
  <2>6. QED BY <2>2, <2>5, <1>2
<1>5. QED
  BY <1>2, <1>3, <1>4 DEF InOrderRun

LEMMA DrainType ==
  ASSUME NEW c \in Conn
  PROVE  /\ drain_ooo(c).conn \in Conn
         /\ drain_ooo(c).conn.state = c.state
         /\ drain_ooo(c).conn.conn_id_send = c.conn_id_send
         /\ drain_ooo(c).conn.conn_id_recv = c.conn_id_recv
         /\ drain_ooo(c).payloads \in Seq(Payload)
<1> DEFINE n == Cardinality(InOrderRun(c))
           Buffered(j) == CHOOSE p \in c.ooo : p.seq = Plus(c.ack_nr, j)
<1>1. n \in Nat
  <2>1. IsFiniteSet(1 .. SeqMod - 1)
    BY SeqModAssumption, FS_Interval
  <2>2. QED BY <2>1, FS_Subset, FS_CardinalityType DEF InOrderRun
<1>2. \A j \in 1 .. n : Buffered(j) \in c.ooo
  BY InOrderRunPrefix
<1>3. \A j \in 1 .. n : Buffered(j).completing \in Payload
  BY <1>2 DEF Conn, RecvPkt
<1>4. Plus(c.ack_nr, n) \in Uint16
  <2>1. c.ack_nr \in Int /\ n \in Int
    BY <1>1, SeqModAssumption DEF Conn, Uint16
  <2>2. QED BY <2>1, PlusType
<1> DEFINE rest == c.ooo \ {Buffered(j) : j \in 1 .. n}
           out  == [j \in 1 .. n |-> Buffered(j).completing]
           c1   == [c EXCEPT !.ack_nr = Plus(c.ack_nr, n), !.ooo = rest]
<1>5. drain_ooo(c) = [conn |-> c1, payloads |-> out]
  BY DEF drain_ooo
<1> HIDE DEF n, Buffered
<1>6. out \in Seq(Payload)
  BY <1>1, <1>3, IsASeq
<1>7. rest \in SUBSET RecvPkt
  BY DEF Conn
<1> HIDE DEF rest, out
<1>8. c1 \in Conn /\ c1.state = c.state
      /\ c1.conn_id_send = c.conn_id_send /\ c1.conn_id_recv = c.conn_id_recv
  BY <1>4, <1>7 DEF Conn
<1> HIDE DEF c1
<1>9. QED
  BY <1>5, <1>6, <1>8

LEMMA AcceptedType ==
  ASSUME NEW c \in Conn, NEW f \in Frame, f.type = "st_data"
  PROVE  /\ Accepted(c, f).conn \in Conn
         /\ Accepted(c, f).conn.state = c.state
         /\ Accepted(c, f).conn.conn_id_send = c.conn_id_send
         /\ Accepted(c, f).conn.conn_id_recv = c.conn_id_recv
         /\ Accepted(c, f).payloads \in Seq(Payload)
<1> DEFINE c1  == [c EXCEPT !.ack_nr = f.seq_nr]
           run == drain_ooo(c1)
           c2  == [c EXCEPT !.ooo = c.ooo \cup {[seq |-> f.seq_nr, completing |-> f.completing]}]
           rel == seq_diff(f.seq_nr, c.ack_nr)
           known == \E p \in c.ooo : p.seq = f.seq_nr
<1>1. f.completing \in Payload /\ f.seq_nr \in Uint16 /\ c.ack_nr \in Uint16
  BY DEF Frame, Payload, Conn
<1>2. rel \in Int
  BY <1>1, SeqDiffType
<1>3. c1 \in Conn /\ c1.state = c.state
      /\ c1.conn_id_send = c.conn_id_send /\ c1.conn_id_recv = c.conn_id_recv
  BY <1>1 DEF Conn
<1>4. c2 \in Conn /\ c2.state = c.state
      /\ c2.conn_id_send = c.conn_id_send /\ c2.conn_id_recv = c.conn_id_recv
  BY <1>1 DEF Conn, RecvPkt
<1>5. <<f.completing>> \in Seq(Payload) /\ <<>> \in Seq(Payload)
  BY <1>1
<1> HIDE DEF c1, c2
<1>6. <<f.completing>> \o run.payloads \in Seq(Payload)
  BY <1>3, <1>5, DrainType, ConcatProperties
<1>7. CASE rel = 1
  <2>1. Accepted(c, f) = [conn |-> run.conn, payloads |-> <<f.completing>> \o run.payloads]
    BY <1>7 DEF Accepted, c1
  <2>2. QED BY <2>1, <1>3, <1>6, DrainType
<1>8. CASE rel > 1 /\ ~known
  <2>1. ~(rel = 1) /\ ~(rel <= 0)
    BY <1>8, <1>2
  <2>3. Accepted(c, f) = [conn |-> c2, payloads |-> <<>>]
    BY <1>8, <2>1 DEF Accepted, c2
  <2>2. QED BY <2>3, <1>4, <1>5
<1>9. CASE rel <= 0 \/ (rel > 1 /\ known)
  <2>1. ~(rel = 1) /\ ~(rel > 1 /\ ~known)
    BY <1>9, <1>2
  <2>3. Accepted(c, f) = [conn |-> c, payloads |-> <<>>]
    BY <1>9, <2>1 DEF Accepted
  <2>2. QED BY <2>3, <1>5
<1>10. QED
  BY <1>2, <1>7, <1>8, <1>9

LEMMA ReceiveDataKeeps ==
  ASSUME NEW self \in Peers, NEW src \in Peers, NEW c \in Conn,
         NEW f \in Frame, f.type = "st_data",
         NEW o \in receive_data(self, src, c, f)
  PROVE  Keeps(self, src, c, o) /\ o.delivers \in Seq([src : {src}, payload : Payload])
<1> DEFINE a    == Accepted(c, f)
           D    == [src : {src}, payload : Payload]
           e(i) == [src |-> src, payload |-> a.payloads[i]]
           out  == [i \in 1 .. Len(a.payloads) |-> e(i)]
           ack  == <<AckFrame(self, src, a.conn)>>
<1>1. /\ a.conn \in Conn /\ a.conn.state = c.state
      /\ a.conn.conn_id_send = c.conn_id_send /\ a.conn.conn_id_recv = c.conn_id_recv
      /\ a.payloads \in Seq(Payload)
  BY AcceptedType
<1>2. o = [conn |-> a.conn, frames |-> ack, delivers |-> out]
  BY DEF receive_data
<1> HIDE DEF a
<1>3. AckFrame(self, src, a.conn) \in StreamFrame(self, src, c)
  BY <1>1, AckFrameType DEF StreamFrame
<1>4. Len(a.payloads) \in Nat /\ \A i \in 1 .. Len(a.payloads) : a.payloads[i] \in Payload
  BY <1>1, LenProperties, ElementOfSeq
<1>5. \A i \in 1 .. Len(a.payloads) : e(i) \in D
  BY <1>4
<1> HIDE DEF e, D
<1>6. out \in Seq(D)
  BY <1>4, <1>5, IsASeq
<1>7. ack \in Seq(StreamFrame(self, src, c))
  BY <1>3
<1> HIDE DEF out, ack
<1>8. o.conn = a.conn /\ o.frames = ack /\ o.delivers = out
  BY <1>2
<1>9. QED
  BY <1>1, <1>6, <1>7, <1>8 DEF Keeps, D

-----------------------------------------------------------------------------
(* The actions *)

\* A connection of the socket is changed in place: its ids stay, its state
\* becomes st, and the frames queued are frames of its stream.
StreamStep(self, remote, st) ==
  \E c1 \in Conn, frames \in Seq(StreamFrame(self, remote, conns[self][remote])) :
    /\ SetConn(self, remote, c1)
    /\ Queue(self, frames)
    /\ c1.state = st
    /\ c1.conn_id_send = conns[self][remote].conn_id_send
    /\ c1.conn_id_recv = conns[self][remote].conn_id_recv

LEMMA ConnType ==
  ASSUME SocketTypeOK, NEW self \in Peers, NEW remote \in Peers, HasConn(self, remote)
  PROVE  conns[self][remote] \in Conn
BY DEF SocketTypeOK, HasConn

LEMMA AppendPendingType ==
  ASSUME NEW c \in Conn, NEW payload \in Payload
  PROVE  LET c1 == [c EXCEPT !.pending = Append(@, payload)]
         IN  /\ c1 \in Conn /\ c1.state = c.state
             /\ c1.conn_id_send = c.conn_id_send /\ c1.conn_id_recv = c.conn_id_recv
<1>1. c.pending \in Seq(Payload)
  BY DEF Conn
<1>2. Append(c.pending, payload) \in Seq(Payload)
  BY <1>1, AppendProperties
<1>3. QED BY <1>2 DEF Conn

LEMMA AppSendConnectedStep ==
  ASSUME SocketTypeOK, NEW self \in Peers, NEW dst \in Peers, NEW payload \in Payload,
         AppSendConnected(self, dst, payload)
  PROVE  StreamStep(self, dst, "connected")
<1> DEFINE c  == conns[self][dst]
           c1 == [c EXCEPT !.pending = Append(c.pending, payload)]
<1>1. c \in Conn /\ c.state = "connected"
  BY ConnType DEF AppSendConnected
<1>2. c1 \in Conn /\ c1.state = c.state
      /\ c1.conn_id_send = c.conn_id_send /\ c1.conn_id_recv = c.conn_id_recv
  BY <1>1, AppendPendingType
<1>3. PICK o \in packetize(self, dst, c1) : SetConn(self, dst, o.conn) /\ Queue(self, o.frames)
  BY DEF AppSendConnected
<1>4. Keeps(self, dst, c1, o)
  BY <1>2, PacketizeKeeps
<1> HIDE DEF c1
<1>5. StreamFrame(self, dst, c1) = StreamFrame(self, dst, c)
  BY <1>2 DEF StreamFrame
<1>6. QED
  BY <1>1, <1>2, <1>3, <1>4, <1>5 DEF Keeps, StreamStep

LEMMA ReceiveSynAckStep ==
  ASSUME SocketTypeOK, NEW f \in Frame, ReceiveSynAck(f.dst, f)
  PROVE  StreamStep(f.dst, f.src, "connected")
<1> DEFINE self == f.dst
           c    == conns[self][f.src]
           c1   == [c EXCEPT !.state = "connected", !.ack_nr = Plus(f.seq_nr, -1)]
<1>1. f.src \in Peers /\ self \in Peers /\ f.seq_nr \in Uint16
  BY DEF Frame
<1>2. c \in Conn
  BY <1>1, ConnType DEF ReceiveSynAck, Matching
<1>3. Plus(f.seq_nr, -1) \in Uint16
  <2>1. f.seq_nr \in Int /\ -1 \in Int
    BY <1>1, SeqModAssumption DEF Uint16
  <2>2. QED BY <2>1, PlusType
<1>4. c1 \in Conn /\ c1.state = "connected"
      /\ c1.conn_id_send = c.conn_id_send /\ c1.conn_id_recv = c.conn_id_recv
  BY <1>2, <1>3 DEF Conn, ConnState
<1>5. PICK o \in packetize(self, f.src, c1) : SetConn(self, f.src, o.conn) /\ Queue(self, o.frames)
  BY DEF ReceiveSynAck
<1>6. Keeps(self, f.src, c1, o)
  BY <1>1, <1>4, PacketizeKeeps
<1> HIDE DEF c1
<1>7. StreamFrame(self, f.src, c1) = StreamFrame(self, f.src, c)
  BY <1>4 DEF StreamFrame
<1>8. QED
  BY <1>4, <1>5, <1>6, <1>7 DEF Keeps, StreamStep

LEMMA ReceiveStateStep ==
  ASSUME SocketTypeOK, NEW f \in Frame, ReceiveState(f.dst, f)
  PROVE  StreamStep(f.dst, f.src, conns[f.dst][f.src].state)
<1> DEFINE self == f.dst
           c    == conns[self][f.src]
<1>1. f.src \in Peers /\ self \in Peers
  BY DEF Frame
<1>2. c \in Conn
  BY <1>1, ConnType DEF ReceiveState, Matching
<1>3. PICK o \in process_acks(self, f.src, c, f) :
        SetConn(self, f.src, o.conn) /\ Queue(self, o.frames)
  BY DEF ReceiveState
<1>4. Keeps(self, f.src, c, o)
  BY <1>1, <1>2, ProcessAcksKeeps
<1>5. QED
  BY <1>3, <1>4 DEF Keeps, StreamStep

\* The state a data packet leaves a connection in.
AfterData(c) == IF c.state = "syn_recv" THEN "connected" ELSE c.state

LEMMA OnFirstDataStep ==
  ASSUME NEW self \in Peers, NEW src \in Peers, NEW c \in Conn,
         NEW o \in OnFirstData(self, src, c)
  PROVE  /\ o.conn \in Conn /\ o.conn.state = AfterData(c)
         /\ o.conn.conn_id_send = c.conn_id_send /\ o.conn.conn_id_recv = c.conn_id_recv
         /\ o.frames \in Seq(StreamFrame(self, src, c))
<1>1. CASE c.state = "syn_recv"
  <2> DEFINE c1 == [c EXCEPT !.state = "connected"]
  <2>1. c1 \in Conn /\ c1.state = "connected"
        /\ c1.conn_id_send = c.conn_id_send /\ c1.conn_id_recv = c.conn_id_recv
    BY DEF Conn, ConnState
  <2>2. o \in packetize(self, src, c1)
    BY <1>1 DEF OnFirstData
  <2>3. Keeps(self, src, c1, o)
    BY <2>1, <2>2, PacketizeKeeps
  <2> HIDE DEF c1
  <2>4. StreamFrame(self, src, c1) = StreamFrame(self, src, c)
    BY <2>1 DEF StreamFrame
  <2>5. QED BY <1>1, <2>1, <2>3, <2>4 DEF Keeps, AfterData
<1>2. CASE c.state # "syn_recv"
  <2>1. o = [conn |-> c, frames |-> <<>>]
    BY <1>2 DEF OnFirstData
  <2>2. QED BY <1>2, <2>1 DEF AfterData
<1>3. QED BY <1>1, <1>2

LEMMA ReceiveDataStep ==
  ASSUME SocketTypeOK, NEW f \in Frame, ReceiveData(f.dst, f)
  PROVE  /\ StreamStep(f.dst, f.src, AfterData(conns[f.dst][f.src]))
         /\ out_delivers' \in [Peers -> Seq(Deliver)]
<1> DEFINE self == f.dst
           c    == conns[self][f.src]
           SF   == StreamFrame(self, f.src, c)
<1>1. f.src \in Peers /\ self \in Peers /\ f.type = "st_data"
  BY DEF Frame, ReceiveData
<1>2. c \in Conn
  BY <1>1, ConnType DEF ReceiveData, Matching
<1>3. PICK o1 \in OnFirstData(self, f.src, c) :
        \E o2 \in process_acks(self, f.src, o1.conn, f) :
        \E o3 \in receive_data(self, f.src, o2.conn, f) :
          /\ SetConn(self, f.src, o3.conn)
          /\ Queue(self, o1.frames \o o2.frames \o o3.frames)
          /\ out_delivers' = [out_delivers EXCEPT ![self] = @ \o o3.delivers]
  BY DEF ReceiveData
<1>4. PICK o2 \in process_acks(self, f.src, o1.conn, f) :
        \E o3 \in receive_data(self, f.src, o2.conn, f) :
          /\ SetConn(self, f.src, o3.conn)
          /\ Queue(self, o1.frames \o o2.frames \o o3.frames)
          /\ out_delivers' = [out_delivers EXCEPT ![self] = @ \o o3.delivers]
  BY <1>3
<1>5. PICK o3 \in receive_data(self, f.src, o2.conn, f) :
        /\ SetConn(self, f.src, o3.conn)
        /\ Queue(self, o1.frames \o o2.frames \o o3.frames)
        /\ out_delivers' = [out_delivers EXCEPT ![self] = @ \o o3.delivers]
  BY <1>4
<1>6. /\ o1.conn \in Conn /\ o1.conn.state = AfterData(c)
      /\ o1.conn.conn_id_send = c.conn_id_send /\ o1.conn.conn_id_recv = c.conn_id_recv
      /\ o1.frames \in Seq(SF)
  BY <1>1, <1>2, OnFirstDataStep
<1>7. Keeps(self, f.src, o1.conn, o2)
  BY <1>1, <1>6, ProcessAcksKeeps
<1>8. Keeps(self, f.src, o2.conn, o3) /\ o3.delivers \in Seq([src : {f.src}, payload : Payload])
  BY <1>1, <1>7, ReceiveDataKeeps DEF Keeps
<1>9. StreamFrame(self, f.src, o1.conn) = SF /\ StreamFrame(self, f.src, o2.conn) = SF
  BY <1>6, <1>7 DEF Keeps, StreamFrame
<1>10. o1.frames \o o2.frames \o o3.frames \in Seq(SF)
  <2>1. o2.frames \in Seq(SF) /\ o3.frames \in Seq(SF)
    BY <1>7, <1>8, <1>9 DEF Keeps
  <2>2. o1.frames \o o2.frames \in Seq(SF)
    BY <1>6, <2>1, ConcatProperties
  <2>3. QED BY <2>1, <2>2, ConcatProperties
<1>11. StreamStep(self, f.src, AfterData(c))
  BY <1>5, <1>6, <1>7, <1>8, <1>10 DEF Keeps, StreamStep
<1>12. out_delivers' \in [Peers -> Seq(Deliver)]
  <2>1. [src : {f.src}, payload : Payload] \subseteq Deliver
    BY <1>1 DEF Deliver
  <2>2. o3.delivers \in Seq(Deliver)
    BY <1>8, <2>1, SeqMonotonic
  <2>3. out_delivers[self] \in Seq(Deliver)
    BY <1>1 DEF SocketTypeOK
  <2>4. out_delivers[self] \o o3.delivers \in Seq(Deliver)
    BY <2>2, <2>3, ConcatProperties
  <2>5. QED BY <1>5, <2>4 DEF SocketTypeOK
<1>13. QED BY <1>11, <1>12

LEMMA SetConnType ==
  ASSUME SocketTypeOK, NEW self \in Peers, NEW remote \in Peers, NEW c \in Conn,
         SetConn(self, remote, c)
  PROVE  conns' \in [Peers -> [Peers -> Conn \cup {NoConn}]]
BY DEF SocketTypeOK, SetConn

LEMMA QueueType ==
  ASSUME SocketTypeOK, NEW self \in Peers, NEW frames \in Seq(Frame), Queue(self, frames)
  PROVE  out_frames' \in [Peers -> Seq(Frame)]
<1>1. out_frames[self] \in Seq(Frame)
  BY DEF SocketTypeOK
<1>2. out_frames[self] \o frames \in Seq(Frame)
  BY <1>1, ConcatProperties
<1>3. QED BY <1>2 DEF SocketTypeOK, Queue

LEMMA StreamStepType ==
  ASSUME SocketTypeOK, NEW self \in Peers, NEW remote \in Peers, NEW st,
         StreamStep(self, remote, st)
  PROVE  /\ conns' \in [Peers -> [Peers -> Conn \cup {NoConn}]]
         /\ out_frames' \in [Peers -> Seq(Frame)]
<1> DEFINE SF == StreamFrame(self, remote, conns[self][remote])
<1>1. PICK c1 \in Conn, frames \in Seq(SF) : SetConn(self, remote, c1) /\ Queue(self, frames)
  BY DEF StreamStep
<1>2. SF \subseteq Frame
  BY DEF StreamFrame
<1>3. frames \in Seq(Frame)
  BY <1>2, SeqMonotonic
<1>4. QED BY <1>1, <1>3, SetConnType, QueueType

LEMMA OpenInitiatorType ==
  ASSUME SocketTypeOK, NEW self \in Peers, NEW payload \in Payload
  PROVE  LET c == [open_initiator(self) EXCEPT !.pending = <<payload>>]
         IN  /\ open_initiator(self) \in Conn /\ c \in Conn /\ c.state = "syn_sent"
             /\ c.conn_id_recv = next_conn_id[self]
<1>1. next_conn_id[self] \in Uint16 /\ Plus(next_conn_id[self], 1) \in Uint16
  <2>1. next_conn_id[self] \in Uint16
    BY DEF SocketTypeOK
  <2>2. next_conn_id[self] \in Int /\ 1 \in Int
    BY <2>1, SeqModAssumption DEF Uint16
  <2>3. QED BY <2>1, <2>2, PlusType
<1>2. <<payload>> \in Seq(Payload)
  OBVIOUS
<1>3. 0 \in Uint16 /\ 2 \in Uint16
  BY SeqModAssumption DEF Uint16
<1>4. open_initiator(self) \in Conn
  BY <1>1, <1>3 DEF open_initiator, Conn, ConnState
<1>5. QED BY <1>2, <1>4 DEF open_initiator, Conn

\* The entry accept_syn makes for a SYN f.
SynRecvConn(f) ==
  [state |-> "syn_recv",
   conn_id_send |-> f.connection_id, conn_id_recv |-> Plus(f.connection_id, 1),
   seq_nr |-> AcceptorSeq0, ack_nr |-> f.seq_nr,
   pending |-> <<>>, inflight |-> <<>>, ooo |-> {}, last_ack_seen |-> 0, dup_acks |-> 0]

LEMMA SynRecvConnType ==
  ASSUME NEW f \in Frame
  PROVE  SynRecvConn(f) \in Conn
<1>1. f.connection_id \in Uint16 /\ f.seq_nr \in Uint16 /\ 0 \in Uint16
  BY SeqModAssumption DEF Frame, Uint16
<1>2. Plus(f.connection_id, 1) \in Uint16
  <2>1. f.connection_id \in Int /\ 1 \in Int
    BY <1>1, SeqModAssumption DEF Uint16
  <2>2. QED BY <2>1, PlusType
<1>3. QED BY <1>1, <1>2, AcceptorAssumption DEF SynRecvConn, Conn, ConnState, Uint16

LEMMA AppSendType ==
  ASSUME SocketTypeOK, NEW self \in Peers, NEW dst \in Peers, NEW payload \in Payload,
         handle_app_send(self, dst, payload)
  PROVE  SocketTypeOK'
<1>1. CASE AppSendOpens(self, dst, payload)
  <2>1. SynFrame(self, dst, open_initiator(self)) \in Frame
    BY OpenInitiatorType, SynFrameType
  <2>2. <<SynFrame(self, dst, open_initiator(self))>> \in Seq(Frame)
    BY <2>1
  <2>3. out_frames' \in [Peers -> Seq(Frame)]
    BY <1>1, <2>2, QueueType DEF AppSendOpens
  <2>4. conns' \in [Peers -> [Peers -> Conn \cup {NoConn}]]
    BY <1>1, OpenInitiatorType, SetConnType DEF AppSendOpens
  <2>5. next_conn_id' \in [Peers -> Uint16]
    <3>1. next_conn_id[self] \in Int /\ 1 \in Int
      BY SeqModAssumption DEF SocketTypeOK, Uint16
    <3>2. Plus(next_conn_id[self], 1) \in Uint16
      BY <3>1, PlusType
    <3>3. QED BY <1>1, <3>2 DEF AppSendOpens, SocketTypeOK
  <2>6. QED BY <1>1, <2>3, <2>4, <2>5 DEF AppSendOpens, SocketTypeOK
<1>2. CASE AppSendWaits(self, dst, payload)
  <2>1. [conns[self][dst] EXCEPT !.pending = Append(@, payload)] \in Conn
    BY <1>2, ConnType, AppendPendingType DEF AppSendWaits, HasLiveConn
  <2>2. conns' \in [Peers -> [Peers -> Conn \cup {NoConn}]]
    BY <1>2, <2>1, SetConnType DEF AppSendWaits
  <2>3. QED BY <1>2, <2>2 DEF AppSendWaits, SocketTypeOK
<1>3. CASE AppSendConnected(self, dst, payload)
  <2>1. /\ conns' \in [Peers -> [Peers -> Conn \cup {NoConn}]]
        /\ out_frames' \in [Peers -> Seq(Frame)]
    BY <1>3, AppSendConnectedStep, StreamStepType
  <2>2. QED BY <1>3, <2>1 DEF AppSendConnected, SocketTypeOK
<1>4. QED BY <1>1, <1>2, <1>3 DEF handle_app_send

LEMMA AnswerType ==
  ASSUME SocketTypeOK, NEW f \in Frame, NEW c \in Conn,
         \/ Queue(f.dst, <<header_for(f.dst, f.src, c, "st_state")>>)
         \/ Queue(f.dst, <<ResetFrame(f.dst, f)>>)
  PROVE  out_frames' \in [Peers -> Seq(Frame)]
<1>1. f.src \in Peers /\ f.dst \in Peers
  BY DEF Frame
<1>2. header_for(f.dst, f.src, c, "st_state") \in Frame
  BY <1>1, HeaderType DEF StreamFrame
<1>3. ResetFrame(f.dst, f) \in Frame
  BY <1>1, ResetFrameType
<1>4. /\ <<header_for(f.dst, f.src, c, "st_state")>> \in Seq(Frame)
      /\ <<ResetFrame(f.dst, f)>> \in Seq(Frame)
  BY <1>2, <1>3
<1>5. QED BY <1>1, <1>4, QueueType

LEMMA FrameStepType ==
  ASSUME SocketTypeOK, NEW f \in Frame, handle_frame(f.dst, f)
  PROVE  SocketTypeOK'
<1>0. f.src \in Peers /\ f.dst \in Peers
  BY DEF Frame
<1>1. CASE AcceptNewSyn(f.dst, f)
  <2>1. SetConn(f.dst, f.src, SynRecvConn(f))
        /\ Queue(f.dst, <<header_for(f.dst, f.src, SynRecvConn(f), "st_state")>>)
    BY <1>1 DEF AcceptNewSyn, SynRecvConn
  <2>2. out_frames' \in [Peers -> Seq(Frame)]
    BY <2>1, SynRecvConnType, AnswerType
  <2>3. conns' \in [Peers -> [Peers -> Conn \cup {NoConn}]]
    BY <1>0, <2>1, SynRecvConnType, SetConnType
  <2>4. QED BY <1>1, <2>2, <2>3 DEF AcceptNewSyn, SocketTypeOK
<1>2. CASE AcceptSynAgain(f.dst, f)
  <2>1. conns[f.dst][f.src] \in Conn
    BY <1>0, <1>2, ConnType DEF AcceptSynAgain, IsRetransmitOfCurrent, HasLiveConn
  <2>2. Queue(f.dst, <<header_for(f.dst, f.src, conns[f.dst][f.src], "st_state")>>)
    BY <1>2 DEF AcceptSynAgain
  <2>3. out_frames' \in [Peers -> Seq(Frame)]
    BY <2>1, <2>2, AnswerType
  <2>4. QED BY <1>2, <2>3 DEF AcceptSynAgain, SocketTypeOK
<1>3. CASE RejectForeign(f.dst, f)
  <2>1. out_frames' \in [Peers -> Seq(Frame)]
    BY <1>3, SynRecvConnType, AnswerType DEF RejectForeign
  <2>2. QED BY <1>3, <2>1 DEF RejectForeign, SocketTypeOK
<1>4. CASE IgnoreForeignReset(f.dst, f)
  BY <1>4 DEF IgnoreForeignReset, SocketTypeOK, socketVars
<1>5. CASE ReceiveSynAck(f.dst, f)
  <2>1. /\ conns' \in [Peers -> [Peers -> Conn \cup {NoConn}]]
        /\ out_frames' \in [Peers -> Seq(Frame)]
    BY <1>0, <1>5, ReceiveSynAckStep, StreamStepType
  <2>2. QED BY <1>5, <2>1 DEF ReceiveSynAck, SocketTypeOK
<1>6. CASE ReceiveState(f.dst, f)
  <2>1. /\ conns' \in [Peers -> [Peers -> Conn \cup {NoConn}]]
        /\ out_frames' \in [Peers -> Seq(Frame)]
    BY <1>0, <1>6, ReceiveStateStep, StreamStepType
  <2>2. QED BY <1>6, <2>1 DEF ReceiveState, SocketTypeOK
<1>7. CASE ReceiveData(f.dst, f)
  <2>1. out_delivers' \in [Peers -> Seq(Deliver)]
    BY <1>7, ReceiveDataStep
  <2>2. /\ conns' \in [Peers -> [Peers -> Conn \cup {NoConn}]]
        /\ out_frames' \in [Peers -> Seq(Frame)]
    BY <1>0, <1>7, ReceiveDataStep, StreamStepType
  <2>3. QED BY <1>7, <2>1, <2>2 DEF ReceiveData, SocketTypeOK
<1>8. CASE ReceiveReset(f.dst, f)
  <2> DEFINE c == conns[f.dst][f.src]
  <2>1. c \in Conn
    BY <1>0, <1>8, ConnType DEF ReceiveReset, Matching
  <2>2. [c EXCEPT !.state = "closed", !.inflight = <<>>, !.pending = <<>>] \in Conn
    <3>1. <<>> \in Seq(InflightPkt) /\ <<>> \in Seq(Payload)
      OBVIOUS
    <3>2. QED BY <2>1, <3>1 DEF Conn, ConnState
  <2>3. conns' \in [Peers -> [Peers -> Conn \cup {NoConn}]]
    BY <1>0, <1>8, <2>2, SetConnType DEF ReceiveReset
  <2>4. QED BY <1>8, <2>3 DEF ReceiveReset, SocketTypeOK
<1>9. QED
  BY <1>1, <1>2, <1>3, <1>4, <1>5, <1>6, <1>7, <1>8 DEF handle_frame

LEMMA PopFrontType ==
  ASSUME NEW S, NEW q \in Seq(S)
  PROVE  PopFront(q) \in Seq(S)
BY HeadTailProperties DEF PopFront

LEMMA EmitFrontType ==
  ASSUME SocketTypeOK, NEW self \in Peers, EmitFront(self)
  PROVE  SocketTypeOK'
<1>1. PopFront(out_frames[self]) \in Seq(Frame) /\ PopFront(out_delivers[self]) \in Seq(Deliver)
  BY PopFrontType DEF SocketTypeOK
<1>2. QED BY <1>1 DEF EmitFront, SocketTypeOK

LEMMA TimeoutFrameType ==
  ASSUME SocketTypeOK, NEW self \in Peers, NEW remote \in Peers, timer_armed(self, remote)
  PROVE  LET c == conns[self][remote]
         IN  /\ TimeoutFrame(self, remote) \in Frame
             /\ \/ c.state = "syn_sent" /\ TimeoutFrame(self, remote) = SynFrame(self, remote, c)
                \/ /\ c.state # "syn_sent"
                   /\ TimeoutFrame(self, remote) \in StreamFrame(self, remote, c)
<1> DEFINE c == conns[self][remote]
<1>1. c \in Conn
  BY ConnType DEF timer_armed
<1>2. CASE c.state = "syn_sent"
  BY <1>1, <1>2, SynFrameType DEF TimeoutFrame
<1>3. CASE c.state # "syn_sent"
  <2>1. c.inflight \in Seq(InflightPkt) /\ c.inflight # <<>>
    BY <1>1, <1>3 DEF Conn, timer_armed
  <2>2. Head(c.inflight) \in InflightPkt
    BY <2>1, HeadTailProperties
  <2>3. DataFrame(self, remote, c, Head(c.inflight)) \in StreamFrame(self, remote, c)
    BY <1>1, <2>2, DataFrameType
  <2>4. QED BY <1>3, <2>3 DEF TimeoutFrame, StreamFrame
<1>4. QED BY <1>2, <1>3

\* An expiry queues one frame per connection that is due.
LEMMA TimerExpiryStep ==
  ASSUME SocketTypeOK, NEW self \in Peers, NEW due \in SUBSET Peers, TimerExpiry(self, due)
  PROVE  \E frames \in Seq({TimeoutFrame(self, r) : r \in due}) : Queue(self, frames)
<1>1. PICK order \in [1 .. Cardinality(due) -> due] :
        Queue(self, [i \in 1 .. Cardinality(due) |-> TimeoutFrame(self, order[i])])
  BY DEF TimerExpiry
<1>2. Cardinality(due) \in Nat
  BY PeersAssumption, FS_Subset, FS_CardinalityType
<1>3. \A i \in 1 .. Cardinality(due) :
        TimeoutFrame(self, order[i]) \in {TimeoutFrame(self, r) : r \in due}
  OBVIOUS
<1>4. [i \in 1 .. Cardinality(due) |-> TimeoutFrame(self, order[i])]
        \in Seq({TimeoutFrame(self, r) : r \in due})
  BY <1>2, <1>3, IsASeq
<1>5. QED BY <1>1, <1>4

LEMMA TimerExpiryType ==
  ASSUME SocketTypeOK, NEW self \in Peers, NEW due \in SUBSET Peers, TimerExpiry(self, due)
  PROVE  SocketTypeOK'
<1>1. {TimeoutFrame(self, r) : r \in due} \subseteq Frame
  BY TimeoutFrameType DEF TimerExpiry
<1>2. PICK frames \in Seq({TimeoutFrame(self, r) : r \in due}) : Queue(self, frames)
  BY TimerExpiryStep
<1>3. frames \in Seq(Frame)
  BY <1>1, SeqMonotonic
<1>4. QED BY <1>2, <1>3, QueueType DEF TimerExpiry, SocketTypeOK

LEMMA SocketInitType ==
  ASSUME SocketInit
  PROVE  SocketTypeOK
<1>1. <<>> \in Seq(Frame) /\ <<>> \in Seq(Deliver) /\ 1 \in Uint16
  BY SeqModAssumption DEF Uint16
<1>2. QED BY <1>1 DEF SocketInit, SocketTypeOK

-----------------------------------------------------------------------------
(* Sums of 16-bit numbers *)

LEMMA ModUnique ==
  ASSUME NEW a \in Int, NEW q \in Int, NEW r \in Uint16, a = SeqMod * q + r
  PROVE  a % SeqMod = r
<1>1. SeqMod \in Nat \ {0} /\ r \in 0 .. SeqMod - 1
  BY SeqModAssumption DEF Uint16
<1>2. QED BY <1>1, RemainderIs

LEMMA ModParts ==
  ASSUME NEW a \in Int
  PROVE  /\ a % SeqMod \in Uint16
         /\ \E q \in Int : a = SeqMod * q + (a % SeqMod)
<1>1. SeqMod \in Nat /\ SeqMod > 0
  BY SeqModAssumption
<1>2. a \div SeqMod \in Int /\ a = SeqMod * (a \div SeqMod) + (a % SeqMod)
      /\ a % SeqMod \in 0 .. SeqMod - 1
  BY <1>1
<1>3. QED BY <1>2 DEF Uint16

\* Adding offsets one after the other is adding their sum.
LEMMA PlusPlus ==
  ASSUME NEW a \in Int, NEW j \in Int, NEW k \in Int
  PROVE  Plus(Plus(a, j), k) = Plus(a, j + k)
<1>1. SeqMod \in Int
  BY SeqModAssumption
<1>2. PICK q1 \in Int : a + j = SeqMod * q1 + ((a + j) % SeqMod)
  BY ModParts
<1> DEFINE b == (a + j) % SeqMod
<1>3. b \in Int
  BY ModParts, SeqModAssumption DEF Uint16
<1>4. PICK q2 \in Int : b + k = SeqMod * q2 + ((b + k) % SeqMod)
  BY <1>3, ModParts
<1> DEFINE r == (b + k) % SeqMod
<1>5. r \in Uint16
  BY <1>3, ModParts
<1>6. a + j = SeqMod * q1 + b /\ b + k = SeqMod * q2 + r
  BY <1>2, <1>4
<1> HIDE DEF b, r
<1>7. SeqMod * (q1 + q2) = SeqMod * q1 + SeqMod * q2
  BY <1>1
<1>8. a + (j + k) = SeqMod * (q1 + q2) + r
  BY <1>1, <1>3, <1>5, <1>6, <1>7, SeqModAssumption DEF Uint16
<1>9. (a + (j + k)) % SeqMod = r
  BY <1>5, <1>8, ModUnique
<1>10. QED BY <1>9 DEF Plus, r, b

LEMMA PlusNothing ==
  ASSUME NEW a \in Uint16
  PROVE  Plus(a, 0) = a
<1>1. a \in Int /\ a + 0 = a
  BY SeqModAssumption DEF Uint16
<1>2. a = SeqMod * 0 + a
  BY <1>1, SeqModAssumption
<1>3. a % SeqMod = a
  BY <1>1, <1>2, ModUnique
<1>4. Plus(a, 0) = (a + 0) % SeqMod
  BY DEF Plus
<1>5. QED BY <1>1, <1>3, <1>4

\* The remainder of the difference of two sums is that of the offsets'.
LEMMA DiffMod ==
  ASSUME NEW a \in Int, NEW j \in Int, NEW k \in Int, NEW r \in Uint16, NEW q \in Int,
         j - k = SeqMod * q + r
  PROVE  (Plus(a, j) - Plus(a, k)) % SeqMod = r
<1>1. SeqMod \in Int
  BY SeqModAssumption
<1>2. PICK q1 \in Int : a + j = SeqMod * q1 + ((a + j) % SeqMod)
  BY ModParts
<1>3. PICK q2 \in Int : a + k = SeqMod * q2 + ((a + k) % SeqMod)
  BY ModParts
<1> DEFINE b == (a + j) % SeqMod
           c == (a + k) % SeqMod
<1>4. b \in Int /\ c \in Int /\ r \in Int
  BY ModParts, SeqModAssumption DEF Uint16
<1>5. a + j = SeqMod * q1 + b /\ a + k = SeqMod * q2 + c
  BY <1>2, <1>3
<1> HIDE DEF b, c
<1>6. SeqMod * (q + (q2 - q1)) = SeqMod * q + (SeqMod * q2 - SeqMod * q1)
  BY <1>1
<1>7. b - c = SeqMod * (q + (q2 - q1)) + r
  BY <1>1, <1>4, <1>5, <1>6
<1>8. (b - c) % SeqMod = r
  BY <1>4, <1>7, ModUnique
<1>9. QED BY <1>8 DEF Plus, b, c

\* seq_diff of two numbers less than half the range apart is their distance.
LEMMA DiffNear ==
  ASSUME NEW a \in Int, NEW j \in Int, NEW k \in Int,
         2 * (j - k) < SeqMod, 2 * (k - j) < SeqMod
  PROVE  seq_diff(Plus(a, j), Plus(a, k)) = j - k
<1>1. SeqMod \in Nat /\ SeqMod > 3
  BY SeqModAssumption
<1> DEFINE d == (Plus(a, j) - Plus(a, k)) % SeqMod
<1>2. CASE j >= k
  <2>1. j - k \in Uint16
    BY <1>1, <1>2 DEF Uint16
  <2>2. j - k = SeqMod * 0 + (j - k)
    BY <1>1
  <2>3. d = j - k
    BY <2>1, <2>2, DiffMod
  <2>4. QED BY <2>3, <1>1 DEF seq_diff
<1>3. CASE j < k
  <2>1. j - k + SeqMod \in Uint16
    BY <1>1, <1>3 DEF Uint16
  <2>2. j - k = SeqMod * (-1) + (j - k + SeqMod)
    BY <1>1
  <2>3. d = j - k + SeqMod
    BY <2>1, <2>2, DiffMod
  <2>4. ~(2 * d < SeqMod) /\ d - SeqMod = j - k
    BY <2>3, <1>1
  <2>5. QED BY <2>4 DEF seq_diff
<1>4. QED BY <1>2, <1>3

\* Sums with offsets less than the range apart are distinct.
LEMMA PlusInjective ==
  ASSUME NEW a \in Int, NEW j \in Int, NEW k \in Int,
         j - k < SeqMod, k - j < SeqMod, Plus(a, j) = Plus(a, k)
  PROVE  j = k
<1>1. SeqMod \in Nat /\ SeqMod > 3
  BY SeqModAssumption
<1>2. Plus(a, j) \in Int /\ Plus(a, k) \in Int
  BY <1>1 DEF Plus
<1>3. (Plus(a, j) - Plus(a, k)) % SeqMod = 0
  <2>1. Plus(a, j) - Plus(a, k) = SeqMod * 0 + 0
    BY <1>1, <1>2
  <2>2. 0 \in Uint16
    BY <1>1 DEF Uint16
  <2>3. QED BY <1>2, <2>1, <2>2, ModUnique
<1>4. CASE j >= k
  <2>1. j - k \in Uint16 /\ j - k = SeqMod * 0 + (j - k)
    BY <1>1, <1>4 DEF Uint16
  <2>2. QED BY <1>3, <2>1, DiffMod
<1>5. CASE j < k
  <2>1. j - k + SeqMod \in Uint16 /\ j - k = SeqMod * (-1) + (j - k + SeqMod)
    BY <1>1, <1>5 DEF Uint16
  <2>2. j - k + SeqMod = 0
    BY <1>3, <2>1, DiffMod
  <2>3. QED BY <2>2, <1>1, <1>5
<1>6. QED BY <1>4, <1>5

-----------------------------------------------------------------------------
(* The numbers of a stream *)

\* The number of the n-th packet of a stream whose first packet has number b,
\* and the packet a number belongs to.
SeqOf(b, n)   == Plus(b, n - 1)
IndexOf(b, a) == Plus(a, 1 - b)

LEMMA SeqOfType ==
  ASSUME NEW b \in Uint16, NEW n \in Int
  PROVE  SeqOf(b, n) \in Uint16
<1>1. b \in Int /\ n - 1 \in Int
  BY SeqModAssumption DEF Uint16
<1>2. QED BY <1>1, PlusType DEF SeqOf

LEMMA SeqOfNext ==
  ASSUME NEW b \in Uint16, NEW n \in Int, NEW k \in Int
  PROVE  Plus(SeqOf(b, n), k) = SeqOf(b, n + k)
<1>1. b \in Int /\ n - 1 \in Int /\ (n - 1) + k = (n + k) - 1
  BY SeqModAssumption DEF Uint16
<1>2. Plus(Plus(b, n - 1), k) = Plus(b, (n - 1) + k)
  BY <1>1, PlusPlus
<1>3. QED BY <1>1, <1>2 DEF SeqOf

LEMMA SeqOfDistance ==
  ASSUME NEW b \in Uint16, NEW m \in Int, NEW n \in Int,
         2 * (m - n) < SeqMod, 2 * (n - m) < SeqMod
  PROVE  seq_diff(SeqOf(b, m), SeqOf(b, n)) = m - n
<1> DEFINE j == m - 1
           k == n - 1
<1>1. b \in Int /\ j \in Int /\ k \in Int /\ j - k = m - n /\ k - j = n - m
  BY SeqModAssumption DEF Uint16
<1> HIDE DEF j, k
<1>2. 2 * (j - k) < SeqMod /\ 2 * (k - j) < SeqMod
  BY <1>1
<1>3. seq_diff(Plus(b, j), Plus(b, k)) = j - k
  BY <1>1, <1>2, DiffNear
<1>4. QED BY <1>1, <1>3 DEF SeqOf, j, k

LEMMA SeqOfInjective ==
  ASSUME NEW b \in Uint16, NEW m \in Int, NEW n \in Int,
         m - n < SeqMod, n - m < SeqMod, SeqOf(b, m) = SeqOf(b, n)
  PROVE  m = n
<1> DEFINE j == m - 1
           k == n - 1
<1>1. b \in Int /\ j \in Int /\ k \in Int /\ j - k = m - n /\ k - j = n - m
  BY SeqModAssumption DEF Uint16
<1>2. Plus(b, j) = Plus(b, k)
  BY DEF SeqOf
<1> HIDE DEF j, k
<1>3. j - k < SeqMod /\ k - j < SeqMod
  BY <1>1
<1>4. j = k
  BY <1>1, <1>2, <1>3, PlusInjective
<1>5. QED BY <1>4 DEF j, k

LEMMA IndexOfType ==
  ASSUME NEW b \in Uint16, NEW a \in Uint16
  PROVE  IndexOf(b, a) \in Uint16 /\ IndexOf(b, a) \in Nat
<1>1. a \in Int /\ 1 - b \in Int
  BY SeqModAssumption DEF Uint16
<1>2. IndexOf(b, a) \in Uint16
  BY <1>1, PlusType DEF IndexOf
<1>3. QED BY <1>2, SeqModAssumption DEF Uint16

LEMMA SeqOfIndex ==
  ASSUME NEW b \in Uint16, NEW a \in Uint16
  PROVE  SeqOf(b, IndexOf(b, a)) = a
<1> DEFINE x == Plus(a, 1 - b)
<1>1. a \in Int /\ b \in Int /\ 1 - b \in Int /\ b - 1 \in Int
  BY SeqModAssumption DEF Uint16
<1>2. x \in Int
  BY <1>1, PlusType, SeqModAssumption DEF Uint16
<1>3. Plus(x, b - 1) = Plus(a, (1 - b) + (b - 1))
  BY <1>1, PlusPlus
<1>4. (1 - b) + (b - 1) = 0
  BY <1>1
<1>5. Plus(x, b - 1) = a
  BY <1>3, <1>4, PlusNothing
<1> HIDE DEF x
<1>6. x + (b - 1) = b + (x - 1)
  BY <1>1, <1>2
<1>7. Plus(x, b - 1) = Plus(b, x - 1)
  BY <1>6 DEF Plus
<1>8. QED BY <1>5, <1>7 DEF SeqOf, IndexOf, x

LEMMA IndexOfSeq ==
  ASSUME NEW b \in Uint16, NEW n \in Int, 0 <= n, n < SeqMod
  PROVE  IndexOf(b, SeqOf(b, n)) = n
<1> DEFINE i == IndexOf(b, SeqOf(b, n))
<1>1. i \in Uint16 /\ SeqOf(b, i) = SeqOf(b, n)
  BY SeqOfType, IndexOfType, SeqOfIndex
<1> HIDE DEF i
<1>2. i \in Int /\ i - n < SeqMod /\ n - i < SeqMod
  BY <1>1, SeqModAssumption DEF Uint16
<1>3. i = n
  BY <1>1, <1>2, SeqOfInjective
<1>4. QED BY <1>3 DEF i

-----------------------------------------------------------------------------
(* Sets of indices *)

LEMMA IndexSet ==
  ASSUME NEW L \in Nat, NEW S \in SUBSET (1 .. L)
  PROVE  S \subseteq Nat /\ IsFiniteSet(S) /\ Cardinality(S) \in Nat
<1>1. IsFiniteSet(1 .. L)
  BY FS_Interval
<1>2. IsFiniteSet(S) /\ Cardinality(S) \in Nat
  BY <1>1, FS_Subset, FS_CardinalityType
<1>3. \A i \in 1 .. L : i \in Nat
  OBVIOUS
<1>4. QED BY <1>2, <1>3

\* A subsequence picks one index per place, in order, and misses none.
Picks(s, I, f) ==
  /\ f \in [1 .. Cardinality(I) -> I]
  /\ \A k \in 1 .. Cardinality(I) : Subsequence(s, I)[k] = s[f[k]]
  /\ \A k, l \in 1 .. Cardinality(I) : k < l => f[k] < f[l]
  /\ \A j \in I : \E k \in 1 .. Cardinality(I) : f[k] = j

LEMMA SubsequencePicks ==
  ASSUME NEW s, NEW I, I \subseteq Nat, IsFiniteSet(I)
  PROVE  \E f : Picks(s, I, f)
<1> DEFINE f == Listing(I)
<1>1. /\ f \in [1 .. Cardinality(I) -> I]
      /\ \A k, l \in 1 .. Cardinality(I) : k < l => f[k] < f[l]
      /\ \A j \in I : \E k \in 1 .. Cardinality(I) : f[k] = j
  BY ListingIs
<1>2. \A k \in 1 .. Cardinality(I) : Subsequence(s, I)[k] = s[f[k]]
  BY DEF Subsequence, Listing
<1> HIDE DEF f
<1>3. Picks(s, I, f)
  BY <1>1, <1>2 DEF Picks
<1>4. QED BY <1>3

-----------------------------------------------------------------------------
(* What the sending half of a connection keeps: b is the number of the first *)
(* packet of its stream and total the number of payloads given to app_send.  *)

Contains(q, n) == \E i \in 1 .. Len(q) : q[i].completing = n

\* The n-th payload of the stream has the n-th number, and the deque is in
\* order, with payloads up to the k-th.
InOrder(b, q, k) ==
  /\ \A i \in 1 .. Len(q) : /\ q[i].completing \in 1 .. k
                            /\ q[i].seq = SeqOf(b, q[i].completing)
  /\ \A i, j \in 1 .. Len(q) : i < j => q[i].completing < q[j].completing

\* How many payloads have been given a number.
Numbered(c, total) == total - Len(c.pending)

Numbering(b, c, total) ==
  /\ Len(c.pending) <= total
  /\ c.seq_nr = SeqOf(b, Numbered(c, total) + 1)
  /\ \A i \in 1 .. Len(c.pending) : c.pending[i] = Numbered(c, total) + i
  /\ InOrder(b, c.inflight, Numbered(c, total))

\* The data frames of the stream, up to the k-th payload.
DataUpTo(self, dst, c, b, k) ==
  {f \in StreamFrame(self, dst, c) :
     /\ f.type = "st_data" /\ f.ack_nr = c.ack_nr /\ f.sack = {}
     /\ f.completing \in 1 .. k /\ f.seq_nr = SeqOf(b, f.completing)}

\* What a sending step may do: the receiving half stays, the numbers go on,
\* and a payload leaves the deque only when it is in K, the payloads the
\* receiver holds.
SendStep(self, dst, c, o, b, total, K) ==
  /\ Keeps(self, dst, c, o)
  /\ o.conn.ack_nr = c.ack_nr /\ o.conn.ooo = c.ooo
  /\ Numbering(b, o.conn, total)
  /\ Len(o.conn.pending) <= Len(c.pending)
  /\ \A n \in 1 .. Numbered(o.conn, total) :
       \/ Contains(o.conn.inflight, n) \/ n \in K
       \/ n \in 1 .. Numbered(c, total) /\ ~Contains(c.inflight, n)
  /\ o.frames \in Seq(DataUpTo(self, dst, c, b, Numbered(o.conn, total)))

LEMMA GenuineFrame ==
  ASSUME NEW self \in Peers, NEW dst \in Peers, NEW c \in Conn, NEW p \in InflightPkt,
         NEW b, NEW k, p.completing \in 1 .. k, p.seq = SeqOf(b, p.completing)
  PROVE  DataFrame(self, dst, c, p) \in DataUpTo(self, dst, c, b, k)
<1>1. DataFrame(self, dst, c, p) \in StreamFrame(self, dst, c)
  BY DataFrameType
<1>2. QED BY <1>1 DEF DataUpTo, DataFrame, header_for

\* packetize gives the next numbers to the payloads at the front of pending.
LEMMA PacketizeSends ==
  ASSUME NEW self \in Peers, NEW dst \in Peers, NEW c \in Conn, NEW b \in Uint16,
         NEW total \in Nat, NEW K, Numbering(b, c, total), NEW o \in packetize(self, dst, c)
  PROVE  SendStep(self, dst, c, o, b, total, K)
<1> DEFINE Sent(n) == [i \in 1 .. n |-> [seq |-> Plus(c.seq_nr, i - 1),
                                         completing |-> c.pending[i], sacked_past |-> 0]]
           L == Len(c.pending)
           M == Len(c.inflight)
           k == total - L
<1>1. PICK n \in SendCounts(c) :
        o = [conn   |-> [c EXCEPT !.inflight = c.inflight \o Sent(n),
                                  !.pending  = SubSeq(c.pending, n + 1, Len(c.pending)),
                                  !.seq_nr   = Plus(c.seq_nr, n)],
             frames |-> [i \in 1 .. n |-> DataFrame(self, dst, c, Sent(n)[i])]]
  BY DEF packetize
<1>2. /\ c.pending \in Seq(Payload) /\ c.inflight \in Seq(InflightPkt)
      /\ c.seq_nr \in Uint16
  BY DEF Conn
<1>3. L \in Nat /\ M \in Nat /\ n \in Nat /\ n <= L /\ L <= total /\ k \in Nat
  BY <1>2, LenProperties DEF SendCounts, Numbering
<1>30. /\ L = Len(c.pending) /\ M = Len(c.inflight) /\ k = total - L /\ Numbered(c, total) = k
      /\ c.seq_nr = SeqOf(b, k + 1) /\ InOrder(b, c.inflight, k)
      /\ \A i \in 1 .. L : c.pending[i] = k + i
  BY DEF Numbered, Numbering
<1> HIDE DEF L, M, k
<1>4. ASSUME NEW i \in 1 .. n
      PROVE  /\ Sent(n)[i] = [seq |-> SeqOf(b, k + i), completing |-> k + i, sacked_past |-> 0]
             /\ Sent(n)[i] \in InflightPkt
  <2>1. i \in 1 .. L /\ i \in Int /\ k + i \in Int /\ k + i >= 1
    BY <1>3
  <2>2. c.pending[i] = k + i
    BY <2>1, <1>30
  <2>3. Plus(SeqOf(b, k + 1), i - 1) = SeqOf(b, (k + 1) + (i - 1))
    BY <1>3, <2>1, SeqOfNext
  <2>4. (k + 1) + (i - 1) = k + i
    BY <1>3, <2>1
  <2>5. c.seq_nr = SeqOf(b, k + 1)
    BY <1>30
  <2>6. SeqOf(b, k + i) \in Uint16 /\ k + i \in Payload
    BY <2>1, SeqOfType DEF Payload, NoPayload
  <2>7. Sent(n)[i] = [seq |-> Plus(c.seq_nr, i - 1), completing |-> c.pending[i], sacked_past |-> 0]
    OBVIOUS
  <2> HIDE DEF Sent
  <2>8. Sent(n)[i] = [seq |-> SeqOf(b, k + i), completing |-> k + i, sacked_past |-> 0]
    BY <2>2, <2>3, <2>4, <2>5, <2>7
  <2>9. QED BY <2>6, <2>8 DEF InflightPkt
<1> DEFINE S == Sent(n)
<1>5. S \in Seq(InflightPkt) /\ Len(S) = n
  <2>1. S \in [1 .. n -> InflightPkt]
    BY <1>4
  <2>2. S \in Seq(InflightPkt)
    BY <2>1, <1>3, IsASeq
  <2>3. QED BY <1>3, <2>2, LenProperties
<1>6. \A i \in 1 .. n : /\ S[i].seq = SeqOf(b, k + i) /\ S[i].completing = k + i
                        /\ S[i] \in InflightPkt
  <2>1. SUFFICES ASSUME NEW i \in 1 .. n
                 PROVE  S[i].seq = SeqOf(b, k + i) /\ S[i].completing = k + i /\ S[i] \in InflightPkt
    OBVIOUS
  <2>2. /\ S[i] = [seq |-> SeqOf(b, k + i), completing |-> k + i, sacked_past |-> 0]
        /\ S[i] \in InflightPkt
    BY <1>4
  <2> HIDE DEF S
  <2>3. QED BY <2>2
<1> DEFINE q == c.inflight \o S
           r == SubSeq(c.pending, n + 1, L)
           c1 == [c EXCEPT !.inflight = q, !.pending = r, !.seq_nr = Plus(c.seq_nr, n)]
           fr == [i \in 1 .. n |-> DataFrame(self, dst, c, S[i])]
<1>7. o = [conn |-> c1, frames |-> fr]
  BY <1>1, <1>30
<1>8. Keeps(self, dst, c, o)
  BY PacketizeKeeps
<1>9. Len(q) = M + n /\ \A i \in 1 .. M + n : q[i] = IF i <= M THEN c.inflight[i] ELSE S[i - M]
  <2> HIDE DEF S
  <2>1. QED BY <1>2, <1>5, <1>30, ConcatProperties
<1>10. Len(r) = L - n /\ \A i \in 1 .. L - n : r[i] = c.pending[n + i]
  <2>1. \A i \in n + 1 .. L : c.pending[i] \in Payload
    BY <1>2, <1>3, <1>30, ElementOfSeq
  <2>2. n + 1 \in Int /\ L \in Int /\ L - (n + 1) + 1 = L - n
    BY <1>3
  <2>3. Len(r) = IF n + 1 <= L THEN L - (n + 1) + 1 ELSE 0
    BY <2>1, <2>2, SubSeqProperties
  <2>4. \A i \in 1 .. L - (n + 1) + 1 : r[i] = c.pending[n + 1 + i - 1]
    BY <2>1, <2>2, SubSeqProperties
  <2>5. Len(r) = L - n
    BY <1>3, <2>2, <2>3
  <2>6. ASSUME NEW i \in 1 .. L - n PROVE r[i] = c.pending[n + i]
    <3>1. n + 1 + i - 1 = n + i
      BY <1>3
    <3>2. QED BY <2>2, <2>4, <3>1
  <2>7. QED BY <2>5, <2>6
<1> HIDE DEF S, Sent
<1>11. /\ c1.inflight = q /\ c1.pending = r /\ c1.seq_nr = Plus(c.seq_nr, n)
       /\ c1.ack_nr = c.ack_nr /\ c1.ooo = c.ooo
  BY DEF Conn
<1> HIDE DEF c1, q, r
<1>12. Numbered(c1, total) = k + n /\ Len(c1.pending) <= total /\ Len(c1.pending) <= Len(c.pending)
  <2>1. Len(c1.pending) = L - n
    BY <1>10, <1>11
  <2>2. Numbered(c1, total) = total - (L - n)
    BY <2>1 DEF Numbered
  <2>3. k = total - L /\ L = Len(c.pending)
    BY <1>30
  <2>4. total - (L - n) = k + n /\ L - n <= total /\ L - n <= L
    BY <1>3, <2>3
  <2>5. QED BY <2>1, <2>2, <2>3, <2>4
<1>13. c1.seq_nr = SeqOf(b, k + n + 1)
  <2>1. c.seq_nr = SeqOf(b, k + 1)
    BY <1>30
  <2>2. Plus(SeqOf(b, k + 1), n) = SeqOf(b, (k + 1) + n)
    BY <1>3, SeqOfNext
  <2>3. (k + 1) + n = k + n + 1
    BY <1>3
  <2>4. QED BY <1>11, <2>1, <2>2, <2>3
<1>14. \A i \in 1 .. Len(c1.pending) : c1.pending[i] = (k + n) + i
  <2>1. SUFFICES ASSUME NEW i \in 1 .. L - n PROVE r[i] = (k + n) + i
    BY <1>10, <1>11
  <2>2. n + i \in 1 .. L /\ k + (n + i) = (k + n) + i
    BY <1>3
  <2>3. c.pending[n + i] = k + (n + i)
    BY <2>2, <1>30
  <2>4. QED BY <1>10, <2>2, <2>3
<1>15. InOrder(b, c.inflight, k)
  BY <1>30
<1>16. ASSUME NEW i \in 1 .. M + n
       PROVE  \/ i \in 1 .. M /\ q[i] = c.inflight[i] /\ q[i].completing \in 1 .. k
              \/ i \in M + 1 .. M + n /\ q[i].completing = k + (i - M)
                 /\ q[i].seq = SeqOf(b, k + (i - M))
  <2>0. M = Len(c.inflight)
    BY <1>30
  <2>1. CASE i <= M
    <3>1. i \in 1 .. M /\ q[i] = c.inflight[i]
      BY <1>3, <1>9, <2>1
    <3>2. c.inflight[i].completing \in 1 .. k
      BY <1>15, <2>0, <3>1 DEF InOrder
    <3>3. QED BY <3>1, <3>2
  <2>2. CASE ~(i <= M)
    <3>1. i - M \in 1 .. n /\ i \in M + 1 .. M + n /\ q[i] = S[i - M]
      BY <1>3, <1>9, <2>2
    <3>2. S[i - M].seq = SeqOf(b, k + (i - M)) /\ S[i - M].completing = k + (i - M)
      BY <1>6, <3>1
    <3>3. QED BY <3>1, <3>2
  <2>3. QED BY <2>1, <2>2
<1>17. InOrder(b, q, k + n)
  <2>0. M = Len(c.inflight)
    BY <1>30
  <2>1. ASSUME NEW i \in 1 .. M + n
        PROVE  q[i].completing \in 1 .. k + n /\ q[i].seq = SeqOf(b, q[i].completing)
    <3>1. CASE i \in 1 .. M /\ q[i] = c.inflight[i] /\ q[i].completing \in 1 .. k
      BY <1>3, <1>15, <2>0, <3>1 DEF InOrder
    <3>2. CASE i \in M + 1 .. M + n /\ q[i].completing = k + (i - M) /\ q[i].seq = SeqOf(b, k + (i - M))
      BY <1>3, <3>2
    <3>3. QED BY <1>16, <3>1, <3>2
  <2>2. ASSUME NEW i \in 1 .. M + n, NEW j \in 1 .. M + n, i < j
        PROVE  q[i].completing < q[j].completing
    <3>1. CASE j \in 1 .. M /\ q[j] = c.inflight[j]
      <4>1. i \in 1 .. M /\ q[i] = c.inflight[i]
        BY <1>3, <1>9, <2>2, <3>1
      <4>2. QED BY <1>15, <2>0, <2>2, <3>1, <4>1 DEF InOrder
    <3>2. CASE j \in M + 1 .. M + n /\ q[j].completing = k + (j - M)
      <4>1. CASE i \in 1 .. M /\ q[i].completing \in 1 .. k
        BY <1>3, <3>2, <4>1
      <4>2. CASE q[i].completing = k + (i - M)
        BY <1>3, <2>2, <3>2, <4>2
      <4>3. QED BY <1>16, <4>1, <4>2
    <3>3. QED BY <1>16, <3>1, <3>2
  <2>3. QED BY <1>9, <2>1, <2>2 DEF InOrder
<1>18. Numbering(b, c1, total)
  BY <1>11, <1>12, <1>13, <1>14, <1>17 DEF Numbering
<1>19. ASSUME NEW x \in 1 .. k + n
       PROVE  Contains(q, x) \/ (x \in 1 .. k /\ ~Contains(c.inflight, x))
  <2>1. CASE x <= k
    <3>1. CASE Contains(c.inflight, x)
      <4>1. PICK i \in 1 .. M : c.inflight[i].completing = x
        BY <3>1, <1>30 DEF Contains
      <4>2. i \in 1 .. Len(q) /\ q[i] = c.inflight[i]
        BY <1>3, <1>9
      <4>3. QED BY <4>1, <4>2 DEF Contains
    <3>2. QED BY <1>3, <2>1, <3>1
  <2>2. CASE ~(x <= k)
    <3>1. M + (x - k) \in 1 .. M + n /\ M + (x - k) \in M + 1 .. M + n
      BY <1>3, <2>2
    <3>2. ~(M + (x - k) <= M) /\ (M + (x - k)) - M = x - k /\ x - k \in 1 .. n /\ k + (x - k) = x
      BY <1>3, <2>2
    <3>3. q[M + (x - k)] = S[x - k]
      BY <1>9, <3>1, <3>2
    <3>4. q[M + (x - k)].completing = x
      BY <1>6, <3>2, <3>3
    <3>5. QED BY <1>9, <3>1, <3>4 DEF Contains
  <2>3. QED BY <2>1, <2>2
<1>20. fr \in Seq(DataUpTo(self, dst, c, b, k + n))
  <2>1. ASSUME NEW i \in 1 .. n
        PROVE  DataFrame(self, dst, c, S[i]) \in DataUpTo(self, dst, c, b, k + n)
    <3>1. S[i] \in InflightPkt /\ S[i].completing = k + i /\ S[i].seq = SeqOf(b, k + i)
      BY <1>6
    <3>2. k + i \in 1 .. k + n
      BY <1>3
    <3>3. QED BY <3>1, <3>2, GenuineFrame
  <2>2. QED BY <1>3, <2>1, IsASeq
<1> HIDE DEF fr
<1>21. o.conn = c1 /\ o.frames = fr
  BY <1>7
<1> DEFINE D(m) == DataUpTo(self, dst, c, b, m)
<1>22. /\ \A x \in 1 .. Numbered(c1, total) :
            \/ Contains(c1.inflight, x) \/ x \in K
            \/ x \in 1 .. Numbered(c, total) /\ ~Contains(c.inflight, x)
       /\ fr \in Seq(DataUpTo(self, dst, c, b, Numbered(c1, total)))
  BY <1>11, <1>12, <1>19, <1>20, <1>30
<1>23. QED
  BY <1>8, <1>11, <1>12, <1>18, <1>21, <1>22 DEF SendStep

\* q1 has lost no payload of q but those in K.
Keeping(q, q1, K) == \A n : Contains(q, n) => Contains(q1, n) \/ n \in K

\* The cumulative acknowledgement of the m-th packet takes off the deque only
\* packets up to the m-th.
LEMMA UnackedWindow ==
  ASSUME NEW c \in Conn, NEW pkt \in Frame, NEW b \in Uint16, NEW k \in Nat, 2 * k < SeqMod,
         InOrder(b, c.inflight, k), NEW m \in 0 .. k, pkt.ack_nr = SeqOf(b, m),
         NEW K, \A n \in 1 .. m : n \in K
  PROVE  /\ Unacked(c, pkt) \in Seq(InflightPkt)
         /\ InOrder(b, Unacked(c, pkt), k)
         /\ Keeping(c.inflight, Unacked(c, pkt), K)
<1> DEFINE q == c.inflight
           L == Len(q)
           acked == {i \in 1 .. L : \A j \in 1 .. i : seq_diff(q[j].seq, pkt.ack_nr) <= 0}
           A == Cardinality(acked)
           r == SubSeq(q, A + 1, L)
<1>1. q \in Seq(InflightPkt) /\ L \in Nat
  BY LenProperties DEF Conn
<1>2. A \in 0 .. L /\ acked = 1 .. A
  <2>1. acked \in SUBSET (1 .. L)
    OBVIOUS
  <2>2. ASSUME NEW i \in acked, NEW j \in 1 .. i PROVE j \in acked
    <3>1. i \in 1 .. L /\ j \in 1 .. L /\ \A l \in 1 .. j : l \in 1 .. i
      BY <1>1
    <3>2. QED BY <3>1
  <2> HIDE DEF acked, L
  <2>3. QED BY <1>1, <2>1, <2>2, PrefixCount
<1>3. Unacked(c, pkt) = r
  BY DEF Unacked, AckedCount
<1>4. /\ \A i \in 1 .. L : q[i].completing \in 1 .. k /\ q[i].seq = SeqOf(b, q[i].completing)
      /\ \A i, j \in 1 .. L : i < j => q[i].completing < q[j].completing
  BY DEF InOrder
<1>5. ASSUME NEW i \in 1 .. A
      PROVE  q[i].completing \in K
  <2>1. i \in acked
    BY <1>2
  <2>2. i \in 1 .. L /\ seq_diff(q[i].seq, pkt.ack_nr) <= 0
    <3>1. i \in 1 .. L /\ i \in 1 .. i
      BY <2>1, <1>1
    <3>2. QED BY <2>1, <3>1
  <2> DEFINE n == q[i].completing
  <2>3. n \in 1 .. k /\ q[i].seq = SeqOf(b, n)
    BY <1>4, <2>2
  <2> HIDE DEF n
  <2>4. n \in Int /\ m \in Int /\ 2 * (n - m) < SeqMod /\ 2 * (m - n) < SeqMod
    BY <2>3, SeqModAssumption
  <2>5. seq_diff(SeqOf(b, n), SeqOf(b, m)) = n - m
    BY <2>4, SeqOfDistance
  <2>6. n - m <= 0
    BY <2>2, <2>3, <2>5
  <2>7. n \in 1 .. m
    BY <2>3, <2>4, <2>6
  <2>8. QED BY <2>7 DEF n
<1> HIDE DEF acked, A
<1>6. r \in Seq(InflightPkt) /\ Len(r) = L - A /\ \A i \in 1 .. L - A : r[i] = q[A + i]
  <2>1. \A i \in A + 1 .. L : q[i] \in InflightPkt
    BY <1>1, <1>2, ElementOfSeq
  <2>2. A + 1 \in Int /\ L \in Int /\ L - (A + 1) + 1 = L - A
    BY <1>1, <1>2
  <2> HIDE DEF q, L
  <2>3. Len(r) = IF A + 1 <= L THEN L - (A + 1) + 1 ELSE 0
    BY <2>1, <2>2, SubSeqProperties
  <2>4. \A i \in 1 .. L - (A + 1) + 1 : r[i] = q[A + 1 + i - 1]
    BY <2>1, <2>2, SubSeqProperties
  <2>5. r \in Seq(InflightPkt)
    BY <2>1, <2>2, SubSeqProperties
  <2>6. Len(r) = L - A
    BY <1>1, <1>2, <2>3
  <2>7. ASSUME NEW i \in 1 .. L - A PROVE r[i] = q[A + i]
    <3>1. A + 1 + i - 1 = A + i
      BY <1>2
    <3>2. QED BY <2>2, <2>4, <3>1
  <2>8. QED BY <2>5, <2>6, <2>7
<1> HIDE DEF r
<1>7. InOrder(b, r, k)
  <2>1. ASSUME NEW i \in 1 .. L - A
        PROVE  A + i \in 1 .. L /\ r[i] = q[A + i]
    BY <1>1, <1>2, <1>6
  <2> HIDE DEF q, L
  <2>2. \A i \in 1 .. L - A : r[i].completing \in 1 .. k /\ r[i].seq = SeqOf(b, r[i].completing)
    BY <1>4, <2>1
  <2>3. ASSUME NEW i \in 1 .. L - A, NEW j \in 1 .. L - A, i < j
        PROVE  r[i].completing < r[j].completing
    <3>1. A + i < A + j
      BY <1>2, <2>3
    <3>2. q[A + i].completing < q[A + j].completing
      BY <1>4, <2>1, <3>1
    <3>3. QED BY <2>1, <3>2
  <2>4. QED BY <1>6, <2>2, <2>3 DEF InOrder
<1>8. Keeping(q, r, K)
  <2>1. SUFFICES ASSUME NEW n, NEW i \in 1 .. L, q[i].completing = n, n \notin K
                 PROVE  Contains(r, n)
    BY DEF Keeping, Contains
  <2>2. ~(i \in 1 .. A)
    BY <1>5, <2>1
  <2>3. i - A \in 1 .. L - A /\ A + (i - A) = i
    BY <1>1, <1>2, <2>2
  <2>4. r[i - A] = q[i]
    BY <1>6, <2>3
  <2>5. QED BY <1>6, <2>1, <2>3, <2>4 DEF Contains
<1>9. QED BY <1>3, <1>6, <1>7, <1>8

\* The selective acknowledgement takes off only packets it names.
LEMMA HolesWindow ==
  ASSUME NEW q \in Seq(InflightPkt), NEW pkt \in Frame, NEW b \in Uint16, NEW k \in Nat,
         2 * k < SeqMod, InOrder(b, q, k), NEW K,
         \A x \in pkt.sack : \E n \in 1 .. k : n \in K /\ x = SeqOf(b, n)
  PROVE  /\ Holes(q, pkt) \in Seq(InflightPkt)
         /\ InOrder(b, Holes(q, pkt), k)
         /\ Keeping(q, Holes(q, pkt), K)
<1> DEFINE L == Len(q)
           sacked == {i \in 1 .. L : q[i].seq \in pkt.sack}
           Later(i) == {j \in sacked : i < j}
           e(i)    == [q[i] EXCEPT !.sacked_past = q[i].sacked_past + Cardinality(Later(i))]
           Counted == [i \in 1 .. L |-> e(i)]
           I == (1 .. L) \ sacked
           h == Holes(q, pkt)
<1>1. L \in Nat /\ \A i \in 1 .. L : q[i] \in InflightPkt
  BY LenProperties, ElementOfSeq
<1>2. h = Subsequence(Counted, I)
  BY DEF Holes
<1>3. h \in Seq(InflightPkt)
  BY HolesType
<1>4. \A i \in 1 .. L : Counted[i].completing = q[i].completing /\ Counted[i].seq = q[i].seq
  BY <1>1 DEF InflightPkt
<1>5. \A i \in sacked : i \in 1 .. L /\ q[i].seq \in pkt.sack
  OBVIOUS
<1>6. I \subseteq 1 .. L /\ \A i \in 1 .. L : i \in I \/ i \in sacked
  OBVIOUS
<1> HIDE DEF sacked, Counted
<1>7. I \subseteq Nat /\ IsFiniteSet(I) /\ Cardinality(I) \in Nat
  BY <1>1, <1>6, IndexSet
<1> HIDE DEF I
<1>8. PICK f : Picks(Counted, I, f)
  BY <1>7, SubsequencePicks
<1> DEFINE n == Cardinality(I)
<1>9. /\ \A x \in 1 .. n : f[x] \in 1 .. L
      /\ \A x \in 1 .. n : h[x] = Counted[f[x]]
      /\ \A x, y \in 1 .. n : x < y => f[x] < f[y]
      /\ \A j \in I : \E x \in 1 .. n : f[x] = j
  BY <1>2, <1>6, <1>8 DEF Picks
<1>10. Len(h) = n
  BY <1>2, <1>7 DEF Subsequence
<1> HIDE DEF n, h
<1>11. \A x \in 1 .. n : h[x].completing = q[f[x]].completing /\ h[x].seq = q[f[x]].seq
  BY <1>4, <1>9
<1> HIDE DEF L
<1>12. /\ \A i \in 1 .. L : q[i].completing \in 1 .. k /\ q[i].seq = SeqOf(b, q[i].completing)
       /\ \A i, j \in 1 .. L : i < j => q[i].completing < q[j].completing
  BY DEF InOrder, L
<1>13. InOrder(b, h, k)
  <2>1. \A x \in 1 .. n : h[x].completing \in 1 .. k /\ h[x].seq = SeqOf(b, h[x].completing)
    BY <1>9, <1>11, <1>12
  <2>2. \A x, y \in 1 .. n : x < y => h[x].completing < h[y].completing
    BY <1>9, <1>11, <1>12
  <2>3. QED BY <1>10, <2>1, <2>2 DEF InOrder
<1>14. Keeping(q, h, K)
  <2>1. SUFFICES ASSUME NEW x, NEW i \in 1 .. L, q[i].completing = x, x \notin K
                 PROVE  Contains(h, x)
    BY DEF Keeping, Contains, L
  <2>2. x \in 1 .. k /\ q[i].seq = SeqOf(b, x)
    BY <1>12, <2>1
  <2>3. i \notin sacked
    <3>1. SUFFICES ASSUME i \in sacked PROVE FALSE
      OBVIOUS
    <3>2. PICK y \in 1 .. k : y \in K /\ q[i].seq = SeqOf(b, y)
      BY <1>5, <3>1
    <3>3. x \in Int /\ y \in Int /\ x - y < SeqMod /\ y - x < SeqMod
      BY <2>2, SeqModAssumption
    <3>4. x = y
      BY <2>2, <3>2, <3>3, SeqOfInjective
    <3>5. QED BY <2>1, <3>2, <3>4
  <2>4. i \in I
    BY <1>6, <2>3
  <2>5. PICK y \in 1 .. n : f[y] = i
    BY <1>9, <2>4
  <2>6. h[y].completing = x
    BY <1>11, <2>1, <2>5
  <2>7. QED BY <1>10, <2>6 DEF Contains
<1>15. QED BY <1>3, <1>13, <1>14 DEF h

LEMMA RecountedWindow ==
  ASSUME NEW q \in Seq(InflightPkt), NEW b, NEW k, InOrder(b, q, k)
  PROVE  /\ InOrder(b, Recounted(q), k)
         /\ \A n : Contains(q, n) <=> Contains(Recounted(q), n)
<1> DEFINE r == Recounted(q)
<1>1. Len(q) \in Nat /\ \A i \in 1 .. Len(q) : q[i] \in InflightPkt
  BY LenProperties, ElementOfSeq
<1>2. r \in Seq(InflightPkt)
  BY RecountedType
<1>3. r = [i \in 1 .. Len(q) |-> IF i \in LostIndices(q) THEN [q[i] EXCEPT !.sacked_past = 0] ELSE q[i]]
  BY DEF Recounted
<1>4. \A i \in 1 .. Len(q) : r[i].completing = q[i].completing /\ r[i].seq = q[i].seq
  BY <1>1, <1>3 DEF InflightPkt
<1>5. DOMAIN r = 1 .. Len(q)
  BY <1>3
<1> HIDE DEF r
<1>6. Len(r) = Len(q)
  <2>1. Len(r) \in Nat /\ 1 .. Len(r) = 1 .. Len(q)
    BY <1>2, <1>5, LenProperties
  <2>2. QED BY <1>1, <2>1
<1>7. QED BY <1>4, <1>6 DEF InOrder, Contains, r

LEMMA LostFramesGenuine ==
  ASSUME NEW self \in Peers, NEW dst \in Peers, NEW c \in Conn, NEW q \in Seq(InflightPkt),
         NEW b, NEW k, InOrder(b, q, k)
  PROVE  LostFrames(self, dst, c, q) \in Seq(DataUpTo(self, dst, c, b, k))
<1> DEFINE I == LostIndices(q)
           lost == Subsequence(q, I)
           n == Cardinality(I)
<1>1. I \in SUBSET (1 .. Len(q)) /\ Len(q) \in Nat
  BY LenProperties DEF LostIndices
<1>2. lost \in Seq(InflightPkt) /\ Len(lost) = n
  BY <1>1, SubsequenceType
<1> HIDE DEF I
<1>3. I \subseteq Nat /\ IsFiniteSet(I) /\ n \in Nat
  BY <1>1, IndexSet
<1>4. PICK f : Picks(q, I, f)
  BY <1>3, SubsequencePicks
<1>5. ASSUME NEW i \in 1 .. n
      PROVE  DataFrame(self, dst, c, lost[i]) \in DataUpTo(self, dst, c, b, k)
  <2>1. lost[i] = q[f[i]] /\ f[i] \in 1 .. Len(q)
    BY <1>1, <1>4 DEF Picks
  <2>2. q[f[i]] \in InflightPkt
    BY <2>1, ElementOfSeq
  <2>3. q[f[i]].completing \in 1 .. k /\ q[f[i]].seq = SeqOf(b, q[f[i]].completing)
    BY <2>1 DEF InOrder
  <2>4. DataFrame(self, dst, c, q[f[i]]) \in DataUpTo(self, dst, c, b, k)
    BY <2>2, <2>3, GenuineFrame
  <2>5. QED BY <2>1, <2>4
<1>6. LostFrames(self, dst, c, q) = [i \in 1 .. n |-> DataFrame(self, dst, c, lost[i])]
  BY DEF LostFrames, I
<1> HIDE DEF lost, n
<1>7. QED BY <1>3, <1>5, <1>6, IsASeq

\* What pkt acknowledges of a stream numbered up to k is in K.
AckFits(b, pkt, k, K) ==
  /\ \E m \in 0 .. k : pkt.ack_nr = SeqOf(b, m) /\ \A n \in 1 .. m : n \in K
  /\ \A x \in pkt.sack : \E n \in 1 .. k : n \in K /\ x = SeqOf(b, n)

LEMMA DataUpToGrows ==
  ASSUME NEW self, NEW dst, NEW c, NEW c1, NEW b, NEW k \in Int, NEW l \in Int, k <= l,
         c1.conn_id_send = c.conn_id_send, c1.ack_nr = c.ack_nr,
         NEW s \in Seq(DataUpTo(self, dst, c1, b, k))
  PROVE  s \in Seq(DataUpTo(self, dst, c, b, l))
<1>1. \A n \in 1 .. k : n \in 1 .. l
  OBVIOUS
<1>2. DataUpTo(self, dst, c1, b, k) \subseteq DataUpTo(self, dst, c, b, l)
  BY <1>1 DEF DataUpTo, StreamFrame
<1>3. QED BY <1>2, SeqMonotonic

\* process_acks takes off the deque only what the receiver holds, and sends
\* packets of the stream as they are numbered.
LEMMA ProcessAcksSends ==
  ASSUME NEW self \in Peers, NEW dst \in Peers, NEW c \in Conn, NEW pkt \in Frame,
         NEW b \in Uint16, NEW total \in Nat, 2 * total < SeqMod, Numbering(b, c, total),
         NEW K, AckFits(b, pkt, Numbered(c, total), K), NEW o \in process_acks(self, dst, c, pkt)
  PROVE  SendStep(self, dst, c, o, b, total, K)
<1> DEFINE k == Numbered(c, total)
           u == Unacked(c, pkt)
           holes == Holes(u, pkt)
           lost == LostFrames(self, dst, c, holes)
           c1 == AckedConn(c, pkt, holes)
           c2 == CountedConn(c, pkt, holes)
           D(n) == DataUpTo(self, dst, c, b, n)
<1>1. Keeps(self, dst, c, o)
  BY ProcessAcksKeeps
<1>2. o \in AckOutcomes(self, dst, c, pkt, holes)
  BY DEF process_acks
<1>3. k \in Nat /\ 2 * k < SeqMod /\ k <= total
  <2>1. c.pending \in Seq(Payload) /\ Len(c.pending) <= total
    BY DEF Conn, Numbering
  <2>2. Len(c.pending) \in Nat
    BY <2>1, LenProperties
  <2>3. QED BY <2>1, <2>2, SeqModAssumption DEF Numbered
<1>4. InOrder(b, c.inflight, k)
  BY DEF Numbering
<1>5. PICK m \in 0 .. k : pkt.ack_nr = SeqOf(b, m) /\ \A n \in 1 .. m : n \in K
  BY DEF AckFits
<1>6. \A x \in pkt.sack : \E n \in 1 .. k : n \in K /\ x = SeqOf(b, n)
  BY DEF AckFits
<1> HIDE DEF k
<1>7. u \in Seq(InflightPkt) /\ InOrder(b, u, k) /\ Keeping(c.inflight, u, K)
  BY <1>3, <1>4, <1>5, UnackedWindow
<1> HIDE DEF u
<1>8. holes \in Seq(InflightPkt) /\ InOrder(b, holes, k) /\ Keeping(u, holes, K)
  BY <1>3, <1>6, <1>7, HolesWindow
<1> HIDE DEF holes
<1>9. Recounted(holes) \in Seq(InflightPkt) /\ InOrder(b, Recounted(holes), k)
  BY <1>8, RecountedType, RecountedWindow
<1>10. Keeping(c.inflight, Recounted(holes), K)
  <2>1. \A n : Contains(holes, n) <=> Contains(Recounted(holes), n)
    BY <1>8, RecountedWindow
  <2>2. QED BY <1>7, <1>8, <2>1 DEF Keeping
<1>11. lost \in Seq(D(k))
  BY <1>8, LostFramesGenuine
<1>12. pkt.ack_nr \in Uint16 /\ c.dup_acks \in Nat /\ c.dup_acks + 1 \in Nat
  BY DEF Frame, Conn
<1>13. /\ c1 \in Conn /\ c1.inflight = Recounted(holes) /\ c1.pending = c.pending
       /\ c1.seq_nr = c.seq_nr /\ c1.ack_nr = c.ack_nr /\ c1.ooo = c.ooo
       /\ c1.conn_id_send = c.conn_id_send
  BY <1>9, <1>12 DEF AckedConn, Conn
<1>14. /\ c2 \in Conn /\ c2.inflight = Recounted(holes) /\ c2.pending = c.pending
       /\ c2.seq_nr = c.seq_nr /\ c2.ack_nr = c.ack_nr /\ c2.ooo = c.ooo
  <2> HIDE DEF c1
  <2>1. c2 = [c1 EXCEPT !.dup_acks = c.dup_acks + 1]
    BY DEF CountedConn, c1
  <2>2. QED BY <1>12, <1>13, <2>1 DEF Conn
<1>15. Numbered(c1, total) = k /\ Numbered(c2, total) = k
  BY <1>13, <1>14 DEF Numbered, k
<1>16. Numbering(b, c1, total) /\ Numbering(b, c2, total)
  <2>1. \A x \in {c1, c2} : x.pending = c.pending /\ x.seq_nr = c.seq_nr
                            /\ x.inflight = Recounted(holes) /\ Numbered(x, total) = k
    BY <1>13, <1>14, <1>15
  <2> HIDE DEF c1, c2
  <2>2. \A x \in {c1, c2} : Numbering(b, x, total)
    BY <1>9, <2>1 DEF Numbering, k
  <2>3. QED BY <2>2
<1> HIDE DEF c1, c2, lost
<1>17. \A n \in 1 .. k : Contains(Recounted(holes), n) \/ n \in K
                         \/ (n \in 1 .. k /\ ~Contains(c.inflight, n))
  BY <1>10 DEF Keeping
<1>18. CASE \E p \in packetize(self, dst, c1) : o = [conn |-> p.conn, frames |-> lost \o p.frames]
  <2>1. PICK p \in packetize(self, dst, c1) : o = [conn |-> p.conn, frames |-> lost \o p.frames]
    BY <1>18
  <2>2. SendStep(self, dst, c1, p, b, total, K)
    BY <1>13, <1>16, PacketizeSends
  <2> DEFINE l == Numbered(p.conn, total)
  <2>3. /\ p.conn.ack_nr = c.ack_nr /\ p.conn.ooo = c.ooo /\ Numbering(b, p.conn, total)
        /\ Len(p.conn.pending) <= Len(c.pending) /\ p.frames \in Seq(DataUpTo(self, dst, c1, b, l))
        /\ p.conn \in Conn
    BY <1>13, <2>2 DEF SendStep, Keeps
  <2>4. l \in Int /\ k \in Int /\ k <= l
    <3>1. Len(p.conn.pending) \in Nat /\ Len(c.pending) \in Nat
      BY <2>3, LenProperties DEF Conn
    <3>2. QED BY <2>3, <3>1 DEF Numbered, k
  <2>5. \A n \in 1 .. l :
          \/ Contains(p.conn.inflight, n) \/ n \in K
          \/ n \in 1 .. k /\ ~Contains(c.inflight, n)
    <3>1. SUFFICES ASSUME NEW n \in 1 .. l, ~Contains(p.conn.inflight, n), n \notin K
                   PROVE  n \in 1 .. k /\ ~Contains(c.inflight, n)
      OBVIOUS
    <3>2. n \in 1 .. k /\ ~Contains(c1.inflight, n)
      BY <1>15, <2>2, <3>1 DEF SendStep
    <3>3. QED BY <1>13, <1>17, <3>1, <3>2
  <2> HIDE DEF l
  <2>6. p.frames \in Seq(D(l))
    BY <1>13, <2>3, <2>4, DataUpToGrows
  <2>7. lost \in Seq(D(l))
    BY <1>11, <2>4, DataUpToGrows
  <2>8. lost \o p.frames \in Seq(D(l))
    BY <2>6, <2>7, ConcatProperties
  <2>9. o.conn = p.conn /\ o.frames = lost \o p.frames
    BY <2>1
  <2>10. QED BY <1>1, <2>3, <2>5, <2>8, <2>9 DEF SendStep, l, k
<1>19. CASE \/ o = [conn |-> c1, frames |-> lost]
            \/ /\ holes # <<>>
               /\ o = [conn |-> c1, frames |-> lost \o <<DataFrame(self, dst, c, Head(holes))>>]
            \/ o = [conn |-> c2, frames |-> lost]
  <2>1. /\ o.conn.inflight = Recounted(holes) /\ o.conn.pending = c.pending
        /\ o.conn.ack_nr = c.ack_nr /\ o.conn.ooo = c.ooo
        /\ Numbering(b, o.conn, total) /\ Numbered(o.conn, total) = k
    BY <1>13, <1>14, <1>15, <1>16, <1>19
  <2>2. o.frames \in Seq(D(k))
    <3>1. CASE o.frames = lost
      BY <1>11, <3>1
    <3>2. CASE holes # <<>> /\ o.frames = lost \o <<DataFrame(self, dst, c, Head(holes))>>
      <4>1. holes[1] = Head(holes) /\ 1 \in 1 .. Len(holes)
        BY <1>8, <3>2, EmptySeq
      <4>2. Head(holes) \in InflightPkt
        BY <1>8, <3>2, HeadTailProperties
      <4>3. DataFrame(self, dst, c, Head(holes)) \in D(k)
        BY <1>8, <4>1, <4>2, GenuineFrame DEF InOrder
      <4>4. <<DataFrame(self, dst, c, Head(holes))>> \in Seq(D(k))
        BY <4>3
      <4>5. QED BY <1>11, <3>2, <4>4, ConcatProperties
    <3>3. QED BY <1>19, <3>1, <3>2
  <2>3. Len(o.conn.pending) <= Len(c.pending)
    <3>1. Len(c.pending) \in Nat
      BY LenProperties DEF Conn
    <3>2. QED BY <2>1, <3>1
  <2>4. QED BY <1>1, <1>17, <2>1, <2>2, <2>3 DEF SendStep, k
<1>20. QED
  BY <1>2, <1>18, <1>19, AckCases DEF c1, c2, lost

\* Before the handshake is complete, process_acks numbers nothing.
LEMMA ProcessAcksWaits ==
  ASSUME NEW self, NEW dst, NEW c \in Conn, c.state # "connected", NEW pkt,
         NEW o \in process_acks(self, dst, c, pkt)
  PROVE  o.conn.pending = c.pending
<1> DEFINE holes == Holes(Unacked(c, pkt), pkt)
           c1 == AckedConn(c, pkt, holes)
           c2 == CountedConn(c, pkt, holes)
<1>1. o \in AckOutcomes(self, dst, c, pkt, holes)
  BY DEF process_acks
<1>2. c1.pending = c.pending /\ c2.pending = c.pending
  BY DEF AckedConn, CountedConn, Conn
<1>3. o.conn = c1 \/ o.conn = c2
  <2> DEFINE lost == LostFrames(self, dst, c, holes)
             x == DataFrame(self, dst, c, Head(holes))
  <2>1. \/ o = [conn |-> c1, frames |-> lost]
        \/ o = [conn |-> c1, frames |-> lost \o <<x>>]
        \/ o = [conn |-> c2, frames |-> lost]
    <3> HIDE DEF holes
    <3>1. QED BY <1>1, AckCases
  <2> HIDE DEF c1, c2, lost, x
  <2>2. QED BY <2>1
<1>4. QED BY <1>2, <1>3

-----------------------------------------------------------------------------
(* What the receiving half keeps: b is the number of the first packet of the *)
(* peer's stream and k the number of its packets.                            *)

\* How many packets have been received in order.
InOrderCount(b, c) == IndexOf(b, c.ack_nr)

\* The payloads a connection holds for good.
Holds(b, c) == (1 .. InOrderCount(b, c)) \cup {p.completing : p \in c.ooo}

\* The packets of the out-of-order buffer are packets of the stream, numbered
\* from the n-th.
BufferFrom(b, c, n, k) ==
  \A p \in c.ooo : p.completing \in n .. k /\ p.seq = SeqOf(b, p.completing)

Receiving(b, c, k) ==
  InOrderCount(b, c) <= k /\ BufferFrom(b, c, InOrderCount(b, c) + 2, k)

SameSender(c, c1) ==
  c1.seq_nr = c.seq_nr /\ c1.pending = c.pending /\ c1.inflight = c.inflight

\* A receiving step hands over the payloads that come next, in order, and
\* forgets nothing it holds.
ReceiveStep(b, c, k, a) ==
  /\ InOrderCount(b, c) <= InOrderCount(b, a.conn)
  /\ Len(a.payloads) = InOrderCount(b, a.conn) - InOrderCount(b, c)
  /\ \A j \in 1 .. Len(a.payloads) : a.payloads[j] = InOrderCount(b, c) + j
  /\ Receiving(b, a.conn, k)
  /\ Holds(b, c) \subseteq Holds(b, a.conn)
  /\ SameSender(c, a.conn)

\* drain_ooo moves ack_nr over the buffered packets that follow it, up to the
\* first gap.
LEMMA DrainSteps ==
  ASSUME NEW c \in Conn, NEW b \in Uint16, NEW k \in Nat, 2 * k < SeqMod,
         InOrderCount(b, c) <= k, BufferFrom(b, c, InOrderCount(b, c) + 1, k)
  PROVE  ReceiveStep(b, c, k, drain_ooo(c))
<1> DEFINE R == InOrderCount(b, c)
           S == InOrderRun(c)
           n == Cardinality(S)
           Buffered(j) == CHOOSE p \in c.ooo : p.seq = Plus(c.ack_nr, j)
           rest == c.ooo \ {Buffered(j) : j \in 1 .. n}
           out  == [j \in 1 .. n |-> Buffered(j).completing]
           d    == [c EXCEPT !.ack_nr = Plus(c.ack_nr, n), !.ooo = rest]
<1>1. R \in Nat /\ R <= k /\ SeqOf(b, R) = c.ack_nr /\ c.ack_nr \in Uint16
  <2>1. c.ack_nr \in Uint16
    BY DEF Conn
  <2>2. QED BY <2>1, IndexOfType, SeqOfIndex DEF InOrderCount
<1>2. \A p \in c.ooo : /\ p.completing \in R + 1 .. k /\ p.seq = SeqOf(b, p.completing)
                       /\ p = [seq |-> p.seq, completing |-> p.completing]
  BY DEF BufferFrom, Conn, RecvPkt
<1>3. drain_ooo(c) = [conn |-> d, payloads |-> out]
  BY DEF drain_ooo
<1>4. R = InOrderCount(b, c)
  OBVIOUS
<1> HIDE DEF R
<1>5. \A j \in Int : Plus(c.ack_nr, j) = SeqOf(b, R + j)
  <2>1. SUFFICES ASSUME NEW j \in Int PROVE Plus(c.ack_nr, j) = SeqOf(b, R + j)
    OBVIOUS
  <2>2. R \in Int
    BY <1>1
  <2>3. Plus(SeqOf(b, R), j) = SeqOf(b, R + j)
    BY <2>2, SeqOfNext
  <2>4. QED BY <1>1, <2>3
<1>6. ASSUME NEW j \in 1 .. SeqMod - 1, NEW p \in c.ooo, p.seq = SeqOf(b, R + j)
      PROVE  p.completing = R + j
  <2> DEFINE x == p.completing
  <2>1. x \in R + 1 .. k /\ SeqOf(b, x) = SeqOf(b, R + j)
    BY <1>2, <1>6
  <2> HIDE DEF x
  <2>2. x \in Int /\ R + j \in Int /\ x - (R + j) < SeqMod /\ (R + j) - x < SeqMod
    BY <1>1, <2>1, SeqModAssumption
  <2>3. x = R + j
    BY <2>1, <2>2, SeqOfInjective
  <2>4. QED BY <2>3 DEF x
<1>7. n \in 0 .. SeqMod - 1 /\ S = 1 .. n
  <2>1. S \in SUBSET (1 .. SeqMod - 1) /\ SeqMod - 1 \in Nat
    BY SeqModAssumption DEF InOrderRun
  <2>2. ASSUME NEW i \in S, NEW j \in 1 .. i PROVE j \in S
    <3>1. i \in 1 .. SeqMod - 1 /\ j \in 1 .. SeqMod - 1 /\ \A l \in 1 .. j : l \in 1 .. i
      BY <2>1, SeqModAssumption
    <3>2. QED BY <3>1 DEF InOrderRun
  <2> HIDE DEF S
  <2>3. QED BY <2>1, <2>2, PrefixCount
<1>8. ASSUME NEW j \in 1 .. n
      PROVE  Buffered(j) \in c.ooo /\ Buffered(j).completing = R + j
  <2>1. j \in S /\ j \in Int /\ j \in 1 .. SeqMod - 1 /\ j \in 1 .. j
    BY <1>7, SeqModAssumption
  <2>2. \E p \in c.ooo : p.seq = Plus(c.ack_nr, j)
    BY <2>1 DEF InOrderRun
  <2>3. Buffered(j) \in c.ooo /\ Buffered(j).seq = Plus(c.ack_nr, j)
    BY <2>2
  <2> HIDE DEF Buffered
  <2>4. Buffered(j).seq = SeqOf(b, R + j)
    BY <1>5, <2>1, <2>3
  <2>5. QED BY <1>6, <2>1, <2>3, <2>4
<1>9. n \in Nat /\ R + n <= k
  <2>1. CASE n = 0
    BY <1>1, <2>1
  <2>2. CASE n # 0
    <3>1. n \in 1 .. n
      BY <1>7, <2>2
    <3>2. Buffered(n) \in c.ooo /\ Buffered(n).completing = R + n
      BY <1>8, <3>1
    <3> HIDE DEF Buffered, n
    <3>3. R + n \in R + 1 .. k
      BY <1>2, <3>2
    <3>4. QED BY <1>7, <3>3
  <2>3. QED BY <2>1, <2>2, <1>7
<1>10. ASSUME NEW p \in c.ooo, NEW j \in 1 .. n, p.completing = R + j
       PROVE  p = Buffered(j)
  <2> DEFINE w == Buffered(j)
  <2>1. w \in c.ooo /\ w.completing = R + j
    BY <1>8
  <2> HIDE DEF w
  <2>2. p.seq = w.seq /\ p.completing = w.completing
    BY <1>2, <1>10, <2>1
  <2>3. p = w
    BY <1>2, <2>1, <2>2
  <2>4. QED BY <2>3 DEF w
<1>11. \A p \in rest : p \in c.ooo /\ p.completing \in R + n + 2 .. k
  <2>1. SUFFICES ASSUME NEW p \in rest PROVE p \in c.ooo /\ p.completing \in R + n + 2 .. k
    OBVIOUS
  <2>2. p \in c.ooo /\ \A j \in 1 .. n : p # Buffered(j)
    OBVIOUS
  <2> DEFINE x == p.completing
  <2>3. x \in R + 1 .. k /\ p.seq = SeqOf(b, x)
    BY <1>2, <2>2
  <2>4. ~(x <= R + n)
    <3>1. SUFFICES ASSUME x <= R + n PROVE FALSE
      OBVIOUS
    <3>2. x - R \in 1 .. n /\ x = R + (x - R)
      BY <1>1, <1>9, <2>3, <3>1
    <3>3. p = Buffered(x - R)
      BY <1>10, <2>2, <3>2
    <3>4. QED BY <2>2, <3>2, <3>3
  <2>5. x # R + (n + 1)
    <3>1. SUFFICES ASSUME x = R + (n + 1) PROVE FALSE
      OBVIOUS
    <3>2. n + 1 \in 1 .. SeqMod - 1 /\ n + 1 \in Int
      BY <1>1, <1>9, <2>3, <3>1, SeqModAssumption
    <3>3. ASSUME NEW i \in 1 .. n + 1 PROVE \E g \in c.ooo : g.seq = Plus(c.ack_nr, i)
      <4>1. CASE i = n + 1
        <5>1. p.seq = Plus(c.ack_nr, n + 1)
          BY <1>5, <2>3, <3>1, <3>2
        <5>2. QED BY <2>2, <4>1, <5>1
      <4>2. CASE i # n + 1
        <5>1. i \in S /\ i \in 1 .. i
          BY <1>7, <1>9, <4>2
        <5>2. QED BY <5>1 DEF InOrderRun
      <4>3. QED BY <4>1, <4>2
    <3>4. n + 1 \in S
      BY <3>2, <3>3 DEF InOrderRun
    <3>5. n + 1 \in 1 .. n
      BY <1>7, <3>4
    <3>6. QED BY <1>9, <3>5
  <2> HIDE DEF x
  <2>6. x \in R + n + 2 .. k
    BY <1>1, <1>9, <2>3, <2>4, <2>5
  <2>7. QED BY <2>2, <2>6 DEF x
<1>12. \A p \in c.ooo : p \in rest \/ p.completing \in R + 1 .. R + n
  <2>1. SUFFICES ASSUME NEW p \in c.ooo, p \notin rest PROVE p.completing \in R + 1 .. R + n
    OBVIOUS
  <2>2. PICK j \in 1 .. n : p = Buffered(j)
    BY <2>1
  <2>3. p.completing = R + j
    BY <1>8, <2>2
  <2> HIDE DEF n, Buffered
  <2>4. R + j \in R + 1 .. R + n
    BY <1>1, <1>9
  <2>5. QED BY <2>3, <2>4
<1>13. Len(out) = n /\ \A j \in 1 .. n : out[j] = R + j
  <2>1. \A j \in 1 .. n : Buffered(j).completing = R + j
    BY <1>8
  <2> HIDE DEF Buffered, n
  <2>2. QED BY <1>9, <2>1
<1>14. Plus(c.ack_nr, n) = SeqOf(b, R + n)
  BY <1>5, <1>9
<1> HIDE DEF rest, out, n, Buffered, S
<1>15. d.ack_nr = SeqOf(b, R + n) /\ d.ooo = rest /\ SameSender(c, d)
  BY <1>14 DEF Conn, SameSender
<1> HIDE DEF d
<1>16. InOrderCount(b, d) = R + n
  <2>1. R + n \in Int /\ 0 <= R + n /\ R + n < SeqMod
    BY <1>1, <1>9, SeqModAssumption
  <2>2. IndexOf(b, SeqOf(b, R + n)) = R + n
    BY <2>1, IndexOfSeq
  <2>3. QED BY <1>15, <2>2 DEF InOrderCount
<1>17. Receiving(b, d, k)
  BY <1>2, <1>9, <1>11, <1>15, <1>16 DEF Receiving, BufferFrom
<1>18. Holds(b, c) \subseteq Holds(b, d)
  <2>1. SUFFICES ASSUME NEW x \in Holds(b, c) PROVE x \in Holds(b, d)
    OBVIOUS
  <2>2. CASE x \in 1 .. R
    <3>1. x \in 1 .. R + n
      BY <1>1, <1>9, <2>2
    <3>2. QED BY <1>16, <3>1 DEF Holds
  <2>3. CASE \E p \in c.ooo : x = p.completing
    <3>1. PICK p \in c.ooo : x = p.completing
      BY <2>3
    <3>2. CASE p \in rest
      BY <1>15, <3>1, <3>2 DEF Holds
    <3>3. CASE p.completing \in R + 1 .. R + n
      <4>1. x \in 1 .. R + n
        BY <1>1, <3>1, <3>3
      <4>2. QED BY <1>16, <4>1 DEF Holds
    <3>4. QED BY <1>12, <3>2, <3>3
  <2>4. QED BY <1>4, <2>2, <2>3 DEF Holds
<1>19. ReceiveStep(b, c, k, [conn |-> d, payloads |-> out])
  <2>1. (R + n) - R = n /\ R <= R + n
    BY <1>1, <1>9
  <2>2. QED BY <1>4, <1>13, <1>15, <1>16, <1>17, <1>18, <2>1 DEF ReceiveStep
<1>20. QED BY <1>3, <1>19

\* receive_data delivers the next packet with what follows it in the buffer,
\* buffers a later one and drops what it holds already.
LEMMA AcceptedSteps ==
  ASSUME NEW c \in Conn, NEW f \in Frame, NEW b \in Uint16, NEW k \in Nat, 2 * k < SeqMod,
         Receiving(b, c, k), f.completing \in 1 .. k, f.seq_nr = SeqOf(b, f.completing)
  PROVE  ReceiveStep(b, c, k, Accepted(c, f))
<1> DEFINE R == InOrderCount(b, c)
           x == f.completing
           rel == seq_diff(f.seq_nr, c.ack_nr)
           known == \E p \in c.ooo : p.seq = f.seq_nr
           c1 == [c EXCEPT !.ack_nr = f.seq_nr]
           run == drain_ooo(c1)
           new == [seq |-> f.seq_nr, completing |-> x]
           c2 == [c EXCEPT !.ooo = c.ooo \cup {new}]
<1>1. R \in Nat /\ R <= k /\ SeqOf(b, R) = c.ack_nr /\ c.ack_nr \in Uint16
  <2>1. c.ack_nr \in Uint16
    BY DEF Conn
  <2>2. QED BY <2>1, IndexOfType, SeqOfIndex DEF InOrderCount, Receiving
<1>2. R = InOrderCount(b, c) /\ x = f.completing /\ x \in 1 .. k /\ f.seq_nr = SeqOf(b, x)
  OBVIOUS
<1>3. \A p \in c.ooo : p.completing \in R + 2 .. k /\ p.seq = SeqOf(b, p.completing)
  BY DEF Receiving, BufferFrom
<1>4. f.seq_nr \in Uint16 /\ f.completing \in Payload
  BY DEF Frame, Payload, NoPayload
<1> HIDE DEF R
<1>5. rel = x - R
  <2>1. 2 * (x - R) < SeqMod /\ 2 * (R - x) < SeqMod /\ x \in Int /\ R \in Int
    BY <1>1, <1>2, SeqModAssumption
  <2> HIDE DEF x
  <2>2. seq_diff(SeqOf(b, x), SeqOf(b, R)) = x - R
    BY <2>1, SeqOfDistance
  <2>3. QED BY <1>1, <1>2, <2>2
<1>6. ReceiveStep(b, c, k, [conn |-> c, payloads |-> <<>>])
  BY <1>1, <1>2 DEF ReceiveStep, SameSender
<1>7. CASE rel = 1
  <2>1. x = R + 1
    BY <1>1, <1>2, <1>5, <1>7
  <2>2. c1 \in Conn /\ c1.ack_nr = f.seq_nr /\ c1.ooo = c.ooo /\ SameSender(c, c1)
    BY <1>4 DEF Conn, SameSender
  <2>3. Accepted(c, f) = [conn |-> run.conn, payloads |-> <<x>> \o run.payloads]
    BY <1>7 DEF Accepted
  <2> HIDE DEF c1, x
  <2>4. InOrderCount(b, c1) = R + 1
    <3>1. x \in Int /\ 0 <= x /\ x < SeqMod
      BY <1>2, SeqModAssumption
    <3>2. IndexOf(b, SeqOf(b, x)) = x
      BY <3>1, IndexOfSeq
    <3>3. QED BY <1>2, <2>1, <2>2, <3>2 DEF InOrderCount
  <2>5. (R + 1) + 1 = R + 2 /\ R + 1 <= k
    BY <1>1, <1>2, <2>1
  <2>6. InOrderCount(b, c1) <= k /\ BufferFrom(b, c1, InOrderCount(b, c1) + 1, k)
    BY <1>3, <2>2, <2>4, <2>5 DEF BufferFrom
  <2>7. ReceiveStep(b, c1, k, run)
    BY <2>2, <2>6, DrainSteps
  <2>8. run.payloads \in Seq(Payload)
    BY <2>2, DrainType
  <2> HIDE DEF run
  <2> DEFINE pay == <<x>> \o run.payloads
             R1 == InOrderCount(b, run.conn)
             n == Len(run.payloads)
  <2>9. R + 1 <= R1 /\ n = R1 - (R + 1) /\ \A j \in 1 .. n : run.payloads[j] = (R + 1) + j
    BY <2>4, <2>7 DEF ReceiveStep
  <2>10. n \in Nat
    BY <2>8, LenProperties
  <2>11. Len(pay) = 1 + n /\ \A j \in 1 .. 1 + n : pay[j] = IF j <= 1 THEN x ELSE run.payloads[j - 1]
    <3>1. <<x>> \in Seq(Payload) /\ Len(<<x>>) = 1 /\ <<x>>[1] = x
      BY <1>2, <1>4
    <3>2. /\ Len(pay) = Len(<<x>>) + n
          /\ \A j \in 1 .. Len(<<x>>) + n :
               pay[j] = IF j <= Len(<<x>>) THEN <<x>>[j] ELSE run.payloads[j - Len(<<x>>)]
      BY <2>8, <3>1, ConcatProperties
    <3> HIDE DEF pay, n
    <3>3. ASSUME NEW j \in 1 .. 1 + n
          PROVE  pay[j] = IF j <= 1 THEN x ELSE run.payloads[j - 1]
      <4>1. CASE j <= 1
        <5>1. j = 1
          BY <2>10, <4>1
        <5>2. QED BY <2>10, <3>1, <3>2, <5>1
      <4>2. CASE ~(j <= 1)
        BY <3>1, <3>2, <4>2
      <4>3. QED BY <4>1, <4>2
    <3>4. QED BY <3>1, <3>2, <3>3
  <2> HIDE DEF pay, n
  <2>12. R1 \in Nat
    <3>1. run.conn \in Conn
      BY <2>2, DrainType DEF run
    <3>2. run.conn.ack_nr \in Uint16
      BY <3>1 DEF Conn
    <3>3. QED BY <3>2, IndexOfType DEF InOrderCount
  <2> HIDE DEF R1
  <2>13. Len(pay) = R1 - R /\ R <= R1
    BY <1>1, <2>9, <2>10, <2>11, <2>12
  <2>14. ASSUME NEW j \in 1 .. 1 + n PROVE pay[j] = R + j
    <3>1. CASE j <= 1
      <4>1. j = 1
        BY <2>10, <3>1
      <4>2. QED BY <2>1, <2>11, <4>1
    <3>2. CASE ~(j <= 1)
      <4>1. j - 1 \in 1 .. n /\ (R + 1) + (j - 1) = R + j
        BY <1>1, <2>10, <3>2
      <4>2. QED BY <2>9, <2>11, <3>2, <4>1
    <3>3. QED BY <3>1, <3>2
  <2>15. Receiving(b, run.conn, k) /\ SameSender(c, run.conn)
    BY <2>2, <2>7 DEF ReceiveStep, SameSender
  <2>16. Holds(b, c) \subseteq Holds(b, run.conn)
    <3>1. \A j \in 1 .. R : j \in 1 .. R + 1
      BY <1>1
    <3>2. Holds(b, c) \subseteq Holds(b, c1)
      BY <1>2, <2>2, <2>4, <3>1 DEF Holds
    <3>3. QED BY <2>7, <3>2 DEF ReceiveStep
  <2>17. ReceiveStep(b, c, k, [conn |-> run.conn, payloads |-> pay])
    BY <1>2, <2>11, <2>13, <2>14, <2>15, <2>16 DEF ReceiveStep, R1
  <2>18. QED BY <2>3, <2>17 DEF pay
<1>8. CASE rel > 1 /\ ~known
  <2>1. x \in R + 2 .. k /\ ~(rel = 1) /\ ~(rel <= 0)
    BY <1>1, <1>2, <1>5, <1>8
  <2>2. Accepted(c, f) = [conn |-> c2, payloads |-> <<>>]
    BY <1>8, <2>1 DEF Accepted
  <2>3. c2.ack_nr = c.ack_nr /\ c2.ooo = c.ooo \cup {new} /\ SameSender(c, c2)
    BY DEF Conn, SameSender
  <2>4. new.completing = x /\ new.seq = SeqOf(b, x)
    BY <1>2
  <2> HIDE DEF c2, new, x
  <2>5. InOrderCount(b, c2) = R
    BY <1>2, <2>3 DEF InOrderCount
  <2>6. Receiving(b, c2, k)
    BY <1>1, <1>3, <2>1, <2>3, <2>4, <2>5 DEF Receiving, BufferFrom
  <2>7. Holds(b, c) \subseteq Holds(b, c2)
    BY <1>2, <2>3, <2>5 DEF Holds
  <2>8. R <= R /\ R - R = 0
    BY <1>1
  <2>9. ReceiveStep(b, c, k, [conn |-> c2, payloads |-> <<>>])
    BY <1>2, <2>3, <2>5, <2>6, <2>7, <2>8 DEF ReceiveStep
  <2>10. QED BY <2>2, <2>9
<1>9. CASE rel <= 0 \/ (rel > 1 /\ known)
  <2>1. ~(rel = 1) /\ ~(rel > 1 /\ ~known)
    BY <1>1, <1>2, <1>5, <1>9
  <2>2. Accepted(c, f) = [conn |-> c, payloads |-> <<>>]
    BY <1>9, <2>1 DEF Accepted
  <2>3. QED BY <1>6, <2>2
<1>10. QED BY <1>1, <1>2, <1>5, <1>7, <1>8, <1>9

\* The acknowledgement names only what the connection holds.
AckOfHeld(b, f, c) ==
  /\ f.ack_nr = c.ack_nr
  /\ \A x \in f.sack : \E n \in Holds(b, c) : x = SeqOf(b, n)

LEMMA AckFrameHeld ==
  ASSUME NEW self, NEW dst, NEW c \in Conn, NEW b, NEW k, Receiving(b, c, k)
  PROVE  AckOfHeld(b, AckFrame(self, dst, c), c) /\ AckFrame(self, dst, c).type = "st_state"
<1>1. \A x \in build_sack(c) : \E p \in c.ooo : x = p.seq
  BY DEF build_sack
<1>2. \A p \in c.ooo : p.completing \in Holds(b, c) /\ p.seq = SeqOf(b, p.completing)
  BY DEF Receiving, BufferFrom, Holds
<1>3. QED BY <1>1, <1>2 DEF AckOfHeld, AckFrame, header_for

LEMMA ReceiveDataAccepts ==
  ASSUME NEW self \in Peers, NEW src \in Peers, NEW c \in Conn, NEW f \in Frame,
         f.type = "st_data", NEW b \in Uint16, NEW k \in Nat, 2 * k < SeqMod,
         Receiving(b, c, k), f.completing \in 1 .. k, f.seq_nr = SeqOf(b, f.completing),
         NEW o \in receive_data(self, src, c, f)
  PROVE  /\ InOrderCount(b, c) <= InOrderCount(b, o.conn)
         /\ o.delivers = [i \in 1 .. InOrderCount(b, o.conn) - InOrderCount(b, c) |->
                            [src |-> src, payload |-> InOrderCount(b, c) + i]]
         /\ Receiving(b, o.conn, k)
         /\ Holds(b, c) \subseteq Holds(b, o.conn)
         /\ SameSender(c, o.conn)
         /\ \E ack : o.frames = <<ack>> /\ AckOfHeld(b, ack, o.conn) /\ ack.type = "st_state"
<1> DEFINE a == Accepted(c, f)
           ack == AckFrame(self, src, a.conn)
           out == [i \in 1 .. Len(a.payloads) |-> [src |-> src, payload |-> a.payloads[i]]]
<1>1. o = [conn |-> a.conn, frames |-> <<ack>>, delivers |-> out]
  BY DEF receive_data
<1>2. ReceiveStep(b, c, k, a)
  BY AcceptedSteps
<1>3. a.conn \in Conn
  BY AcceptedType
<1> HIDE DEF a
<1>4. out = [i \in 1 .. InOrderCount(b, a.conn) - InOrderCount(b, c) |->
               [src |-> src, payload |-> InOrderCount(b, c) + i]]
  BY <1>2 DEF ReceiveStep
<1>5. AckOfHeld(b, ack, a.conn) /\ ack.type = "st_state"
  BY <1>2, <1>3, AckFrameHeld DEF ReceiveStep
<1> HIDE DEF ack, out
<1>6. o.conn = a.conn /\ o.frames = <<ack>> /\ o.delivers = out
  BY <1>1
<1>7. QED BY <1>2, <1>4, <1>5, <1>6 DEF ReceiveStep

-----------------------------------------------------------------------------
(* Bags *)

LEMMA BagAdd ==
  ASSUME NEW B, IsABag(B), NEW f
  PROVE  /\ IsABag(B (+) SetToBag({f}))
         /\ BagToSet(B (+) SetToBag({f})) = BagToSet(B) \cup {f}
BY DEF IsABag, BagToSet, SetToBag, (+)

LEMMA BagRemove ==
  ASSUME NEW B, IsABag(B), NEW f
  PROVE  /\ IsABag(B (-) SetToBag({f}))
         /\ BagToSet(B (-) SetToBag({f})) \subseteq BagToSet(B)
BY DEF IsABag, BagToSet, SetToBag, (-)

LEMMA EmptyBagType == IsABag(EmptyBag) /\ BagToSet(EmptyBag) = {}
BY DEF IsABag, BagToSet, SetToBag, EmptyBag

-----------------------------------------------------------------------------
(* Type correctness *)

LEMMA InitType == Init => TypeOK
<1> SUFFICES ASSUME Init PROVE TypeOK
  OBVIOUS
<1>1. SocketTypeOK
  BY SocketInitType DEF Init
<1>2. <<>> \in Seq(Payload)
  OBVIOUS
<1>3. QED
  BY <1>1, <1>2, EmptyBagType, BoundsAssumption DEF Init, TypeOK

LEMMA AppSendKeepsType ==
  ASSUME TypeOK, NEW self \in Peers, NEW dst \in Peers, AppSend(self, dst)
  PROVE  TypeOK'
<1>1. sent[self][dst] \in Nat
  BY DEF TypeOK
<1>2. sent[self][dst] + 1 \in Payload
  BY <1>1 DEF Payload, NoPayload
<1>3. SocketTypeOK'
  BY <1>2, AppSendType DEF TypeOK, AppSend
<1>4. sent' \in [Peers -> [Peers -> Nat]]
  BY <1>1 DEF TypeOK, AppSend
<1>5. QED BY <1>3, <1>4 DEF TypeOK, AppSend

LEMMA EmitKeepsType ==
  ASSUME TypeOK, NEW self \in Peers, Emit(self)
  PROVE  TypeOK'
<1>1. SocketTypeOK'
  BY EmitFrontType DEF TypeOK, Emit
<1>2. IsABag(net') /\ BagToSet(net') \subseteq Frame
  <2>1. CASE out_frames[self] = <<>>
    BY <2>1 DEF TypeOK, Emit
  <2>2. CASE out_frames[self] # <<>>
    <3> DEFINE h == Head(out_frames[self])
    <3>1. h \in Frame
      BY <2>2, HeadTailProperties DEF TypeOK, SocketTypeOK
    <3>2. net' = net (+) SetToBag({h})
      BY <2>2 DEF Emit
    <3> HIDE DEF h
    <3>3. IsABag(net') /\ BagToSet(net') = BagToSet(net) \cup {h}
      BY <3>2, BagAdd DEF TypeOK
    <3>4. QED BY <3>1, <3>3 DEF TypeOK
  <2>3. QED BY <2>1, <2>2
<1>3. delivered' \in [Peers -> [Peers -> Seq(Payload)]]
  <2>1. CASE out_delivers[self] = <<>>
    BY <2>1 DEF TypeOK, Emit
  <2>2. CASE out_delivers[self] # <<>>
    <3> DEFINE d == Head(out_delivers[self])
    <3>1. d \in Deliver
      BY <2>2, HeadTailProperties DEF TypeOK, SocketTypeOK
    <3>2. d.src \in Peers /\ d.payload \in Payload
      BY <3>1 DEF Deliver
    <3>3. delivered[self][d.src] \in Seq(Payload)
      BY <3>2 DEF TypeOK
    <3>4. Append(delivered[self][d.src], d.payload) \in Seq(Payload)
      BY <3>2, <3>3, AppendProperties
    <3>5. delivered' = [delivered EXCEPT ![self][d.src] = Append(@, d.payload)]
      BY <2>2 DEF Emit
    <3> HIDE DEF d
    <3>6. QED BY <3>2, <3>4, <3>5 DEF TypeOK
  <2>3. QED BY <2>1, <2>2
<1>4. QED BY <1>1, <1>2, <1>3 DEF TypeOK, Emit

LEMMA ReceiveKeepsType ==
  ASSUME TypeOK, NEW f \in BagToSet(net), Arrive(f)
  PROVE  TypeOK'
<1>1. SocketTypeOK'
  BY FrameStepType DEF TypeOK, Arrive
<1>2. IsABag(net') /\ BagToSet(net') \subseteq Frame
  BY BagRemove DEF TypeOK, Arrive
<1>3. QED BY <1>1, <1>2 DEF TypeOK, Arrive

LEMMA LoseKeepsType ==
  ASSUME TypeOK, NEW f \in BagToSet(net), Lose(f)
  PROVE  TypeOK'
<1>1. IsABag(net') /\ BagToSet(net') \subseteq Frame
  BY BagRemove DEF TypeOK, Lose
<1>2. losses' \in 0 .. MaxLosses
  BY BoundsAssumption DEF TypeOK, Lose
<1>3. QED BY <1>1, <1>2 DEF TypeOK, Lose, SocketTypeOK, socketVars

LEMMA TimeoutKeepsType ==
  ASSUME TypeOK, NEW self \in Peers, Timeout(self)
  PROVE  TypeOK'
<1>1. PICK due \in SUBSET Peers : TimerExpiry(self, due)
  BY DEF Timeout
<1>2. SocketTypeOK'
  BY <1>1, TimerExpiryType DEF TypeOK
<1>3. spurious' \in 0 .. MaxSpurious
  BY BoundsAssumption DEF TypeOK, Timeout
<1>4. QED BY <1>2, <1>3 DEF TypeOK, Timeout

LEMMA NextKeepsType == TypeOK /\ [Next]_vars => TypeOK'
<1> SUFFICES ASSUME TypeOK, [Next]_vars PROVE TypeOK'
  OBVIOUS
<1>1. CASE \E self, dst \in Peers : AppSend(self, dst)
  BY <1>1, AppSendKeepsType
<1>2. CASE \E self \in Peers : Emit(self)
  BY <1>2, EmitKeepsType
<1>3. CASE \E self \in Peers : Receive(self)
  BY <1>3, ReceiveKeepsType DEF Receive
<1>4. CASE \E self \in Peers : Timeout(self)
  BY <1>4, TimeoutKeepsType
<1>5. CASE \E f \in BagToSet(net) : Lose(f)
  BY <1>5, LoseKeepsType
<1>6. CASE UNCHANGED vars
  BY <1>6 DEF TypeOK, SocketTypeOK, vars, socketVars
<1>7. QED BY <1>1, <1>2, <1>3, <1>4, <1>5, <1>6 DEF Next

\* Every variable keeps its type, whatever the traffic: sequence numbers,
\* acknowledgements and connection ids stay 16-bit, and every frame queued,
\* under way or answered is one of the packet types the socket handles.
THEOREM TypeCorrect == Spec => []TypeOK
BY InitType, NextKeepsType, PTL DEF Spec

-----------------------------------------------------------------------------
(* The handshake with one opener per pair *)

Opened(p, q) == p \in Openers /\ q \notin Openers

\* An entry belongs to the peer that opens or to the one that accepts; an
\* accepting entry, and an established one, have their counterpart.
ConnOK(p, q) ==
  HasConn(p, q) =>
    LET c == conns[p][q] d == conns[q][p]
    IN  \/ /\ Opened(p, q) /\ c.state \in {"syn_sent", "connected"}
           /\ c.conn_id_send = Plus(c.conn_id_recv, 1)
           /\ c.state = "connected" => HasConn(q, p)
        \/ /\ Opened(q, p) /\ c.state \in {"syn_recv", "connected"}
           /\ HasConn(q, p)
           /\ c.conn_id_send = d.conn_id_recv /\ c.conn_id_recv = d.conn_id_send

\* A frame is a SYN of the opener's only attempt, or belongs to the stream
\* both ends have an entry for.
FrameOK(f) ==
  /\ HasConn(f.src, f.dst)
  /\ LET c == conns[f.src][f.dst]
     IN  \/ /\ f.type = "st_syn" /\ Opened(f.src, f.dst)
            /\ f.connection_id = c.conn_id_recv
         \/ /\ f.type \in {"st_state", "st_data"} /\ HasConn(f.dst, f.src)
            /\ f.connection_id = c.conn_id_send

\* HandshakeAgreement is not inductive: that a connected entry has a peer and
\* that no reset is ever sent rest on the ids of the frames under way.
Handshake ==
  /\ \A p, q \in Peers : ConnOK(p, q)
  /\ \A f \in Frames : FrameOK(f)

LEMMA QueueFrames ==
  ASSUME TypeOK, NEW self \in Peers, NEW S, NEW frames \in Seq(S), Queue(self, frames),
         BagToSet(net') \subseteq BagToSet(net)
  PROVE  Frames' \subseteq Frames \cup S
<1> DEFINE q == out_frames[self]
<1>1. q \in Seq(Frame) /\ q \in Seq(Frame \cup S) /\ frames \in Seq(Frame \cup S)
  BY SeqMonotonic DEF TypeOK, SocketTypeOK
<1>2. ASSUME NEW i \in DOMAIN (q \o frames)
      PROVE  (q \o frames)[i] \in {q[j] : j \in DOMAIN q} \cup S
  <2>1. /\ Len(q) \in Nat /\ Len(frames) \in Nat /\ DOMAIN q = 1 .. Len(q)
        /\ \A j \in 1 .. Len(frames) : frames[j] \in S
    BY <1>1, LenProperties, ElementOfSeq
  <2>2. DOMAIN (q \o frames) = 1 .. Len(q) + Len(frames)
    BY <1>1, ConcatProperties, LenProperties
  <2>3. (q \o frames)[i] = IF i <= Len(q) THEN q[i] ELSE frames[i - Len(q)]
    BY <1>1, <2>2, ConcatProperties
  <2>4. i \in Nat /\ (i <= Len(q) => i \in DOMAIN q)
        /\ (~(i <= Len(q)) => i - Len(q) \in 1 .. Len(frames))
    BY <2>1, <2>2
  <2>5. QED BY <2>1, <2>3, <2>4
<1>3. ASSUME NEW p \in Peers, NEW i \in DOMAIN out_frames'[p]
      PROVE  out_frames'[p][i] \in Frames \cup S
  <2>1. CASE p = self
    <3>1. out_frames'[p] = q \o frames
      BY <2>1 DEF Queue, TypeOK, SocketTypeOK
    <3>2. QED BY <1>2, <3>1 DEF Frames
  <2>2. CASE p # self
    <3>1. out_frames'[p] = out_frames[p]
      BY <2>2 DEF Queue, TypeOK, SocketTypeOK
    <3>2. QED BY <3>1 DEF Frames
  <2>3. QED BY <2>1, <2>2
<1>4. QED BY <1>3 DEF Frames

LEMMA EmitFrames ==
  ASSUME TypeOK, NEW self \in Peers, Emit(self)
  PROVE  Frames' \subseteq Frames
<1> DEFINE q == out_frames[self]
<1>1. q \in Seq(Frame)
  BY DEF TypeOK, SocketTypeOK
<1>2. CASE q = <<>>
  <2>1. PopFront(q) = q
    BY <1>2 DEF PopFront
  <2>2. out_frames' = out_frames /\ net' = net
    BY <1>2, <2>1 DEF Emit, EmitFront, TypeOK, SocketTypeOK
  <2>3. QED BY <2>2 DEF Frames
<1>3. CASE q # <<>>
  <2>1. Head(q) \in Frames
    <3>1. 1 \in DOMAIN q /\ Head(q) = q[1]
      BY <1>1, <1>3, EmptySeq, LenProperties
    <3>2. QED BY <3>1 DEF Frames
  <2>2. BagToSet(net') = BagToSet(net) \cup {Head(q)}
    BY <1>3, BagAdd DEF Emit, TypeOK
  <2>3. \A i \in DOMAIN Tail(q) : Tail(q)[i] \in Frames
    <3>1. SUFFICES ASSUME NEW i \in DOMAIN Tail(q) PROVE Tail(q)[i] \in Frames
      OBVIOUS
    <3>2. Len(q) \in Nat /\ DOMAIN q = 1 .. Len(q) /\ Len(Tail(q)) = Len(q) - 1
          /\ Tail(q) \in Seq(Frame)
      BY <1>1, <1>3, LenProperties, HeadTailProperties
    <3>3. i \in 1 .. Len(q) - 1
      BY <3>2, LenProperties
    <3>4. Tail(q)[i] = q[i + 1] /\ i + 1 \in DOMAIN q
      BY <1>1, <1>3, <3>2, <3>3, HeadTailProperties
    <3>5. QED BY <3>4 DEF Frames
  <2>4. \A p \in Peers : out_frames'[p] = IF p = self THEN Tail(q) ELSE out_frames[p]
    BY <1>3 DEF Emit, EmitFront, PopFront, TypeOK, SocketTypeOK
  <2>5. ASSUME NEW p \in Peers, NEW i \in DOMAIN out_frames'[p]
        PROVE  out_frames'[p][i] \in Frames
    <3>1. CASE p = self
      BY <2>3, <2>4, <3>1
    <3>2. CASE p # self
      <4>1. out_frames'[p] = out_frames[p]
        BY <2>4, <3>2
      <4>2. QED BY <4>1 DEF Frames
    <3>3. QED BY <3>1, <3>2
  <2>6. BagToSet(net') \subseteq Frames
    BY <2>1, <2>2 DEF Frames
  <2>7. QED BY <2>5, <2>6 DEF Frames
<1>4. QED BY <1>2, <1>3

\* Every entry stays, with its ids.
Grow == \A p, q \in Peers : HasConn(p, q) =>
          /\ HasConn(p, q)'
          /\ conns'[p][q].conn_id_send = conns[p][q].conn_id_send
          /\ conns'[p][q].conn_id_recv = conns[p][q].conn_id_recv

LEMMA FramesType == TypeOK => Frames \subseteq Frame
<1> SUFFICES ASSUME TypeOK, NEW p \in Peers, NEW i \in DOMAIN out_frames[p]
             PROVE  out_frames[p][i] \in Frame
  BY DEF Frames, TypeOK
<1>1. out_frames[p] \in Seq(Frame)
  BY DEF TypeOK, SocketTypeOK
<1>2. QED BY <1>1, LenProperties, ElementOfSeq

LEMMA FrameOKGrows ==
  ASSUME TypeOK, NEW f \in Frames, FrameOK(f), Grow
  PROVE  FrameOK(f)'
<1>1. f.src \in Peers /\ f.dst \in Peers
  BY FramesType DEF Frame
<1>2. QED BY <1>1 DEF FrameOK, Grow, Opened

\* The two ends of a stream have crossed ids.
LEMMA CrossedIds ==
  ASSUME Handshake, NEW p \in Peers, NEW q \in Peers, HasConn(p, q), HasConn(q, p)
  PROVE  conns[p][q].conn_id_send = conns[q][p].conn_id_recv
<1>1. ConnOK(p, q) /\ ConnOK(q, p)
  BY DEF Handshake
<1>2. QED BY <1>1 DEF ConnOK, Opened

LEMMA ConnsInPlace ==
  ASSUME TypeOK, Handshake, NEW self \in Peers, NEW remote \in Peers, HasConn(self, remote),
         NEW c1 \in Conn, SetConn(self, remote, c1),
         c1.conn_id_send = conns[self][remote].conn_id_send,
         c1.conn_id_recv = conns[self][remote].conn_id_recv,
         \/ c1.state = conns[self][remote].state
         \/ c1.state = "connected" /\ HasConn(remote, self)
  PROVE  Grow /\ \A p, q \in Peers : ConnOK(p, q)'
<1>1. \A p, q \in Peers : conns'[p][q] = IF p = self /\ q = remote THEN c1 ELSE conns[p][q]
  BY DEF SetConn, TypeOK, SocketTypeOK
<1>2. c1 # NoConn
  BY DEF Conn, NoConn
<1>3. Grow
  BY <1>1, <1>2 DEF Grow, HasConn
<1>4. ASSUME NEW p \in Peers, NEW q \in Peers
      PROVE  ConnOK(p, q)'
  <2>1. ConnOK(p, q)
    BY DEF Handshake
  <2>2. CASE HasConn(p, q)
    <3>1. \/ conns'[p][q].state = conns[p][q].state
          \/ conns'[p][q].state = "connected" /\ HasConn(q, p)
      BY <1>1
    <3>2. QED BY <2>1, <2>2, <1>3, <3>1 DEF ConnOK, Grow, Opened
  <2>3. CASE ~HasConn(p, q)
    <3>1. ~HasConn(p, q)'
      BY <1>1, <2>3 DEF HasConn
    <3>2. QED BY <3>1 DEF ConnOK
  <2>4. QED BY <2>2, <2>3
<1>5. QED BY <1>3, <1>4

\* A step that changes a connection in place and sends on its stream.
LEMMA StreamStepKeeps ==
  ASSUME TypeOK, Handshake, NEW self \in Peers, NEW remote \in Peers,
         HasConn(self, remote), HasConn(remote, self),
         NEW st, st \in {conns[self][remote].state, "connected"},
         StreamStep(self, remote, st), BagToSet(net') \subseteq BagToSet(net)
  PROVE  Handshake'
<1> DEFINE SF == StreamFrame(self, remote, conns[self][remote])
<1>1. PICK c1 \in Conn, frames \in Seq(SF) :
        /\ SetConn(self, remote, c1)
        /\ Queue(self, frames)
        /\ c1.state = st
        /\ c1.conn_id_send = conns[self][remote].conn_id_send
        /\ c1.conn_id_recv = conns[self][remote].conn_id_recv
  BY DEF StreamStep
<1>2. Grow /\ \A p, q \in Peers : ConnOK(p, q)'
  BY <1>1, ConnsInPlace
<1>3. Frames' \subseteq Frames \cup SF
  BY <1>1, QueueFrames
<1>4. ASSUME NEW f \in SF PROVE FrameOK(f)'
  <2>1. f.src = self /\ f.dst = remote /\ f.connection_id = conns[self][remote].conn_id_send
        /\ f.type \in {"st_state", "st_data"}
    BY DEF StreamFrame
  <2>2. QED BY <2>1, <1>2 DEF FrameOK, Grow
<1>5. \A f \in Frames : FrameOK(f)'
  BY <1>2, FrameOKGrows DEF Handshake
<1>6. QED BY <1>2, <1>3, <1>4, <1>5 DEF Handshake

\* A step that leaves the connections alone.
LEMMA SameConnsKeeps ==
  ASSUME TypeOK, Handshake, UNCHANGED conns,
         \A f \in Frames' : f \in Frames \/ FrameOK(f)
  PROVE  Handshake'
<1>1. \A p, q \in Peers : ConnOK(p, q)'
  BY DEF Handshake, ConnOK, HasConn, Opened
<1>2. \A f \in Frames' : FrameOK(f)'
  BY DEF Handshake, FrameOK, HasConn, Opened
<1>3. QED BY <1>1, <1>2 DEF Handshake

LEMMA AppSendKeepsHandshake ==
  ASSUME TypeOK, Handshake, OneOpener,
         NEW self \in Peers, NEW dst \in Peers, AppSend(self, dst)
  PROVE  Handshake'
<1> DEFINE payload == sent[self][dst] + 1
<1>1. payload \in Payload /\ SocketTypeOK
  BY DEF TypeOK, Payload, NoPayload
<1>2. net' = net /\ self # dst /\ (self \in Openers \/ HasLiveConn(self, dst))
      /\ handle_app_send(self, dst, payload)
  BY DEF AppSend
<1> HIDE DEF payload
<1>3. ConnOK(self, dst) /\ ConnOK(dst, self)
  BY DEF Handshake
<1>4. CASE AppSendOpens(self, dst, payload)
  <2> DEFINE c1 == [open_initiator(self) EXCEPT !.pending = <<payload>>]
  <2>0. PICK s : s = SynFrame(self, dst, open_initiator(self))
    OBVIOUS
  <2>1. ~HasConn(self, dst)
    BY <1>3, <1>4 DEF AppSendOpens, HasLiveConn, ConnOK
  <2>2. Opened(self, dst)
    BY <1>2, <2>1 DEF OneOpener, Opened, HasLiveConn
  <2>3. ~HasConn(dst, self)
    BY <1>3, <2>1, <2>2 DEF ConnOK, Opened
  <2>4. /\ c1 \in Conn /\ c1.state = "syn_sent"
        /\ c1.conn_id_send = Plus(c1.conn_id_recv, 1)
        /\ s.src = self /\ s.dst = dst /\ s.type = "st_syn" /\ s.connection_id = c1.conn_id_recv
    BY <1>1, <2>0, OpenInitiatorType DEF open_initiator, SynFrame
  <2>5. SetConn(self, dst, c1) /\ Queue(self, <<s>>)
    BY <1>4, <2>0 DEF AppSendOpens
  <2>6. Frames' \subseteq Frames \cup {s}
    <3>1. <<s>> \in Seq({s})
      OBVIOUS
    <3>2. QED BY <1>2, <2>5, <3>1, QueueFrames
  <2> HIDE DEF c1
  <2>7. \A p, q \in Peers : conns'[p][q] = IF p = self /\ q = dst THEN c1 ELSE conns[p][q]
    BY <2>5 DEF SetConn, TypeOK, SocketTypeOK
  <2>8. c1 # NoConn
    BY <2>4 DEF NoConn, Conn
  <2>9. Grow
    BY <2>1, <2>7, <2>8 DEF Grow, HasConn
  <2>10. ASSUME NEW p \in Peers, NEW q \in Peers PROVE ConnOK(p, q)'
    <3>1. CASE p = self /\ q = dst
      BY <2>2, <2>4, <2>7, <3>1 DEF ConnOK, Opened
    <3>2. CASE ~(p = self /\ q = dst)
      <4>1. conns'[p][q] = conns[p][q] /\ ConnOK(p, q)
        BY <2>7, <3>2 DEF Handshake
      <4>2. QED BY <2>9, <4>1 DEF ConnOK, Grow, HasConn, Opened
    <3>3. QED BY <3>1, <3>2
  <2>11. FrameOK(s)'
    BY <2>2, <2>4, <2>7, <2>8 DEF FrameOK, HasConn, Opened
  <2>12. \A f \in Frames : FrameOK(f)'
    BY <2>9, FrameOKGrows DEF Handshake
  <2>13. QED BY <2>6, <2>10, <2>11, <2>12 DEF Handshake
<1>5. CASE AppSendWaits(self, dst, payload)
  <2> DEFINE c  == conns[self][dst]
             c1 == [c EXCEPT !.pending = Append(@, payload)]
  <2>1. c \in Conn /\ HasConn(self, dst)
    BY <1>1, <1>5, ConnType DEF AppSendWaits, HasLiveConn
  <2>2. c1 \in Conn /\ c1.state = c.state
        /\ c1.conn_id_send = c.conn_id_send /\ c1.conn_id_recv = c.conn_id_recv
    BY <1>1, <2>1, AppendPendingType
  <2>3. SetConn(self, dst, c1) /\ out_frames' = out_frames
    BY <1>5 DEF AppSendWaits
  <2> HIDE DEF c1
  <2>4. Grow /\ \A p, q \in Peers : ConnOK(p, q)'
    BY <2>1, <2>2, <2>3, ConnsInPlace
  <2>5. Frames' = Frames
    BY <1>2, <2>3 DEF Frames
  <2>6. \A f \in Frames : FrameOK(f)'
    BY <2>4, FrameOKGrows DEF Handshake
  <2>7. QED BY <2>4, <2>5, <2>6 DEF Handshake
<1>6. CASE AppSendConnected(self, dst, payload)
  <2>1. HasConn(self, dst) /\ conns[self][dst].state = "connected"
    BY <1>6 DEF AppSendConnected
  <2>2. HasConn(dst, self)
    BY <1>3, <2>1 DEF ConnOK
  <2>3. StreamStep(self, dst, "connected")
    BY <1>1, <1>6, AppSendConnectedStep
  <2>4. QED BY <1>2, <2>1, <2>2, <2>3, StreamStepKeeps
<1>7. QED BY <1>2, <1>4, <1>5, <1>6 DEF handle_app_send

LEMMA ReceiveKeepsHandshake ==
  ASSUME TypeOK, Handshake, OneOpener, NEW f \in BagToSet(net), Arrive(f)
  PROVE  Handshake'
<1> DEFINE self == f.dst
           c    == conns[self][f.src]
<1>1. f \in Frame /\ f \in Frames /\ f.src \in Peers /\ self \in Peers /\ SocketTypeOK
  BY DEF TypeOK, Frames, Frame
<1>2. BagToSet(net') \subseteq BagToSet(net)
  BY BagRemove DEF TypeOK, Arrive
<1>3. FrameOK(f) /\ ConnOK(self, f.src) /\ ConnOK(f.src, self)
  BY <1>1 DEF Handshake
<1>4. HasConn(f.src, self)
  BY <1>3 DEF FrameOK
<1>5. f.type \in {"st_state", "st_data"} => HasConn(self, f.src) /\ Matching(self, f)
  <2>1. SUFFICES ASSUME f.type \in {"st_state", "st_data"}
                 PROVE  HasConn(self, f.src) /\ Matching(self, f)
    OBVIOUS
  <2>2. HasConn(self, f.src) /\ f.connection_id = conns[f.src][self].conn_id_send
    BY <1>3, <2>1 DEF FrameOK
  <2>3. conns[f.src][self].conn_id_send = c.conn_id_recv
    BY <1>1, <1>4, <2>2, CrossedIds
  <2>4. QED BY <2>2, <2>3 DEF Matching
<1>6. CASE AcceptNewSyn(self, f)
  <2> DEFINE c1 == SynRecvConn(f)
             h  == header_for(self, f.src, c1, "st_state")
             d  == conns[f.src][self]
  <2>1. /\ Opened(f.src, self) /\ f.connection_id = d.conn_id_recv
        /\ ~IsRetransmitOfCurrent(self, f)
    BY <1>3, <1>6 DEF FrameOK, AcceptNewSyn
  <2>2. ~HasConn(self, f.src)
    BY <1>3, <2>1 DEF ConnOK, Opened, IsRetransmitOfCurrent, HasLiveConn
  <2>3. d.conn_id_send = Plus(d.conn_id_recv, 1) /\ d.state \in {"syn_sent", "connected"}
    BY <1>3, <1>4, <2>1 DEF ConnOK, Opened
  <2>4. /\ c1 \in Conn /\ c1.state = "syn_recv"
        /\ c1.conn_id_send = d.conn_id_recv /\ c1.conn_id_recv = d.conn_id_send
    BY <1>1, <2>1, <2>3, SynRecvConnType DEF SynRecvConn
  <2>5. h \in StreamFrame(self, f.src, c1)
    BY <1>1, <2>4, HeaderType
  <2>6. SetConn(self, f.src, c1) /\ Queue(self, <<h>>)
    BY <1>6 DEF AcceptNewSyn, SynRecvConn
  <2> HIDE DEF c1, h
  <2>7. Frames' \subseteq Frames \cup {h}
    <3>1. <<h>> \in Seq({h})
      OBVIOUS
    <3>2. QED BY <1>1, <1>2, <2>6, <3>1, QueueFrames
  <2>8. \A p, q \in Peers : conns'[p][q] = IF p = self /\ q = f.src THEN c1 ELSE conns[p][q]
    BY <1>1, <2>6 DEF SetConn, TypeOK, SocketTypeOK
  <2>9. c1 # NoConn
    BY <2>4 DEF NoConn, Conn
  <2>10. Grow
    BY <2>2, <2>8, <2>9 DEF Grow, HasConn
  <2>11. f.src # self
    BY <2>1 DEF Opened
  <2>12. ASSUME NEW p \in Peers, NEW q \in Peers PROVE ConnOK(p, q)'
    <3>1. CASE p = self /\ q = f.src
      <4>1. conns'[p][q] = c1 /\ conns'[q][p] = d /\ HasConn(q, p)'
        BY <1>1, <1>4, <2>8, <2>11, <3>1 DEF HasConn
      <4>2. QED BY <2>1, <2>4, <3>1, <4>1 DEF ConnOK, Opened
    <3>2. CASE ~(p = self /\ q = f.src)
      <4>1. conns'[p][q] = conns[p][q] /\ ConnOK(p, q)
        BY <2>8, <3>2 DEF Handshake
      <4>2. QED BY <2>10, <4>1 DEF ConnOK, Grow, HasConn, Opened
    <3>3. QED BY <3>1, <3>2
  <2>13. FrameOK(h)'
    <3>1. h.src = self /\ h.dst = f.src /\ h.connection_id = c1.conn_id_send
          /\ h.type \in {"st_state", "st_data"}
      BY <2>5 DEF StreamFrame
    <3>2. conns'[self][f.src] = c1 /\ HasConn(self, f.src)' /\ HasConn(f.src, self)'
      BY <1>1, <1>4, <2>8, <2>9, <2>10 DEF Grow, HasConn
    <3>3. QED BY <3>1, <3>2 DEF FrameOK
  <2>14. \A g \in Frames : FrameOK(g)'
    BY <2>10, FrameOKGrows DEF Handshake
  <2>15. QED BY <2>7, <2>12, <2>13, <2>14 DEF Handshake
<1>7. CASE AcceptSynAgain(self, f)
  <2> DEFINE h == header_for(self, f.src, c, "st_state")
  <2>1. HasConn(self, f.src) /\ Queue(self, <<h>>) /\ UNCHANGED conns
    BY <1>7 DEF AcceptSynAgain, IsRetransmitOfCurrent, HasLiveConn
  <2>2. h \in StreamFrame(self, f.src, c)
    BY <1>1, <2>1, ConnType, HeaderType
  <2> HIDE DEF h
  <2>3. FrameOK(h)
    BY <1>4, <2>1, <2>2 DEF StreamFrame, FrameOK
  <2>4. <<h>> \in Seq({h})
    OBVIOUS
  <2>5. Frames' \subseteq Frames \cup {h}
    BY <1>1, <1>2, <2>1, <2>4, QueueFrames
  <2>6. QED BY <2>1, <2>3, <2>5, SameConnsKeeps
<1>8. ~RejectForeign(self, f) /\ ~IgnoreForeignReset(self, f) /\ ~ReceiveReset(self, f)
  BY <1>3, <1>5 DEF FrameOK, RejectForeign, IgnoreForeignReset, ReceiveReset
<1>9. CASE ReceiveSynAck(self, f)
  <2>1. HasConn(self, f.src)
    BY <1>9 DEF ReceiveSynAck, Matching
  <2>2. StreamStep(self, f.src, "connected")
    BY <1>1, <1>9, ReceiveSynAckStep
  <2>3. QED BY <1>1, <1>2, <1>4, <2>1, <2>2, StreamStepKeeps
<1>10. CASE ReceiveState(self, f)
  <2>1. HasConn(self, f.src)
    BY <1>10 DEF ReceiveState, Matching
  <2>2. StreamStep(self, f.src, c.state)
    BY <1>1, <1>10, ReceiveStateStep
  <2>3. QED BY <1>1, <1>2, <1>4, <2>1, <2>2, StreamStepKeeps
<1>11. CASE ReceiveData(self, f)
  <2>1. HasConn(self, f.src)
    BY <1>11 DEF ReceiveData, Matching
  <2>2. StreamStep(self, f.src, AfterData(c))
    BY <1>1, <1>11, ReceiveDataStep
  <2>3. AfterData(c) \in {c.state, "connected"}
    BY DEF AfterData
  <2>4. QED BY <1>1, <1>2, <1>4, <2>1, <2>2, <2>3, StreamStepKeeps
<1>12. QED
  BY <1>6, <1>7, <1>8, <1>9, <1>10, <1>11 DEF Arrive, handle_frame

LEMMA TimeoutKeepsHandshake ==
  ASSUME TypeOK, Handshake, NEW self \in Peers, Timeout(self)
  PROVE  Handshake'
<1>1. PICK due \in SUBSET Peers : TimerExpiry(self, due)
  BY DEF Timeout
<1> DEFINE S == {TimeoutFrame(self, r) : r \in due}
<1>2. PICK frames \in Seq(S) : Queue(self, frames)
  BY <1>1, TimerExpiryStep DEF TypeOK
<1>3. net' = net /\ UNCHANGED conns
  BY <1>1 DEF Timeout, TimerExpiry
<1>4. Frames' \subseteq Frames \cup S
  BY <1>2, <1>3, QueueFrames
<1>5. ASSUME NEW r \in due PROVE FrameOK(TimeoutFrame(self, r))
  <2> DEFINE c == conns[self][r]
             g == TimeoutFrame(self, r)
  <2>1. timer_armed(self, r) /\ HasConn(self, r) /\ r \in Peers
    BY <1>1 DEF TimerExpiry, timer_armed
  <2>2. ConnOK(self, r)
    BY <2>1 DEF Handshake
  <2>3. \/ c.state = "syn_sent" /\ g = SynFrame(self, r, c)
        \/ c.state # "syn_sent" /\ g \in StreamFrame(self, r, c)
    BY <2>1, TimeoutFrameType DEF TypeOK
  <2>4. CASE c.state = "syn_sent" /\ g = SynFrame(self, r, c)
    <3>1. g.src = self /\ g.dst = r /\ g.type = "st_syn" /\ g.connection_id = c.conn_id_recv
      BY <2>4 DEF SynFrame
    <3>2. Opened(self, r)
      BY <2>1, <2>2, <2>4 DEF ConnOK
    <3>3. QED BY <2>1, <3>1, <3>2 DEF FrameOK
  <2>5. CASE c.state # "syn_sent" /\ g \in StreamFrame(self, r, c)
    <3>1. HasConn(r, self)
      BY <2>1, <2>2, <2>5 DEF ConnOK
    <3>2. QED BY <2>1, <2>5, <3>1 DEF FrameOK, StreamFrame
  <2>6. QED BY <2>3, <2>4, <2>5
<1>6. QED BY <1>3, <1>4, <1>5, SameConnsKeeps

LEMMA NextKeepsHandshake ==
  ASSUME TypeOK, Handshake, OneOpener, [Next]_vars
  PROVE  Handshake'
<1>1. CASE \E self, dst \in Peers : AppSend(self, dst)
  BY <1>1, AppSendKeepsHandshake
<1>2. CASE \E self \in Peers : Emit(self)
  <2>1. Frames' \subseteq Frames /\ UNCHANGED conns
    BY <1>2, EmitFrames DEF Emit, EmitFront
  <2>2. QED BY <2>1, SameConnsKeeps
<1>3. CASE \E self \in Peers : Receive(self)
  BY <1>3, ReceiveKeepsHandshake DEF Receive
<1>4. CASE \E self \in Peers : Timeout(self)
  BY <1>4, TimeoutKeepsHandshake
<1>5. CASE \E f \in BagToSet(net) : Lose(f)
  <2>1. BagToSet(net') \subseteq BagToSet(net)
    BY <1>5, BagRemove DEF Lose, TypeOK
  <2>2. UNCHANGED <<conns, out_frames>>
    BY <1>5 DEF Lose, socketVars
  <2>3. Frames' \subseteq Frames
    BY <2>1, <2>2 DEF Frames
  <2>4. QED BY <2>2, <2>3, SameConnsKeeps
<1>6. CASE UNCHANGED vars
  <2>1. Frames' \subseteq Frames /\ UNCHANGED conns
    BY <1>6 DEF vars, socketVars, Frames
  <2>2. QED BY <2>1, SameConnsKeeps
<1>7. QED BY <1>1, <1>2, <1>3, <1>4, <1>5, <1>6 DEF Next

LEMMA InitHandshake ==
  ASSUME Init
  PROVE  Handshake
<1>1. \A p, q \in Peers : ~HasConn(p, q)
  BY DEF Init, SocketInit, HasConn
<1>2. Frames = {}
  BY EmptyBagType DEF Init, SocketInit, Frames
<1>3. QED BY <1>1, <1>2 DEF Handshake, ConnOK

LEMMA HandshakeImpliesAgreement ==
  ASSUME Handshake
  PROVE  HandshakeAgreement
<1>1. \A f \in Frames : f.type # "st_reset"
  BY DEF Handshake, FrameOK
<1>2. ASSUME NEW p \in Peers, NEW q \in Peers
      PROVE  /\ HasConn(p, q) => conns[p][q].state # "closed"
             /\ HasConn(p, q) /\ conns[p][q].state = "connected" => HasConn(q, p)
  BY DEF Handshake, ConnOK
<1>3. QED BY <1>1, <1>2, CrossedIds DEF HandshakeAgreement

\* With one opener per pair, no frame is ever answered by a reset, no
\* connection is closed or replaced, and the two ends keep crossed ids,
\* however many payloads, losses, reorderings and spurious timeouts there are.
THEOREM HandshakeAgrees == ASSUME OneOpener PROVE Spec => []HandshakeAgreement
<1>1. Init => TypeOK /\ Handshake
  BY InitType, InitHandshake
<1>2. TypeOK /\ Handshake /\ [Next]_vars => (TypeOK /\ Handshake)'
  BY NextKeepsType, NextKeepsHandshake
<1>3. TypeOK /\ Handshake => HandshakeAgreement
  BY HandshakeImpliesAgreement
<1>4. QED BY <1>1, <1>2, <1>3, PTL DEF Spec

-----------------------------------------------------------------------------
(* The streams of a pair: what the sender has numbered, what the receiver    *)
(* holds, and what the packets under way say of both                         *)

\* The number of the first packet p sends: that of an opener or an acceptor.
FirstSeq(p) == IF p \in Openers THEN 2 ELSE AcceptorSeq0

\* q knows the numbers of p's stream: only the acceptor's answer tells them
\* to the opener.
Synced(q, p) == HasConn(q, p) /\ conns[q][p].state # "syn_sent"

\* The packets of p that q has received in order, the payloads of p that q
\* holds, and the payloads p has numbered for q.
Rcvd(p, q)  == IF Synced(q, p) THEN InOrderCount(FirstSeq(p), conns[q][p]) ELSE 0
Held(p, q)  == IF Synced(q, p) THEN Holds(FirstSeq(p), conns[q][p]) ELSE {}
Total(p, q) == IF HasConn(p, q) THEN Numbered(conns[p][q], sent[p][q]) ELSE 0

Sends(p, q) ==
  /\ sent[p][q] <= MaxSend[p]
  /\ ~HasConn(p, q) => sent[p][q] = 0
  /\ HasConn(p, q) =>
       /\ Numbering(FirstSeq(p), conns[p][q], sent[p][q])
       /\ conns[p][q].state \in {"syn_sent", "syn_recv"} => Total(p, q) = 0

Receives(p, q) ==
  /\ Synced(q, p) => Receiving(FirstSeq(p), conns[q][p], Total(p, q))
  /\ HasConn(q, p) /\ ~Synced(q, p) => conns[q][p].ooo = {}

\* A numbered payload is held by the receiver or still in flight.
Retains(p, q) ==
  \A n \in 1 .. Total(p, q) : n \in Held(p, q) \/ Contains(conns[p][q].inflight, n)

\* What was delivered and what waits to be, in order, is what was received.
HandsOver(done, out, p, n) ==
  /\ Len(done) <= n
  /\ \A i \in 1 .. Len(done) : done[i] = i
  /\ \A i \in 1 .. Len(out) : out[i].src = p => out[i].payload \in Len(done) + 1 .. n
  /\ \A m \in Len(done) + 1 .. n :
       \E i \in 1 .. Len(out) : out[i].src = p /\ out[i].payload = m
  /\ \A i, j \in 1 .. Len(out) :
       i < j /\ out[i].src = p /\ out[j].src = p => out[i].payload < out[j].payload

Hands(p, q) == HandsOver(delivered[q][p], out_delivers[q], p, Rcvd(p, q))

\* While the opener waits for the answer, the acceptor has sent nothing else.
Waits(p, q) ==
  HasConn(p, q) /\ ~Synced(p, q) /\ HasConn(q, p) => conns[q][p].state = "syn_recv"

\* A packet of a stream acknowledges only what its sender holds, and carries
\* the payload of its number.
PacketOK(f) ==
  /\ f.type = "st_syn" => f.seq_nr = 1
  /\ f.type \in {"st_state", "st_data"} =>
       /\ Synced(f.src, f.dst)
       /\ \E m \in 0 .. Rcvd(f.dst, f.src) : f.ack_nr = SeqOf(FirstSeq(f.dst), m)
       /\ \A x \in f.sack : \E n \in Held(f.dst, f.src) : x = SeqOf(FirstSeq(f.dst), n)
       /\ ~Synced(f.dst, f.src) => f.seq_nr = FirstSeq(f.src)
  /\ f.type = "st_data" =>
       /\ f.completing \in 1 .. Total(f.src, f.dst)
       /\ f.seq_nr = SeqOf(FirstSeq(f.src), f.completing)

Pair(p, q) == Sends(p, q) /\ Receives(p, q) /\ Retains(p, q) /\ Hands(p, q) /\ Waits(p, q)

Streams ==
  /\ \A p, q \in Peers : Pair(p, q)
  /\ \A f \in Frames : PacketOK(f)

\* A stream is shorter than half the range of the numbers.  The model bounds
\* neither the window nor the delay of a packet: a longer stream could have two
\* packets of one number under way, which seq_diff does not tell apart.
Fits == \A p \in Peers : 2 * MaxSend[p] < SeqMod

LEMMA FirstSeqType == ASSUME NEW p PROVE FirstSeq(p) \in Uint16
BY SeqModAssumption, AcceptorAssumption DEF FirstSeq, Uint16

\* The facts about one pair that the proofs below keep needing.
LEMMA PairFacts ==
  ASSUME TypeOK, Fits, NEW p \in Peers, NEW q \in Peers, Pair(p, q)
  PROVE  /\ sent[p][q] \in Nat /\ 2 * sent[p][q] < SeqMod
         /\ Total(p, q) \in Nat /\ Total(p, q) <= sent[p][q] /\ 2 * Total(p, q) < SeqMod
         /\ Rcvd(p, q) \in Nat /\ Rcvd(p, q) <= Total(p, q)
         /\ Held(p, q) \subseteq 1 .. Total(p, q)
         /\ \A n \in 1 .. Rcvd(p, q) : n \in Held(p, q)
<1>1. sent[p][q] \in Nat /\ 2 * sent[p][q] < SeqMod
  <2>1. sent[p][q] \in Nat /\ MaxSend[p] \in Nat /\ sent[p][q] <= MaxSend[p]
    BY BoundsAssumption DEF TypeOK, Pair, Sends
  <2>2. 2 * MaxSend[p] < SeqMod
    BY DEF Fits
  <2>3. QED BY <2>1, <2>2, SeqModAssumption
<1>2. Total(p, q) \in Nat /\ Total(p, q) <= sent[p][q]
  <2>1. CASE HasConn(p, q)
    <3>1. conns[p][q] \in Conn
      BY <2>1, ConnType DEF TypeOK
    <3>2. Len(conns[p][q].pending) \in Nat
      BY <3>1, LenProperties DEF Conn
    <3>3. Len(conns[p][q].pending) <= sent[p][q]
      BY <2>1 DEF Pair, Sends, Numbering
    <3>4. Total(p, q) = sent[p][q] - Len(conns[p][q].pending)
      BY <2>1 DEF Total, Numbered
    <3>5. QED BY <1>1, <3>2, <3>3, <3>4
  <2>2. CASE ~HasConn(p, q)
    BY <1>1, <2>2 DEF Total
  <2>3. QED BY <2>1, <2>2
<1>3. CASE Synced(q, p)
  <2> DEFINE d == conns[q][p]
             b == FirstSeq(p)
  <2>1. d \in Conn /\ b \in Uint16
    BY <1>3, ConnType, FirstSeqType DEF TypeOK, Synced
  <2>2. d.ack_nr \in Uint16
    BY <2>1 DEF Conn
  <2>3. InOrderCount(b, d) \in Nat
    BY <2>1, <2>2, IndexOfType DEF InOrderCount
  <2>4. Rcvd(p, q) = InOrderCount(b, d) /\ Held(p, q) = Holds(b, d)
    BY <1>3 DEF Rcvd, Held
  <2>5. /\ InOrderCount(b, d) <= Total(p, q)
        /\ \A x \in d.ooo : x.completing \in InOrderCount(b, d) + 2 .. Total(p, q)
    BY <1>3 DEF Pair, Receives, Receiving, BufferFrom
  <2> HIDE DEF d, b
  <2>6. Holds(b, d) \subseteq 1 .. Total(p, q)
    <3>1. \A n \in 1 .. InOrderCount(b, d) : n \in 1 .. Total(p, q)
      BY <1>2, <2>3, <2>5
    <3>2. \A x \in d.ooo : x.completing \in 1 .. Total(p, q)
      BY <1>2, <2>3, <2>5
    <3>3. QED BY <3>1, <3>2 DEF Holds
  <2>7. \A n \in 1 .. InOrderCount(b, d) : n \in Holds(b, d)
    BY DEF Holds
  <2>8. 2 * Total(p, q) < SeqMod
    BY <1>1, <1>2, SeqModAssumption
  <2>9. QED BY <1>1, <1>2, <2>3, <2>4, <2>5, <2>6, <2>7, <2>8
<1>4. CASE ~Synced(q, p)
  <2>1. Rcvd(p, q) = 0 /\ Held(p, q) = {}
    BY <1>4 DEF Rcvd, Held
  <2>2. 2 * Total(p, q) < SeqMod
    BY <1>1, <1>2, SeqModAssumption
  <2>3. QED BY <1>1, <1>2, <2>1, <2>2
<1>5. QED BY <1>3, <1>4

-----------------------------------------------------------------------------
(* Steps that change one connection *)

\* What p and q have said to each other only grows.
Forward(p, q) ==
  /\ Synced(p, q) => Synced(p, q)'
  /\ Rcvd(p, q) <= Rcvd(p, q)'
  /\ Held(p, q) \subseteq Held(p, q)'
  /\ Total(p, q) <= Total(p, q)'

LEMMA PacketForward ==
  ASSUME TypeOK, TypeOK', Fits, Streams, NEW f \in Frames,
         \A p, q \in Peers : Forward(p, q),
         \A p, q \in Peers : Rcvd(p, q)' \in Nat /\ Total(p, q)' \in Nat
  PROVE  PacketOK(f)'
<1> DEFINE s == f.src
           r == f.dst
<1>1. s \in Peers /\ r \in Peers
  BY FramesType DEF Frame
<1>2. PacketOK(f) /\ Forward(s, r) /\ Forward(r, s) /\ Pair(r, s) /\ Pair(s, r)
  BY <1>1 DEF Streams
<1>3. /\ Rcvd(r, s) \in Nat /\ Total(s, r) \in Nat /\ Rcvd(r, s)' \in Nat /\ Total(s, r)' \in Nat
  BY <1>1, <1>2, PairFacts
<1>4. CASE f.type \in {"st_state", "st_data"}
  <2>1. Synced(s, r)'
    BY <1>2, <1>4 DEF PacketOK, Forward
  <2>2. \E m \in 0 .. Rcvd(r, s)' : f.ack_nr = SeqOf(FirstSeq(r), m)
    <3>1. PICK m \in 0 .. Rcvd(r, s) : f.ack_nr = SeqOf(FirstSeq(r), m)
      BY <1>2, <1>4 DEF PacketOK
    <3>2. m \in 0 .. Rcvd(r, s)'
      BY <1>2, <1>3 DEF Forward
    <3>3. QED BY <3>1, <3>2
  <2>3. \A x \in f.sack : \E n \in Held(r, s)' : x = SeqOf(FirstSeq(r), n)
    BY <1>2, <1>4 DEF PacketOK, Forward
  <2>4. ~Synced(r, s)' => f.seq_nr = FirstSeq(s)
    BY <1>2, <1>4 DEF PacketOK, Forward
  <2>5. f.type = "st_data" => f.completing \in 1 .. Total(s, r)' /\ f.seq_nr = SeqOf(FirstSeq(s), f.completing)
    <3>1. SUFFICES ASSUME f.type = "st_data"
                   PROVE  f.completing \in 1 .. Total(s, r)' /\ f.seq_nr = SeqOf(FirstSeq(s), f.completing)
      OBVIOUS
    <3>2. f.completing \in 1 .. Total(s, r) /\ f.seq_nr = SeqOf(FirstSeq(s), f.completing)
      BY <1>2, <3>1 DEF PacketOK
    <3>3. Total(s, r) <= Total(s, r)'
      BY <1>2 DEF Forward
    <3>4. QED BY <1>3, <3>2, <3>3
  <2>6. f.type # "st_syn"
    BY <1>4
  <2>7. QED BY <2>1, <2>2, <2>3, <2>4, <2>5, <2>6 DEF PacketOK, FirstSeq
<1>5. CASE f.type \notin {"st_state", "st_data"}
  BY <1>2, <1>5 DEF PacketOK
<1>6. QED BY <1>4, <1>5

-----------------------------------------------------------------------------
(* A step that changes one entry *)

\* The entry of self for r moves on: what it has told r stays true.
Advances(self, r) ==
  /\ HasConn(self, r)'
  /\ Synced(self, r) => Synced(self, r)'
  /\ Total(self, r) <= Total(self, r)'
  /\ Rcvd(r, self) <= Rcvd(r, self)'
  /\ Held(r, self) \subseteq Held(r, self)'

\* Only the entry of self for r, and what waits at self, change.
OnlyEntry(self, r) ==
  /\ \A p, q \in Peers : p # self \/ q # r => conns'[p][q] = conns[p][q] /\ sent'[p][q] = sent[p][q]
  /\ \A p \in Peers : p # self => out_delivers'[p] = out_delivers[p]
  /\ delivered' = delivered

LEMMA SameEntry ==
  ASSUME NEW p, NEW q, conns'[p][q] = conns[p][q]
  PROVE  /\ HasConn(p, q)' <=> HasConn(p, q)
         /\ Synced(p, q)' <=> Synced(p, q)
         /\ Rcvd(q, p)' = Rcvd(q, p)
         /\ Held(q, p)' = Held(q, p)
         /\ sent'[p][q] = sent[p][q] => Total(p, q)' = Total(p, q)
<1>1. (HasConn(p, q)' <=> HasConn(p, q)) /\ (Synced(p, q)' <=> Synced(p, q))
  BY DEF HasConn, Synced
<1>2. Rcvd(q, p)' = Rcvd(q, p) /\ Held(q, p)' = Held(q, p)
  BY <1>1 DEF Rcvd, Held, FirstSeq
<1>3. sent'[p][q] = sent[p][q] => Total(p, q)' = Total(p, q)
  BY <1>1 DEF Total
<1>4. QED BY <1>1, <1>2, <1>3

LEMMA SameSends ==
  ASSUME NEW p, NEW q, conns'[p][q] = conns[p][q], sent'[p][q] = sent[p][q], Sends(p, q)
  PROVE  Sends(p, q)'
<1>1. (HasConn(p, q)' <=> HasConn(p, q)) /\ Total(p, q)' = Total(p, q)
  BY SameEntry
<1>2. QED BY <1>1 DEF Sends, FirstSeq

LEMMA SameHands ==
  ASSUME NEW p, NEW q, conns'[q][p] = conns[q][p], delivered'[q][p] = delivered[q][p],
         out_delivers'[q] = out_delivers[q], Hands(p, q)
  PROVE  Hands(p, q)'
<1>1. Rcvd(p, q)' = Rcvd(p, q)
  BY SameEntry
<1>2. QED BY <1>1 DEF Hands

LEMMA SameWaits ==
  ASSUME NEW p, NEW q, conns'[p][q] = conns[p][q], conns'[q][p] = conns[q][p], Waits(p, q)
  PROVE  Waits(p, q)'
<1>1. /\ HasConn(p, q)' <=> HasConn(p, q)
      /\ Synced(p, q)' <=> Synced(p, q)
      /\ HasConn(q, p)' <=> HasConn(q, p)
  BY SameEntry
<1>2. QED BY <1>1 DEF Waits

\* A receiver's half stays right while the sender numbers more packets.
LEMMA ReceivesMore ==
  ASSUME NEW p, NEW q, conns'[q][p] = conns[q][p], Receives(p, q),
         Total(p, q) \in Nat, Total(p, q)' \in Nat, Total(p, q) <= Total(p, q)',
         Synced(q, p) => InOrderCount(FirstSeq(p), conns[q][p]) \in Nat
  PROVE  Receives(p, q)'
<1> DEFINE d == conns[q][p]
           b == FirstSeq(p)
           k == Total(p, q)
           l == Total(p, q)'
<1>1. (HasConn(q, p)' <=> HasConn(q, p)) /\ (Synced(q, p)' <=> Synced(q, p)) /\ conns'[q][p] = d
  BY SameEntry
<1>2. ASSUME Synced(q, p) PROVE Receiving(b, d, l)
  <2> DEFINE n == InOrderCount(b, d)
  <2>1. Receiving(b, d, k) /\ k \in Nat /\ l \in Nat /\ k <= l /\ n \in Nat
    BY <1>2 DEF Receives
  <2>2. n <= k /\ \A x \in d.ooo : x.completing \in n + 2 .. k /\ x.seq = SeqOf(b, x.completing)
    BY <2>1 DEF Receiving, BufferFrom
  <2> HIDE DEF n, k, l, d, b
  <2>3. n <= l /\ \A i \in n + 2 .. k : i \in n + 2 .. l
    BY <2>1, <2>2
  <2>4. QED BY <2>2, <2>3 DEF Receiving, BufferFrom, n
<1>3. FirstSeq(p)' = b
  BY DEF FirstSeq
<1>4. Synced(q, p)' => Receiving(b, conns'[q][p], l)
  BY <1>1, <1>2
<1>5. (HasConn(q, p) /\ ~Synced(q, p))' => conns'[q][p].ooo = {}
  BY <1>1 DEF Receives
<1>6. QED BY <1>3, <1>4, <1>5 DEF Receives

\* The sender keeps what the receiver does not hold, when the receiver holds more.
LEMMA RetainsMore ==
  ASSUME NEW p, NEW q, conns'[p][q] = conns[p][q], sent'[p][q] = sent[p][q], Retains(p, q),
         Held(p, q) \subseteq Held(p, q)'
  PROVE  Retains(p, q)'
<1>1. Total(p, q)' = Total(p, q)
  BY SameEntry
<1>2. QED BY <1>1 DEF Retains

LEMMA ConnStepStreams ==
  ASSUME TypeOK, TypeOK', Fits, Streams, NEW self \in Peers, NEW r \in Peers, self # r,
         OnlyEntry(self, r), Advances(self, r),
         Sends(self, r)', Receives(r, self)', Retains(self, r)',
         \A p \in Peers : Hands(p, self)',
         Waits(self, r)', Waits(r, self)',
         \A f \in Frames' : f \in Frames \/ PacketOK(f)'
  PROVE  Streams'
<1>1. \A p, q \in Peers : /\ Pair(p, q)
                          /\ Rcvd(p, q) \in Nat /\ Total(p, q) \in Nat
  BY PairFacts DEF Streams
<1>2. ASSUME NEW p \in Peers, NEW q \in Peers, Synced(q, p)
      PROVE  InOrderCount(FirstSeq(p), conns[q][p]) \in Nat
  <2>1. Rcvd(p, q) = InOrderCount(FirstSeq(p), conns[q][p])
    BY <1>2 DEF Rcvd
  <2>2. QED BY <1>1, <2>1
<1>3. Total(self, r)' \in Nat
  <2>1. Len(conns'[self][r].pending) <= sent'[self][r]
    BY DEF Advances, Sends, Numbering
  <2>2. conns'[self][r] \in Conn /\ sent'[self][r] \in Nat
    BY DEF Advances, HasConn, TypeOK, SocketTypeOK
  <2>3. Len(conns'[self][r].pending) \in Nat
    BY <2>2, LenProperties DEF Conn
  <2>4. Total(self, r)' = sent'[self][r] - Len(conns'[self][r].pending)
    BY DEF Advances, Total, Numbered
  <2>5. QED BY <2>1, <2>2, <2>3, <2>4
<1>4. ASSUME NEW p \in Peers, NEW q \in Peers, ~(p = self /\ q = r)
      PROVE  Sends(p, q)' /\ Total(p, q)' = Total(p, q)
  <2>1. conns'[p][q] = conns[p][q] /\ sent'[p][q] = sent[p][q]
    BY <1>4 DEF OnlyEntry
  <2>2. Sends(p, q)
    BY <1>1 DEF Pair
  <2>3. QED BY <2>1, <2>2, SameSends, SameEntry
<1>5. ASSUME NEW p \in Peers, NEW q \in Peers
      PROVE  Total(p, q)' \in Nat /\ Total(p, q) <= Total(p, q)'
  <2>1. CASE p = self /\ q = r
    BY <1>3, <2>1 DEF Advances
  <2>2. CASE ~(p = self /\ q = r)
    BY <1>1, <1>4, <2>2
  <2>3. QED BY <2>1, <2>2
<1>6. ASSUME NEW p \in Peers, NEW q \in Peers, ~(p = r /\ q = self)
      PROVE  Receives(p, q)' /\ Rcvd(p, q)' = Rcvd(p, q) /\ Held(p, q)' = Held(p, q)
  <2>1. conns'[q][p] = conns[q][p]
    BY <1>6 DEF OnlyEntry
  <2>2. Receives(p, q)
    BY <1>1 DEF Pair
  <2>3. Receives(p, q)'
    BY <1>1, <1>2, <1>5, <2>1, <2>2, ReceivesMore
  <2>4. QED BY <2>1, <2>3, SameEntry
<1>7. Rcvd(r, self)' \in Nat
  <2>1. CASE Synced(self, r)'
    <3>1. conns'[self][r] \in Conn
      BY DEF Advances, HasConn, TypeOK, SocketTypeOK
    <3>2. conns'[self][r].ack_nr \in Uint16 /\ FirstSeq(r) \in Uint16
      BY <3>1, FirstSeqType DEF Conn
    <3>3. Rcvd(r, self)' = InOrderCount(FirstSeq(r), conns'[self][r])
      BY <2>1 DEF Rcvd, FirstSeq
    <3>4. QED BY <3>2, <3>3, IndexOfType DEF InOrderCount
  <2>2. CASE ~Synced(self, r)'
    BY <2>2 DEF Rcvd
  <2>3. QED BY <2>1, <2>2
<1>8. ASSUME NEW p \in Peers, NEW q \in Peers
      PROVE  Retains(p, q)'
  <2>1. CASE p = self /\ q = r
    BY <2>1
  <2>2. CASE ~(p = self /\ q = r)
    <3>1. conns'[p][q] = conns[p][q] /\ sent'[p][q] = sent[p][q] /\ Retains(p, q)
      BY <1>1, <2>2 DEF OnlyEntry, Pair
    <3>2. Held(p, q) \subseteq Held(p, q)'
      BY <1>6 DEF Advances
    <3>3. QED BY <3>1, <3>2, RetainsMore
  <2>3. QED BY <2>1, <2>2
<1>9. ASSUME NEW p \in Peers, NEW q \in Peers
      PROVE  Hands(p, q)'
  <2>1. CASE q = self
    BY <2>1
  <2>2. CASE q # self
    <3>1. conns'[q][p] = conns[q][p] /\ out_delivers'[q] = out_delivers[q] /\ Hands(p, q)
      BY <1>1, <2>2 DEF OnlyEntry, Pair
    <3>2. delivered'[q][p] = delivered[q][p]
      BY DEF OnlyEntry
    <3>3. QED BY <3>1, <3>2, SameHands
  <2>3. QED BY <2>1, <2>2
<1>10. ASSUME NEW p \in Peers, NEW q \in Peers
       PROVE  Waits(p, q)'
  <2>1. CASE (p = self /\ q = r) \/ (p = r /\ q = self)
    BY <2>1
  <2>2. CASE ~((p = self /\ q = r) \/ (p = r /\ q = self))
    <3>1. conns'[q][p] = conns[q][p] /\ conns'[p][q] = conns[p][q] /\ Waits(p, q)
      BY <1>1, <2>2 DEF OnlyEntry, Pair
    <3>2. QED BY <3>1, SameWaits
  <2>3. QED BY <2>1, <2>2
<1>11. \A p, q \in Peers : Pair(p, q)'
  BY <1>4, <1>6, <1>8, <1>9, <1>10 DEF Pair
<1>12. ASSUME NEW p \in Peers, NEW q \in Peers
       PROVE  Forward(p, q) /\ Rcvd(p, q)' \in Nat
  <2>1. Synced(p, q) => Synced(p, q)'
    <3>1. CASE p = self /\ q = r
      BY <3>1 DEF Advances
    <3>2. CASE ~(p = self /\ q = r)
      <4>1. conns'[p][q] = conns[p][q]
        BY <3>2 DEF OnlyEntry
      <4>2. QED BY <4>1, SameEntry
    <3>3. QED BY <3>1, <3>2
  <2>2. /\ Rcvd(p, q) <= Rcvd(p, q)' /\ Held(p, q) \subseteq Held(p, q)'
        /\ Rcvd(p, q)' \in Nat
    <3>1. CASE p = r /\ q = self
      BY <1>7, <3>1 DEF Advances
    <3>2. CASE ~(p = r /\ q = self)
      BY <1>1, <1>6, <3>2
    <3>3. QED BY <3>1, <3>2
  <2>3. QED BY <1>5, <2>1, <2>2 DEF Forward
<1>13. \A f \in Frames : PacketOK(f)'
  BY <1>5, <1>12, PacketForward
<1>14. QED BY <1>11, <1>13 DEF Streams

\* A step that only sends packets and hands payloads over.
LEMMA SameStreams ==
  ASSUME TypeOK, TypeOK', Fits, Streams,
         UNCHANGED <<conns, sent>>, \A p, q \in Peers : Hands(p, q)',
         \A f \in Frames' : f \in Frames \/ PacketOK(f)
  PROVE  Streams'
<1>1. ASSUME NEW p \in Peers, NEW q \in Peers
      PROVE  Pair(p, q)'
  <2>1. Pair(p, q) /\ Rcvd(p, q) \in Nat /\ Total(p, q) \in Nat
    BY PairFacts DEF Streams
  <2>2. /\ Total(p, q)' = Total(p, q) /\ Held(p, q)' = Held(p, q)
    BY SameEntry
  <2>3. Synced(q, p) => InOrderCount(FirstSeq(p), conns[q][p]) \in Nat
    BY <2>1 DEF Rcvd
  <2>4. Sends(p, q)'
    BY <2>1, SameSends DEF Pair
  <2>5. Receives(p, q)'
    BY <2>1, <2>2, <2>3, ReceivesMore DEF Pair
  <2>6. Retains(p, q)'
    BY <2>1, <2>2, RetainsMore DEF Pair
  <2>7. Hands(p, q)'
    OBVIOUS
  <2>8. Waits(p, q)'
    BY <2>1, SameWaits DEF Pair
  <2>9. QED BY <2>4, <2>5, <2>6, <2>7, <2>8 DEF Pair
<1>2. ASSUME NEW f PROVE PacketOK(f)' <=> PacketOK(f)
  <2>1. /\ Synced(f.src, f.dst)' <=> Synced(f.src, f.dst)
        /\ Synced(f.dst, f.src)' <=> Synced(f.dst, f.src)
        /\ Rcvd(f.dst, f.src)' = Rcvd(f.dst, f.src) /\ Held(f.dst, f.src)' = Held(f.dst, f.src)
        /\ Total(f.src, f.dst)' = Total(f.src, f.dst)
    BY SameEntry
  <2>2. QED BY <2>1 DEF PacketOK, FirstSeq
<1>3. \A f \in Frames' : PacketOK(f)'
  BY <1>2 DEF Streams
<1>4. QED BY <1>1, <1>3 DEF Streams

-----------------------------------------------------------------------------
(* The entries that may take the place of the current one *)

\* What an entry c for r has received, and holds, of the stream of r.
Told(r, c) == IF c.state # "syn_sent" THEN InOrderCount(FirstSeq(r), c) ELSE 0
Kept(r, c) == IF c.state # "syn_sent" THEN Holds(FirstSeq(r), c) ELSE {}

\* c is fit to replace self's entry for r: as a sender of total payloads, ...
FitToSend(self, r, c, total) ==
  /\ total <= MaxSend[self]
  /\ Numbering(FirstSeq(self), c, total)
  /\ c.state \in {"syn_sent", "syn_recv"} => Numbered(c, total) = 0
  /\ Total(self, r) <= Numbered(c, total)
  /\ \A n \in 1 .. Numbered(c, total) : n \in Held(self, r) \/ Contains(c.inflight, n)

\* ... as a receiver, ...
FitToReceive(self, r, c) ==
  /\ Synced(self, r) => c.state # "syn_sent"
  /\ c.state # "syn_sent" => Receiving(FirstSeq(r), c, Total(r, self))
  /\ c.state = "syn_sent" => c.ooo = {}
  /\ Rcvd(r, self) <= Told(r, c)
  /\ Held(r, self) \subseteq Kept(r, c)

\* ... and in the handshake.
FitToWait(self, r, c) ==
  /\ c.state = "syn_sent" => HasConn(self, r) \/ ~HasConn(r, self)
  /\ \/ c.state = "syn_recv"
     \/ Synced(r, self)
     \/ ~HasConn(r, self)
     \/ HasConn(self, r) /\ c.state = conns[self][r].state

\* A packet of the stream of self, sent from the entry c.
FitFrame(self, r, c, total, f) ==
  /\ f.src = self /\ f.dst = r
  /\ c.state # "syn_sent"
  /\ \E m \in 0 .. Told(r, c) : f.ack_nr = SeqOf(FirstSeq(r), m)
  /\ \A x \in f.sack : \E n \in Kept(r, c) : x = SeqOf(FirstSeq(r), n)
  /\ \/ f.type = "st_state" /\ (Synced(r, self) \/ f.seq_nr = FirstSeq(self))
     \/ /\ f.type = "st_data" /\ f.completing \in 1 .. Numbered(c, total)
        /\ f.seq_nr = SeqOf(FirstSeq(self), f.completing)

FitSyn(f) == f.type = "st_syn" /\ f.seq_nr = 1

\* What an entry put in place of self's for r makes of the pair.
LEMMA NewEntry ==
  ASSUME TypeOK, NEW self \in Peers, NEW r \in Peers, self # r,
         NEW c \in Conn, SetConn(self, r, c)
  PROVE  /\ conns'[self][r] = c /\ HasConn(self, r)'
         /\ Synced(self, r)' <=> c.state # "syn_sent"
         /\ Rcvd(r, self)' = Told(r, c) /\ Held(r, self)' = Kept(r, c)
         /\ Total(self, r)' = Numbered(c, sent'[self][r])
         /\ \A p, q \in Peers : p # self \/ q # r => conns'[p][q] = conns[p][q]
         /\ conns'[r][self] = conns[r][self]
<1>1. \A p, q \in Peers : conns'[p][q] = IF p = self /\ q = r THEN c ELSE conns[p][q]
  BY DEF SetConn, TypeOK, SocketTypeOK
<1>2. conns'[self][r] = c /\ conns'[r][self] = conns[r][self]
  BY <1>1
<1>3. c # NoConn
  BY DEF Conn, NoConn
<1>4. HasConn(self, r)'
  BY <1>2, <1>3 DEF HasConn
<1>5. Synced(self, r)' <=> c.state # "syn_sent"
  BY <1>2, <1>4 DEF Synced
<1>6. Rcvd(r, self)' = Told(r, c) /\ Held(r, self)' = Kept(r, c)
  BY <1>2, <1>5 DEF Rcvd, Held, Told, Kept, FirstSeq
<1>7. Total(self, r)' = Numbered(c, sent'[self][r])
  BY <1>2, <1>4 DEF Total
<1>8. QED BY <1>1, <1>2, <1>4, <1>5, <1>6, <1>7

LEMMA HandsStill ==
  ASSUME NEW p, NEW q, delivered'[q][p] = delivered[q][p], out_delivers'[q] = out_delivers[q],
         Rcvd(p, q)' = Rcvd(p, q), Hands(p, q)
  PROVE  Hands(p, q)'
BY DEF Hands

LEMMA EntryStreams ==
  ASSUME TypeOK, TypeOK', Fits, Streams, Handshake', NEW self \in Peers, NEW r \in Peers, self # r,
         NEW c \in Conn, SetConn(self, r, c), NEW S, NEW frames \in Seq(S), Queue(self, frames),
         BagToSet(net') \subseteq BagToSet(net),
         \A p, q \in Peers : p # self \/ q # r => sent'[p][q] = sent[p][q],
         delivered' = delivered, \A p \in Peers : p # self => out_delivers'[p] = out_delivers[p],
         FitToSend(self, r, c, sent'[self][r]), FitToReceive(self, r, c), FitToWait(self, r, c),
         \A f \in S : FitFrame(self, r, c, sent'[self][r], f) \/ FitSyn(f),
         \A p \in Peers : Hands(p, self)'
  PROVE  Streams'
<1> DEFINE total == sent'[self][r]
<1>1. /\ conns'[self][r] = c /\ HasConn(self, r)'
      /\ Synced(self, r)' <=> c.state # "syn_sent"
      /\ Rcvd(r, self)' = Told(r, c) /\ Held(r, self)' = Kept(r, c)
      /\ Total(self, r)' = Numbered(c, total)
      /\ \A p, q \in Peers : p # self \/ q # r => conns'[p][q] = conns[p][q]
      /\ conns'[r][self] = conns[r][self]
  BY NewEntry
<1>2. OnlyEntry(self, r)
  BY <1>1 DEF OnlyEntry
<1>3. Advances(self, r)
  BY <1>1 DEF Advances, FitToSend, FitToReceive
<1>4. /\ Synced(r, self)' <=> Synced(r, self)
      /\ HasConn(r, self)' <=> HasConn(r, self)
      /\ Held(self, r)' = Held(self, r)
      /\ sent'[r][self] = sent[r][self] /\ Total(r, self)' = Total(r, self)
  <2>1. sent'[r][self] = sent[r][self]
    OBVIOUS
  <2>2. QED BY <1>1, <2>1, SameEntry
<1>5. Sends(self, r)'
  BY <1>1 DEF FitToSend, Sends, FirstSeq
<1>6. Receives(r, self)'
  BY <1>1, <1>4 DEF FitToReceive, Receives, FirstSeq
<1>7. Retains(self, r)'
  BY <1>1, <1>4 DEF FitToSend, Retains
<1>8. Waits(self, r) /\ Waits(r, self)
  BY DEF Streams, Pair
<1>9. Waits(self, r)'
  <2>1. SUFFICES ASSUME ~Synced(self, r)', HasConn(r, self)
                 PROVE  conns'[r][self].state = "syn_recv"
    BY <1>4 DEF Waits
  <2>2. HasConn(self, r) /\ ~Synced(self, r)
    BY <1>1, <2>1 DEF FitToWait, FitToReceive
  <2>3. QED BY <1>1, <1>8, <2>1, <2>2 DEF Waits
<1>10. Waits(r, self)'
  <2>1. SUFFICES ASSUME HasConn(r, self), ~Synced(r, self)
                 PROVE  conns'[self][r].state = "syn_recv"
    BY <1>4 DEF Waits
  <2>2. QED BY <1>1, <1>8, <2>1 DEF Waits, FitToWait
<1>11. Frames' \subseteq Frames \cup S
  BY QueueFrames
<1>12. ASSUME NEW f \in S, FitFrame(self, r, c, total, f)
       PROVE  PacketOK(f)'
  <2>1. f.src = self /\ f.dst = r /\ Synced(self, r)'
    BY <1>1, <1>12 DEF FitFrame
  <2>2. \E m \in 0 .. Rcvd(r, self)' : f.ack_nr = SeqOf(FirstSeq(r), m)
    BY <1>1, <1>12 DEF FitFrame
  <2>3. \A x \in f.sack : \E n \in Held(r, self)' : x = SeqOf(FirstSeq(r), n)
    BY <1>1, <1>12 DEF FitFrame
  <2>4. CASE f.type = "st_state" /\ (Synced(r, self) \/ f.seq_nr = FirstSeq(self))
    BY <1>4, <2>1, <2>2, <2>3, <2>4 DEF PacketOK, FirstSeq
  <2>5. CASE /\ f.type = "st_data" /\ f.completing \in 1 .. Numbered(c, total)
             /\ f.seq_nr = SeqOf(FirstSeq(self), f.completing)
    <3>1. Numbered(c, total) # 0
      <4>1. Numbered(c, total) \in Int
        <5>1. c.pending \in Seq(Payload) /\ total \in Nat
          BY DEF Conn, TypeOK
        <5>2. Len(c.pending) \in Nat
          BY <5>1, LenProperties
        <5>3. QED BY <5>1, <5>2 DEF Numbered
      <4>2. QED BY <2>5, <4>1
    <3>2. c.state \notin {"syn_sent", "syn_recv"}
      BY <3>1 DEF FitToSend
    <3>3. HasConn(r, self)'
      <4>1. ConnOK(self, r)'
        BY DEF Handshake
      <4>2. conns'[self][r].state \notin {"syn_sent", "syn_recv"}
        BY <1>1, <3>2
      <4>3. QED BY <1>1, <4>1, <4>2 DEF ConnOK
    <3>4. Synced(r, self)'
      BY <1>1, <1>10, <3>2, <3>3 DEF Waits
    <3>5. f.completing \in 1 .. Total(self, r)'
      BY <1>1, <2>5
    <3>6. QED BY <2>1, <2>2, <2>3, <2>5, <3>4, <3>5 DEF PacketOK, FirstSeq
  <2>6. QED BY <1>12, <2>4, <2>5 DEF FitFrame
<1>13. ASSUME NEW f \in S, FitSyn(f)
       PROVE  PacketOK(f)'
  BY <1>13 DEF FitSyn, PacketOK
<1>14. \A f \in Frames' : f \in Frames \/ PacketOK(f)'
  BY <1>11, <1>12, <1>13
<1>15. QED
  BY <1>2, <1>3, <1>5, <1>6, <1>7, <1>9, <1>10, <1>14, ConnStepStreams

Fit(self, r, c, total) ==
  FitToSend(self, r, c, total) /\ FitToReceive(self, r, c) /\ FitToWait(self, r, c)

\* The number acknowledged belongs to a packet received in order.
LEMMA AckNumber ==
  ASSUME NEW c \in Conn, NEW r, c.state # "syn_sent"
  PROVE  /\ Told(r, c) \in Nat /\ c.ack_nr = SeqOf(FirstSeq(r), Told(r, c))
         /\ \E m \in 0 .. Told(r, c) : c.ack_nr = SeqOf(FirstSeq(r), m)
<1>1. c.ack_nr \in Uint16 /\ FirstSeq(r) \in Uint16
  BY FirstSeqType DEF Conn
<1>2. Told(r, c) = IndexOf(FirstSeq(r), c.ack_nr)
  BY DEF Told, InOrderCount
<1>3. Told(r, c) \in Nat /\ c.ack_nr = SeqOf(FirstSeq(r), Told(r, c))
  BY <1>1, <1>2, IndexOfType, SeqOfIndex
<1>4. Told(r, c) \in 0 .. Told(r, c)
  BY <1>3
<1>5. QED BY <1>3, <1>4

\* The number of payloads numbered is a natural number.
LEMMA NumberedType ==
  ASSUME NEW c \in Conn, NEW total \in Nat, Len(c.pending) <= total
  PROVE  Numbered(c, total) \in Nat
<1>1. Len(c.pending) \in Nat
  BY LenProperties DEF Conn
<1>2. QED BY <1>1 DEF Numbered

\* Two entries that received the same.
LEMMA SameReceived ==
  ASSUME NEW r, NEW c, NEW d, d.state = c.state, d.ack_nr = c.ack_nr, d.ooo = c.ooo
  PROVE  /\ Told(r, d) = Told(r, c) /\ Kept(r, d) = Kept(r, c)
         /\ \A self : FitToReceive(self, r, c) => FitToReceive(self, r, d)
<1>1. /\ InOrderCount(FirstSeq(r), d) = InOrderCount(FirstSeq(r), c)
      /\ Holds(FirstSeq(r), d) = Holds(FirstSeq(r), c)
  BY DEF InOrderCount, Holds
<1>2. Told(r, d) = Told(r, c) /\ Kept(r, d) = Kept(r, c)
  BY <1>1 DEF Told, Kept
<1>3. \A k : Receiving(FirstSeq(r), c, k) => Receiving(FirstSeq(r), d, k)
  BY <1>1 DEF Receiving, BufferFrom
<1>4. QED BY <1>2, <1>3 DEF FitToReceive

\* A sending step keeps an entry fit, and what it sends is fit.
LEMMA SendKeepsFit ==
  ASSUME NEW self \in Peers, NEW r \in Peers, NEW c \in Conn, NEW total \in Nat,
         Fit(self, r, c, total), Total(self, r) \in Nat, NEW o,
         SendStep(self, r, c, o, FirstSeq(self), total, Held(self, r)),
         c.state \notin {"syn_sent", "syn_recv"} \/ o.conn.pending = c.pending
  PROVE  /\ o.conn \in Conn /\ o.conn.state = c.state /\ Fit(self, r, o.conn, total)
         /\ \A f \in DataUpTo(self, r, c, FirstSeq(self), Numbered(o.conn, total)) :
              FitFrame(self, r, o.conn, total, f)
<1> DEFINE d == o.conn
           k == Numbered(c, total)
           l == Numbered(d, total)
           K == Held(self, r)
<1>1. /\ d \in Conn /\ d.state = c.state /\ d.ack_nr = c.ack_nr /\ d.ooo = c.ooo
      /\ Numbering(FirstSeq(self), d, total) /\ Len(d.pending) <= Len(c.pending)
      /\ \A n \in 1 .. l : \/ Contains(d.inflight, n) \/ n \in K
                           \/ n \in 1 .. k /\ ~Contains(c.inflight, n)
  BY DEF SendStep, Keeps
<1>2. k \in Nat /\ l \in Nat /\ k <= l
  <2>1. Len(d.pending) \in Nat /\ Len(c.pending) \in Nat
    BY <1>1, LenProperties DEF Conn
  <2>2. Len(d.pending) <= total /\ Len(c.pending) <= total
    BY <1>1 DEF Numbering, Fit, FitToSend
  <2>3. QED BY <1>1, <2>1, <2>2 DEF Numbered
<1>3. FitToSend(self, r, d, total)
  <2>1. /\ total <= MaxSend[self] /\ Total(self, r) <= k
        /\ c.state \in {"syn_sent", "syn_recv"} => k = 0
        /\ \A n \in 1 .. k : n \in K \/ Contains(c.inflight, n)
    BY DEF Fit, FitToSend
  <2>2. Total(self, r) <= l
    BY <1>2, <2>1
  <2>3. d.state \in {"syn_sent", "syn_recv"} => l = 0
    <3>1. SUFFICES ASSUME d.state \in {"syn_sent", "syn_recv"} PROVE l = 0
      OBVIOUS
    <3>2. d.pending = c.pending /\ k = 0
      BY <1>1, <2>1, <3>1
    <3>3. QED BY <3>2 DEF Numbered
  <2>4. \A n \in 1 .. l : n \in K \/ Contains(d.inflight, n)
    BY <1>1, <2>1
  <2>5. QED BY <1>1, <2>1, <2>2, <2>3, <2>4 DEF FitToSend
<1>4. /\ Told(r, d) = Told(r, c) /\ Kept(r, d) = Kept(r, c)
      /\ FitToReceive(self, r, d)
  BY <1>1, SameReceived DEF Fit
<1>5. FitToWait(self, r, d)
  BY <1>1 DEF Fit, FitToWait
<1>6. ASSUME NEW f \in DataUpTo(self, r, c, FirstSeq(self), l)
      PROVE  FitFrame(self, r, d, total, f)
  <2>1. /\ f.src = self /\ f.dst = r /\ f.type = "st_data" /\ f.ack_nr = c.ack_nr /\ f.sack = {}
        /\ f.completing \in 1 .. l /\ f.seq_nr = SeqOf(FirstSeq(self), f.completing)
    BY DEF DataUpTo, StreamFrame
  <2>2. l # 0
    BY <1>2, <2>1
  <2>3. d.state # "syn_sent"
    BY <1>3, <2>2 DEF FitToSend
  <2>4. \E m \in 0 .. Told(r, d) : f.ack_nr = SeqOf(FirstSeq(r), m)
    BY <1>1, <2>1, <2>3, AckNumber
  <2>5. QED BY <2>1, <2>3, <2>4 DEF FitFrame
<1>7. QED BY <1>1, <1>3, <1>4, <1>5, <1>6 DEF Fit

\* The entry that is there is fit to stay.
LEMMA CurrentFits ==
  ASSUME TypeOK, Fits, Streams, NEW self \in Peers, NEW r \in Peers, HasConn(self, r)
  PROVE  /\ conns[self][r] \in Conn /\ Fit(self, r, conns[self][r], sent[self][r])
         /\ Numbered(conns[self][r], sent[self][r]) = Total(self, r)
         /\ Told(r, conns[self][r]) = Rcvd(r, self) /\ Kept(r, conns[self][r]) = Held(r, self)
<1> DEFINE c == conns[self][r]
<1>1. Pair(self, r) /\ Pair(r, self)
  BY DEF Streams
<1>2. Total(self, r) \in Nat /\ Rcvd(r, self) \in Nat
  BY <1>1, PairFacts
<1>3. c \in Conn
  BY ConnType DEF TypeOK
<1>4. Synced(self, r) <=> c.state # "syn_sent"
  BY DEF Synced
<1>5. Total(self, r) = Numbered(c, sent[self][r])
  BY DEF Total
<1>6. Rcvd(r, self) = Told(r, c) /\ Held(r, self) = Kept(r, c)
  BY <1>4 DEF Rcvd, Held, Told, Kept
<1>7. FitToSend(self, r, c, sent[self][r])
  BY <1>1, <1>2, <1>5 DEF Pair, Sends, Retains, FitToSend
<1>8. FitToReceive(self, r, c)
  BY <1>1, <1>2, <1>4, <1>6 DEF Pair, Receives, FitToReceive
<1>9. FitToWait(self, r, c)
  BY DEF FitToWait
<1>10. QED BY <1>3, <1>5, <1>6, <1>7, <1>8, <1>9 DEF Fit

\* What a packet of the stream acknowledges is held by the peer that sent it.
LEMMA PacketAcks ==
  ASSUME TypeOK, Fits, Streams, NEW f \in Frames, f.type \in {"st_state", "st_data"}
  PROVE  AckFits(FirstSeq(f.dst), f, Total(f.dst, f.src), Held(f.dst, f.src))
<1> DEFINE p == f.dst
           q == f.src
           K == Held(p, q)
<1>1. p \in Peers /\ q \in Peers
  BY FramesType DEF Frame
<1>2. Pair(p, q) /\ PacketOK(f)
  BY <1>1 DEF Streams
<1>3. /\ Total(p, q) \in Nat /\ Rcvd(p, q) \in Nat /\ Rcvd(p, q) <= Total(p, q)
      /\ K \subseteq 1 .. Total(p, q) /\ \A n \in 1 .. Rcvd(p, q) : n \in K
  BY <1>1, <1>2, PairFacts
<1>4. PICK m \in 0 .. Rcvd(p, q) : f.ack_nr = SeqOf(FirstSeq(p), m)
  BY <1>2 DEF PacketOK
<1>5. m \in 0 .. Total(p, q) /\ \A n \in 1 .. m : n \in K
  BY <1>3
<1>6. \A x \in f.sack : \E n \in K : x = SeqOf(FirstSeq(p), n)
  BY <1>2 DEF PacketOK
<1>7. \A x \in f.sack : \E n \in 1 .. Total(p, q) : n \in K /\ x = SeqOf(FirstSeq(p), n)
  BY <1>3, <1>6
<1>8. QED BY <1>4, <1>5, <1>7 DEF AckFits

-----------------------------------------------------------------------------
(* The application sends *)

\* One more payload waits behind the others.
LEMMA AppendFits ==
  ASSUME TypeOK, Fits, Streams, NEW self \in Peers, NEW r \in Peers, HasConn(self, r),
         sent[self][r] < MaxSend[self]
  PROVE  LET c1 == [conns[self][r] EXCEPT !.pending = Append(@, sent[self][r] + 1)]
         IN  /\ c1 \in Conn /\ c1.state = conns[self][r].state
             /\ Fit(self, r, c1, sent[self][r] + 1)
<1> DEFINE c  == conns[self][r]
           s  == sent[self][r]
           c1 == [c EXCEPT !.pending = Append(c.pending, s + 1)]
           k  == Numbered(c, s)
           L  == Len(c.pending)
<1>1. c \in Conn /\ Fit(self, r, c, s) /\ s \in Nat /\ MaxSend[self] \in Nat
  BY CurrentFits, BoundsAssumption DEF TypeOK
<1>2. s + 1 \in Payload /\ c.pending \in Seq(Payload)
  BY <1>1 DEF Payload, NoPayload, Conn
<1>3. /\ c1 \in Conn /\ c1.state = c.state
      /\ c1.pending = Append(c.pending, s + 1) /\ c1.seq_nr = c.seq_nr /\ c1.inflight = c.inflight
      /\ c1.ack_nr = c.ack_nr /\ c1.ooo = c.ooo
  BY <1>1, <1>2, AppendPendingType DEF Conn
<1>4. /\ L \in Nat /\ L <= s /\ k = s - L
      /\ \A i \in 1 .. L : c.pending[i] = k + i
      /\ c.seq_nr = SeqOf(FirstSeq(self), k + 1) /\ InOrder(FirstSeq(self), c.inflight, k)
  BY <1>1, <1>2, LenProperties DEF Fit, FitToSend, Numbering, Numbered
<1> DEFINE q == Append(c.pending, s + 1)
<1>5. Len(q) = L + 1 /\ \A i \in 1 .. L + 1 : q[i] = k + i
  <2>1. Len(q) = L + 1 /\ (\A i \in 1 .. L : q[i] = c.pending[i]) /\ q[L + 1] = s + 1
    BY <1>2, AppendProperties
  <2> HIDE DEF q, L, k, s
  <2>2. SUFFICES ASSUME NEW i \in 1 .. L + 1 PROVE q[i] = k + i
    BY <2>1
  <2>3. CASE i = L + 1
    <3>1. k + (L + 1) = s + 1
      BY <1>1, <1>4
    <3>2. QED BY <2>1, <2>3, <3>1
  <2>4. CASE i \in 1 .. L
    BY <1>4, <2>1, <2>4
  <2>5. QED BY <1>4, <2>3, <2>4
<1> HIDE DEF c1, q
<1>6. c1.pending = q
  BY <1>3 DEF q
<1>7. Numbered(c1, s + 1) = k /\ Len(c1.pending) <= s + 1
  <2>1. (s + 1) - (L + 1) = k /\ L + 1 <= s + 1
    <3>1. s \in Nat /\ L \in Nat /\ L <= s /\ k = s - L
      BY <1>1, <1>4
    <3> HIDE DEF s, L, k
    <3>2. QED BY <3>1
  <2>2. QED BY <1>5, <1>6, <2>1 DEF Numbered
<1>8. Numbering(FirstSeq(self), c1, s + 1)
  BY <1>3, <1>4, <1>5, <1>6, <1>7 DEF Numbering
<1>9. FitToSend(self, r, c1, s + 1)
  <2>1. s + 1 <= MaxSend[self]
    BY <1>1
  <2>2. /\ c.state \in {"syn_sent", "syn_recv"} => k = 0
        /\ Total(self, r) <= k
        /\ \A n \in 1 .. k : n \in Held(self, r) \/ Contains(c.inflight, n)
    BY <1>1 DEF Fit, FitToSend
  <2>3. QED BY <1>3, <1>7, <1>8, <2>1, <2>2 DEF FitToSend
<1>10. FitToReceive(self, r, c1)
  BY <1>1, <1>3, SameReceived DEF Fit
<1>11. FitToWait(self, r, c1)
  BY <1>1, <1>3 DEF Fit, FitToWait
<1>12. QED BY <1>3, <1>9, <1>10, <1>11 DEF Fit, c1

\* Nothing is handed over, and nothing more is received in order.
LEMMA HandsUnchanged ==
  ASSUME TypeOK, Streams, NEW self \in Peers, NEW r \in Peers, self # r, NEW c \in Conn,
         SetConn(self, r, c), Told(r, c) = Rcvd(r, self),
         delivered' = delivered, out_delivers' = out_delivers
  PROVE  \A p \in Peers : Hands(p, self)'
<1> SUFFICES ASSUME NEW p \in Peers PROVE Hands(p, self)'
  OBVIOUS
<1>1. Hands(p, self)
  BY DEF Streams, Pair
<1>2. Rcvd(p, self)' = Rcvd(p, self)
  <2>1. CASE p = r
    BY <2>1, NewEntry
  <2>2. CASE p # r
    <3>1. conns'[self][p] = conns[self][p]
      BY <2>2, NewEntry
    <3>2. QED BY <3>1, SameEntry
  <2>3. QED BY <2>1, <2>2
<1>3. QED BY <1>1, <1>2, HandsStill

\* A sending step from the entry c.
LEMMA SendStreams ==
  ASSUME TypeOK, TypeOK', Fits, Streams, Handshake', NEW self \in Peers, NEW r \in Peers, self # r,
         NEW c \in Conn, NEW total, total = sent'[self][r], Fit(self, r, c, total),
         Told(r, c) = Rcvd(r, self), NEW o,
         SendStep(self, r, c, o, FirstSeq(self), total, Held(self, r)),
         c.state \notin {"syn_sent", "syn_recv"} \/ o.conn.pending = c.pending,
         SetConn(self, r, o.conn), Queue(self, o.frames), BagToSet(net') \subseteq BagToSet(net),
         \A p, q \in Peers : p # self \/ q # r => sent'[p][q] = sent[p][q],
         delivered' = delivered, out_delivers' = out_delivers
  PROVE  Streams'
<1> DEFINE S == DataUpTo(self, r, c, FirstSeq(self), Numbered(o.conn, total))
<1>1. total \in Nat /\ Total(self, r) \in Nat
  <2>1. Pair(self, r)
    BY DEF Streams
  <2>2. QED BY <2>1, PairFacts DEF TypeOK
<1>2. /\ o.conn \in Conn /\ o.conn.state = c.state /\ Fit(self, r, o.conn, total)
      /\ \A f \in S : FitFrame(self, r, o.conn, total, f)
  BY <1>1, SendKeepsFit, SMTT(60)
<1>3. o.frames \in Seq(S) /\ o.conn.ack_nr = c.ack_nr /\ o.conn.ooo = c.ooo
  BY DEF SendStep
<1> HIDE DEF S
<1>4. Told(r, o.conn) = Rcvd(r, self)
  BY <1>2, <1>3, SameReceived
<1>5. \A p \in Peers : Hands(p, self)'
  BY <1>2, <1>4, HandsUnchanged
<1>6. FitToSend(self, r, o.conn, sent'[self][r])
  BY <1>2 DEF Fit
<1>7. FitToReceive(self, r, o.conn) /\ FitToWait(self, r, o.conn)
  BY <1>2 DEF Fit
<1>8. \A f \in S : FitFrame(self, r, o.conn, sent'[self][r], f) \/ FitSyn(f)
  BY <1>2
<1>9. \A p \in Peers : p # self => out_delivers'[p] = out_delivers[p]
  OBVIOUS
<1>10. QED BY <1>2, <1>3, <1>5, <1>6, <1>7, <1>8, <1>9, EntryStreams

LEMMA QueueNothing ==
  ASSUME TypeOK, NEW self \in Peers, out_frames' = out_frames
  PROVE  <<>> \in Seq({}) /\ Queue(self, <<>>)
<1>1. out_frames[self] \in Seq(Frame)
  BY DEF TypeOK, SocketTypeOK
<1>2. out_frames[self] \o <<>> = out_frames[self]
  BY <1>1, ConcatEmptySeq
<1>3. QED BY <1>2 DEF Queue, TypeOK, SocketTypeOK

LEMMA AppSendKeepsStreams ==
  ASSUME TypeOK, TypeOK', Fits, Streams, Handshake, Handshake', OneOpener,
         NEW self \in Peers, NEW dst \in Peers, AppSend(self, dst)
  PROVE  Streams'
<1> DEFINE s == sent[self][dst]
           c == conns[self][dst]
           b == FirstSeq(self)
<1>1. /\ self # dst /\ s < MaxSend[self] /\ handle_app_send(self, dst, s + 1)
      /\ self \in Openers \/ HasLiveConn(self, dst)
      /\ net' = net /\ delivered' = delivered
  BY DEF AppSend
<1>2. s \in Nat /\ s + 1 \in Payload /\ sent'[self][dst] = s + 1
      /\ \A p, q \in Peers : p # self \/ q # dst => sent'[p][q] = sent[p][q]
  BY DEF TypeOK, AppSend, Payload, NoPayload
<1>3. BagToSet(net') \subseteq BagToSet(net)
  BY <1>1
<1>4. Pair(self, dst) /\ Pair(dst, self) /\ ConnOK(self, dst) /\ ConnOK(dst, self)
  BY DEF Streams, Handshake
<1>5. CASE AppSendOpens(self, dst, s + 1)
  <2> DEFINE c1 == [open_initiator(self) EXCEPT !.pending = <<s + 1>>]
             f  == SynFrame(self, dst, open_initiator(self))
  <2>1. ~HasConn(self, dst) /\ Opened(self, dst) /\ ~HasConn(dst, self)
    BY <1>1, <1>4, <1>5 DEF AppSendOpens, HasLiveConn, ConnOK, Opened, OneOpener
  <2>2. s = 0 /\ b = 2 /\ 2 \in Uint16 /\ MaxSend[self] \in Nat
    BY <1>4, <2>1, SeqModAssumption, BoundsAssumption DEF Pair, Sends, FirstSeq, Opened, Uint16
  <2>3. Total(self, dst) = 0 /\ ~Synced(self, dst) /\ Rcvd(dst, self) = 0 /\ Held(dst, self) = {}
    BY <2>1 DEF Total, Synced, Rcvd, Held
  <2>4. /\ c1.state = "syn_sent" /\ c1.seq_nr = 2 /\ c1.pending = <<1>> /\ c1.inflight = <<>>
        /\ c1.ooo = {}
    BY <2>2 DEF open_initiator
  <2>5. c1 \in Conn /\ SetConn(self, dst, c1) /\ Queue(self, <<f>>) /\ out_delivers' = out_delivers
    BY <1>2, <1>5, OpenInitiatorType DEF AppSendOpens, TypeOK
  <2>6. FitSyn(f) /\ <<f>> \in Seq({f})
    BY DEF SynFrame, FitSyn
  <2> HIDE DEF c1, f
  <2>7. Len(c1.pending) = 1 /\ c1.pending[1] = 1 /\ Len(c1.inflight) = 0
    BY <2>4
  <2>8. Numbered(c1, s + 1) = 0
    BY <2>2, <2>7 DEF Numbered
  <2>9. SeqOf(b, 0 + 1) = 2
    BY <2>2, PlusNothing DEF SeqOf
  <2>10. InOrder(b, c1.inflight, 0)
    BY <2>7 DEF InOrder
  <2>11. Numbering(b, c1, s + 1)
    BY <2>2, <2>4, <2>7, <2>8, <2>9, <2>10 DEF Numbering
  <2>12. FitToSend(self, dst, c1, sent'[self][dst])
    BY <1>1, <1>2, <2>2, <2>3, <2>8, <2>11 DEF FitToSend
  <2>13. Told(dst, c1) = 0 /\ Kept(dst, c1) = {}
    BY <2>4 DEF Told, Kept
  <2>14. FitToReceive(self, dst, c1) /\ FitToWait(self, dst, c1)
    BY <2>1, <2>3, <2>4, <2>13 DEF FitToReceive, FitToWait
  <2>15. \A p \in Peers : Hands(p, self)'
    BY <1>1, <2>3, <2>5, <2>13, HandsUnchanged
  <2>16. \A g \in {f} : FitFrame(self, dst, c1, sent'[self][dst], g) \/ FitSyn(g)
    BY <2>6
  <2>17. \A p \in Peers : p # self => out_delivers'[p] = out_delivers[p]
    BY <2>5
  <2> DEFINE S == {f}
             frames == <<f>>
  <2>18. /\ frames \in Seq(S) /\ Queue(self, frames)
         /\ \A g \in S : FitFrame(self, dst, c1, sent'[self][dst], g) \/ FitSyn(g)
    BY <2>5, <2>6, <2>16
  <2> HIDE DEF S, frames
  <2>19. QED
    BY <1>1, <1>2, <1>3, <2>5, <2>12, <2>14, <2>15, <2>17, <2>18, EntryStreams
<1>6. CASE AppSendWaits(self, dst, s + 1)
  <2> DEFINE c1 == [c EXCEPT !.pending = Append(@, s + 1)]
  <2>1. HasConn(self, dst) /\ SetConn(self, dst, c1)
        /\ UNCHANGED <<out_frames, out_delivers>>
    BY <1>6 DEF AppSendWaits, HasLiveConn
  <2>2. c1 \in Conn /\ c1.state = c.state /\ Fit(self, dst, c1, s + 1)
    BY <1>1, <2>1, AppendFits
  <2>3. c \in Conn /\ Told(dst, c) = Rcvd(dst, self)
    BY <2>1, CurrentFits
  <2>4. c1.ack_nr = c.ack_nr /\ c1.ooo = c.ooo
    BY <2>3 DEF Conn
  <2> HIDE DEF c1
  <2>5. Told(dst, c1) = Rcvd(dst, self)
    BY <2>2, <2>3, <2>4, SameReceived
  <2>6. \A p \in Peers : Hands(p, self)'
    BY <1>1, <2>1, <2>2, <2>5, HandsUnchanged
  <2>7. <<>> \in Seq({}) /\ Queue(self, <<>>)
    BY <2>1, QueueNothing
  <2>8. FitToSend(self, dst, c1, sent'[self][dst]) /\ FitToReceive(self, dst, c1)
        /\ FitToWait(self, dst, c1)
    BY <1>2, <2>2 DEF Fit
  <2>9. \A p \in Peers : p # self => out_delivers'[p] = out_delivers[p]
    BY <2>1
  <2>10. \A g \in {} : FitFrame(self, dst, c1, sent'[self][dst], g) \/ FitSyn(g)
    OBVIOUS
  <2> DEFINE S == {}
             frames == <<>>
  <2>11. /\ frames \in Seq(S) /\ Queue(self, frames)
         /\ \A g \in S : FitFrame(self, dst, c1, sent'[self][dst], g) \/ FitSyn(g)
    BY <2>7, <2>10
  <2> HIDE DEF S, frames
  <2>12. QED
    BY <1>1, <1>2, <1>3, <2>1, <2>2, <2>6, <2>8, <2>9, <2>11, EntryStreams
<1>7. CASE AppSendConnected(self, dst, s + 1)
  <2> DEFINE c1 == [c EXCEPT !.pending = Append(@, s + 1)]
  <2>1. HasConn(self, dst) /\ c.state = "connected" /\ out_delivers' = out_delivers
    BY <1>7 DEF AppSendConnected
  <2>2. PICK o \in packetize(self, dst, c1) : SetConn(self, dst, o.conn) /\ Queue(self, o.frames)
    BY <1>7 DEF AppSendConnected
  <2>3. c1 \in Conn /\ c1.state = c.state /\ Fit(self, dst, c1, s + 1)
    BY <1>1, <2>1, AppendFits
  <2>4. c \in Conn /\ Told(dst, c) = Rcvd(dst, self)
    BY <2>1, CurrentFits
  <2>5. c1.ack_nr = c.ack_nr /\ c1.ooo = c.ooo
    BY <2>4 DEF Conn
  <2> HIDE DEF c1
  <2>6. Told(dst, c1) = Rcvd(dst, self)
    BY <2>3, <2>4, <2>5, SameReceived
  <2>7. Numbering(b, c1, s + 1) /\ s + 1 \in Nat /\ b \in Uint16
    BY <1>2, <2>3, FirstSeqType DEF Fit, FitToSend
  <2>8. SendStep(self, dst, c1, o, b, s + 1, Held(self, dst))
    BY <2>2, <2>3, <2>7, PacketizeSends
  <2>9. c1.state \notin {"syn_sent", "syn_recv"}
    BY <2>1, <2>3
  <2>10. QED
    BY <1>1, <1>2, <1>3, <2>1, <2>2, <2>3, <2>6, <2>8, <2>9, SendStreams
<1>8. QED BY <1>1, <1>5, <1>6, <1>7 DEF handle_app_send

-----------------------------------------------------------------------------
(* A payload leaves for the application *)

\* The first payload that waits is handed over: it is the next one of its peer.
LEMMA HandOut ==
  ASSUME NEW done \in Seq(Payload), NEW out \in Seq(Deliver), out # <<>>, NEW p, NEW n \in Nat,
         HandsOver(done, out, p, n)
  PROVE  /\ Head(out).src # p => HandsOver(done, Tail(out), p, n)
         /\ Head(out).src = p => /\ Head(out).payload = Len(done) + 1 /\ Len(done) < n
                                 /\ HandsOver(Append(done, Head(out).payload), Tail(out), p, n)
<1> DEFINE L == Len(out)
           k == Len(done)
           t == Tail(out)
<1>1. L \in Nat /\ L # 0 /\ Len(t) = L - 1 /\ k \in Nat
      /\ Head(out) = out[1] /\ \A i \in 1 .. L - 1 : t[i] = out[i + 1]
  BY HeadTailProperties, LenProperties, EmptySeq
<1>2. /\ k <= n
      /\ \A i \in 1 .. k : done[i] = i
      /\ \A i \in 1 .. L : out[i].src = p => out[i].payload \in k + 1 .. n
      /\ \A m \in k + 1 .. n : \E i \in 1 .. L : out[i].src = p /\ out[i].payload = m
      /\ \A i, j \in 1 .. L :
           i < j /\ out[i].src = p /\ out[j].src = p => out[i].payload < out[j].payload
  BY DEF HandsOver
<1> HIDE DEF L, k, t
<1>3. \A i \in 1 .. L - 1 : i + 1 \in 1 .. L /\ t[i] = out[i + 1]
  BY <1>1
<1>4. \A i \in 1 .. L : i = 1 \/ (i - 1 \in 1 .. L - 1 /\ t[i - 1] = out[i])
  BY <1>1
<1>5. 1 \in 1 .. L
  BY <1>1
<1>6. \A i, j \in 1 .. L - 1 :
        i < j /\ t[i].src = p /\ t[j].src = p => t[i].payload < t[j].payload
  <2>1. SUFFICES ASSUME NEW i \in 1 .. L - 1, NEW j \in 1 .. L - 1,
                        i < j, t[i].src = p, t[j].src = p
                 PROVE  t[i].payload < t[j].payload
    OBVIOUS
  <2>2. i + 1 \in 1 .. L /\ j + 1 \in 1 .. L /\ i + 1 < j + 1
    BY <1>1, <2>1
  <2>3. out[i + 1].payload < out[j + 1].payload
    BY <1>2, <1>3, <2>1, <2>2
  <2>4. QED BY <1>3, <2>3
<1>7. ASSUME out[1].src # p PROVE HandsOver(done, t, p, n)
  <2>1. \A i \in 1 .. L - 1 : t[i].src = p => t[i].payload \in k + 1 .. n
    BY <1>2, <1>3
  <2>2. \A m \in k + 1 .. n : \E i \in 1 .. L - 1 : t[i].src = p /\ t[i].payload = m
    <3>1. SUFFICES ASSUME NEW m \in k + 1 .. n
                   PROVE  \E i \in 1 .. L - 1 : t[i].src = p /\ t[i].payload = m
      OBVIOUS
    <3>2. PICK i \in 1 .. L : out[i].src = p /\ out[i].payload = m
      BY <1>2
    <3>3. QED BY <1>4, <1>7, <3>2
  <2>3. QED BY <1>1, <1>2, <1>6, <2>1, <2>2 DEF HandsOver, k
<1>8. ASSUME out[1].src = p
      PROVE  out[1].payload = k + 1 /\ k < n /\ HandsOver(Append(done, out[1].payload), t, p, n)
  <2> DEFINE x == out[1].payload
  <2>1. x \in k + 1 .. n
    BY <1>2, <1>5, <1>8
  <2>2. k + 1 \in k + 1 .. n
    BY <1>1, <2>1
  <2>3. PICK i \in 1 .. L : out[i].src = p /\ out[i].payload = k + 1
    BY <1>2, <2>2
  <2>4. x = k + 1
    <3>1. CASE i = 1
      BY <2>3, <3>1
    <3>2. CASE i # 1
      <4>1. 1 < i
        BY <1>1, <3>2
      <4>2. x < k + 1
        BY <1>2, <1>5, <1>8, <2>3, <4>1
      <4>3. QED BY <1>1, <2>1, <4>2
    <3>3. QED BY <3>1, <3>2
  <2> DEFINE a == Append(done, x)
  <2>5. Len(a) = k + 1 /\ (\A j \in 1 .. k : a[j] = done[j]) /\ a[k + 1] = x
    <3>1. x \in Payload
      BY <1>1, <2>4 DEF Payload, NoPayload
    <3> HIDE DEF x
    <3>2. QED BY <3>1, AppendProperties DEF k
  <2> HIDE DEF x, a
  <2>6. \A j \in 1 .. k + 1 : a[j] = j
    <3>1. \A j \in 1 .. k + 1 : j \in 1 .. k \/ j = k + 1
      BY <1>1
    <3>2. QED BY <1>2, <2>4, <2>5, <3>1
  <2>7. \A j \in 1 .. L - 1 : t[j].src = p => t[j].payload \in (k + 1) + 1 .. n
    <3>1. SUFFICES ASSUME NEW j \in 1 .. L - 1, t[j].src = p
                   PROVE  t[j].payload \in (k + 1) + 1 .. n
      OBVIOUS
    <3> DEFINE y == out[j + 1].payload
    <3>2. j + 1 \in 1 .. L /\ 1 < j + 1 /\ t[j] = out[j + 1]
      BY <1>1, <1>3
    <3>3. y \in k + 1 .. n /\ out[1].payload < y
      BY <1>2, <1>5, <1>8, <3>1, <3>2
    <3> HIDE DEF y
    <3>4. y \in (k + 1) + 1 .. n
      BY <1>1, <2>4, <3>3 DEF x
    <3>5. QED BY <3>2, <3>4 DEF y
  <2>8. \A m \in (k + 1) + 1 .. n : \E j \in 1 .. L - 1 : t[j].src = p /\ t[j].payload = m
    <3>1. SUFFICES ASSUME NEW m \in (k + 1) + 1 .. n
                   PROVE  \E j \in 1 .. L - 1 : t[j].src = p /\ t[j].payload = m
      OBVIOUS
    <3>2. m \in k + 1 .. n /\ m # k + 1
      BY <1>1
    <3>3. PICK j \in 1 .. L : out[j].src = p /\ out[j].payload = m
      BY <1>2, <3>2
    <3>4. j # 1
      BY <2>4, <3>2, <3>3 DEF x
    <3>5. QED BY <1>4, <3>3, <3>4
  <2>9. k + 1 <= n /\ k < n
    BY <1>1, <2>1
  <2>10. HandsOver(a, t, p, n)
    BY <1>1, <1>6, <2>5, <2>6, <2>7, <2>8, <2>9 DEF HandsOver
  <2>11. QED BY <2>4, <2>9, <2>10 DEF a, x
<1>9. QED BY <1>1, <1>7, <1>8 DEF t, k

LEMMA EmitKeepsStreams ==
  ASSUME TypeOK, TypeOK', Fits, Streams, NEW self \in Peers, Emit(self)
  PROVE  Streams'
<1> DEFINE out == out_delivers[self]
<1>1. UNCHANGED <<conns, sent>> /\ Frames' \subseteq Frames
  BY EmitFrames DEF Emit, EmitFront
<1>2. ASSUME NEW p \in Peers, NEW q \in Peers PROVE Rcvd(p, q)' = Rcvd(p, q)
  BY <1>1, SameEntry
<1>3. ASSUME NEW p \in Peers, NEW q \in Peers
      PROVE  Hands(p, q) /\ Rcvd(p, q) \in Nat /\ out_delivers[q] \in Seq(Deliver)
             /\ delivered[q][p] \in Seq(Payload)
  <2>1. Pair(p, q)
    BY DEF Streams
  <2>2. QED BY <2>1, PairFacts DEF Pair, TypeOK, SocketTypeOK
<1>4. \A q \in Peers : out_delivers'[q] = IF q = self THEN PopFront(out) ELSE out_delivers[q]
  BY DEF Emit, EmitFront, TypeOK, SocketTypeOK
<1>5. CASE out = <<>>
  <2>1. \A q \in Peers : out_delivers'[q] = out_delivers[q]
    BY <1>4, <1>5 DEF PopFront
  <2>2. delivered' = delivered
    BY <1>5 DEF Emit
  <2>3. \A p, q \in Peers : Hands(p, q)'
    BY <1>2, <1>3, <2>1, <2>2, HandsStill
  <2>4. QED BY <1>1, <2>3, SameStreams
<1>6. CASE out # <<>>
  <2> DEFINE h == Head(out)
  <2>1. h \in Deliver /\ h.src \in Peers
    <3>1. out \in Seq(Deliver)
      BY <1>3
    <3> HIDE DEF out
    <3>2. h \in Deliver
      BY <1>6, <3>1, HeadTailProperties
    <3>3. QED BY <3>2 DEF Deliver
  <2>2. delivered' = [delivered EXCEPT ![self][h.src] = Append(@, h.payload)]
    BY <1>6 DEF Emit
  <2>3. out_delivers'[self] = Tail(out)
    BY <1>4, <1>6 DEF PopFront
  <2> HIDE DEF h
  <2>4. \A p, q \in Peers : delivered'[q][p] = IF q = self /\ p = h.src
                                               THEN Append(delivered[q][p], h.payload)
                                               ELSE delivered[q][p]
    BY <2>1, <2>2 DEF TypeOK
  <2>5. ASSUME NEW p \in Peers, NEW q \in Peers PROVE Hands(p, q)'
    <3>1. CASE q # self
      <4>1. delivered'[q][p] = delivered[q][p] /\ out_delivers'[q] = out_delivers[q]
        BY <1>4, <2>4, <3>1
      <4>2. QED BY <1>2, <1>3, <4>1, HandsStill
    <3>2. CASE q = self
      <4>1. HandsOver(delivered[self][p], out, p, Rcvd(p, self))
        BY <1>3, <3>2 DEF Hands
      <4>2. /\ h.src # p => HandsOver(delivered[self][p], Tail(out), p, Rcvd(p, self))
            /\ h.src = p => HandsOver(Append(delivered[self][p], h.payload), Tail(out), p,
                                      Rcvd(p, self))
        BY <1>3, <1>6, <4>1, HandOut DEF h
      <4>3. HandsOver(delivered'[self][p], Tail(out), p, Rcvd(p, self))
        BY <2>4, <4>2
      <4>4. QED BY <1>2, <2>3, <3>2, <4>3 DEF Hands
    <3>3. QED BY <3>1, <3>2
  <2>6. QED BY <1>1, <2>5, SameStreams
<1>7. QED BY <1>5, <1>6

-----------------------------------------------------------------------------
(* A frame arrives: the handshake and the acknowledgements *)

\* A frame that arrives is of the one stream between two peers.
LEMMA ArriveFacts ==
  ASSUME TypeOK, Streams, Handshake, NEW f \in BagToSet(net), Arrive(f)
  PROVE  /\ f \in Frames /\ f \in Frame /\ f.src \in Peers /\ f.dst \in Peers /\ f.dst # f.src
         /\ HasConn(f.src, f.dst) /\ FrameOK(f) /\ PacketOK(f)
         /\ ConnOK(f.src, f.dst) /\ ConnOK(f.dst, f.src)
         /\ Pair(f.src, f.dst) /\ Pair(f.dst, f.src)
         /\ BagToSet(net') \subseteq BagToSet(net) /\ UNCHANGED <<sent, delivered>>
         /\ handle_frame(f.dst, f)
<1>1. f \in Frames /\ f \in Frame /\ f.src \in Peers /\ f.dst \in Peers
  BY DEF TypeOK, Frames, Frame
<1>2. BagToSet(net') \subseteq BagToSet(net)
  BY BagRemove DEF TypeOK, Arrive
<1>3. /\ FrameOK(f) /\ PacketOK(f) /\ ConnOK(f.src, f.dst) /\ ConnOK(f.dst, f.src)
      /\ Pair(f.src, f.dst) /\ Pair(f.dst, f.src)
  BY <1>1 DEF Streams, Handshake
<1>4. HasConn(f.src, f.dst)
  BY <1>3 DEF FrameOK
<1>5. f.dst # f.src
  BY <1>3, <1>4 DEF ConnOK, Opened
<1>6. QED BY <1>1, <1>2, <1>3, <1>4, <1>5 DEF Arrive

\* The first number: what precedes it, and the count of what precedes it.
LEMMA BeforeFirst ==
  ASSUME NEW b \in Uint16
  PROVE  Plus(b, -1) = SeqOf(b, 0) /\ IndexOf(b, Plus(b, -1)) = 0 /\ SeqOf(b, 1) = b
<1>1. 0 - 1 = -1 /\ 1 - 1 = 0
  OBVIOUS
<1>2. SeqOf(b, 0) = Plus(b, 0 - 1) /\ SeqOf(b, 1) = Plus(b, 1 - 1)
  BY DEF SeqOf
<1>3. Plus(b, -1) = SeqOf(b, 0) /\ SeqOf(b, 1) = b
  BY <1>1, <1>2, PlusNothing
<1>4. 0 \in Int /\ 0 <= 0 /\ 0 < SeqMod
  BY SeqModAssumption
<1>5. IndexOf(b, SeqOf(b, 0)) = 0
  BY <1>4, IndexOfSeq
<1>6. QED BY <1>3, <1>5

\* An entry that has received nothing.
LEMMA NothingReceived ==
  ASSUME NEW r, NEW c, c.ack_nr = Plus(FirstSeq(r), -1), c.ooo = {}, c.state # "syn_sent"
  PROVE  /\ Told(r, c) = 0 /\ Kept(r, c) = {}
         /\ c.ack_nr = SeqOf(FirstSeq(r), 0)
         /\ \A k \in Nat : Receiving(FirstSeq(r), c, k)
<1>1. FirstSeq(r) \in Uint16
  BY FirstSeqType
<1>2. InOrderCount(FirstSeq(r), c) = 0 /\ c.ack_nr = SeqOf(FirstSeq(r), 0)
  BY <1>1, BeforeFirst DEF InOrderCount
<1>3. QED BY <1>2 DEF Told, Kept, Holds, Receiving, BufferFrom

LEMMA AcceptNewSynStreams ==
  ASSUME TypeOK, TypeOK', Fits, Streams, Handshake, Handshake',
         NEW f \in BagToSet(net), Arrive(f), AcceptNewSyn(f.dst, f)
  PROVE  Streams'
<1> DEFINE self == f.dst
           r    == f.src
           c    == SynRecvConn(f)
           h    == header_for(self, r, c, "st_state")
           b    == FirstSeq(self)
<1>1. /\ f \in Frame /\ r \in Peers /\ self \in Peers /\ self # r
      /\ HasConn(r, self) /\ FrameOK(f) /\ PacketOK(f) /\ ConnOK(self, r)
      /\ Pair(self, r) /\ Pair(r, self)
      /\ BagToSet(net') \subseteq BagToSet(net) /\ UNCHANGED <<sent, delivered>>
  BY ArriveFacts
<1>2. f.type = "st_syn" /\ f.seq_nr = 1 /\ ~IsRetransmitOfCurrent(self, f)
      /\ f.connection_id = conns[r][self].conn_id_recv /\ Opened(r, self)
  BY <1>1 DEF AcceptNewSyn, PacketOK, FrameOK
<1>3. ~HasConn(self, r)
  BY <1>1, <1>2 DEF ConnOK, Opened, IsRetransmitOfCurrent, HasLiveConn
<1>4. b = AcceptorSeq0 /\ FirstSeq(r) = 2 /\ b \in Uint16
  BY <1>2, FirstSeqType DEF FirstSeq, Opened
<1>5. /\ Total(self, r) = 0 /\ ~Synced(self, r) /\ Rcvd(r, self) = 0 /\ Held(r, self) = {}
      /\ sent[self][r] = 0 /\ MaxSend[self] \in Nat /\ Total(r, self) \in Nat
  <2>1. Total(r, self) \in Nat
    BY <1>1, PairFacts
  <2>2. QED BY <1>1, <1>3, <2>1, BoundsAssumption DEF Total, Synced, Rcvd, Held, Pair, Sends
<1>6. /\ c \in Conn /\ c.state = "syn_recv" /\ c.seq_nr = b /\ c.ack_nr = 1
      /\ c.pending = <<>> /\ c.inflight = <<>> /\ c.ooo = {}
  BY <1>1, <1>2, <1>4, SynRecvConnType DEF SynRecvConn
<1>7. SetConn(self, r, c) /\ Queue(self, <<h>>) /\ out_delivers' = out_delivers
  BY DEF AcceptNewSyn, SynRecvConn
<1>8. h.src = self /\ h.dst = r /\ h.type = "st_state" /\ h.seq_nr = c.seq_nr /\ h.ack_nr = c.ack_nr
      /\ h.sack = {}
  BY DEF header_for
<1> HIDE DEF c, h
<1>9. Plus(2, -1) = 1
  <2>1. 2 + (-1) = 1 /\ 1 \in Uint16
    BY SeqModAssumption DEF Uint16
  <2>2. 1 = SeqMod * 0 + 1
    BY SeqModAssumption
  <2>3. 1 % SeqMod = 1
    BY <2>1, <2>2, ModUnique
  <2>4. QED BY <2>1, <2>3 DEF Plus
<1>10. /\ Told(r, c) = 0 /\ Kept(r, c) = {} /\ c.ack_nr = SeqOf(FirstSeq(r), 0)
       /\ Receiving(FirstSeq(r), c, Total(r, self))
  BY <1>4, <1>5, <1>6, <1>9, NothingReceived
<1>11. FitToSend(self, r, c, sent'[self][r])
  <2>1. Len(c.pending) = 0 /\ Len(c.inflight) = 0 /\ Numbered(c, 0) = 0
    <3>1. Len(c.pending) = 0 /\ Len(c.inflight) = 0
      BY <1>6
    <3>2. 0 - 0 = 0
      OBVIOUS
    <3>3. QED BY <3>1, <3>2 DEF Numbered
  <2>2. c.seq_nr = SeqOf(b, 0 + 1)
    BY <1>4, <1>6, BeforeFirst
  <2>3. InOrder(b, c.inflight, 0)
    BY <2>1 DEF InOrder
  <2>4. Numbering(b, c, 0)
    BY <2>1, <2>2, <2>3 DEF Numbering
  <2>5. sent'[self][r] = 0
    BY <1>1, <1>5
  <2>6. QED BY <1>5, <2>1, <2>4, <2>5 DEF FitToSend
<1>12. FitToReceive(self, r, c) /\ FitToWait(self, r, c)
  BY <1>5, <1>6, <1>10 DEF FitToReceive, FitToWait
<1>13. \A p \in Peers : Hands(p, self)'
  BY <1>1, <1>5, <1>6, <1>7, <1>10, HandsUnchanged
<1> DEFINE S == {h}
           frames == <<h>>
<1>14. frames \in Seq(S) /\ Queue(self, frames)
       /\ \A g \in S : FitFrame(self, r, c, sent'[self][r], g) \/ FitSyn(g)
  <2>1. 0 \in 0 .. 0
    OBVIOUS
  <2>2. FitFrame(self, r, c, sent'[self][r], h)
    BY <1>6, <1>8, <1>10, <2>1 DEF FitFrame
  <2>3. QED BY <1>7, <2>2
<1> HIDE DEF S, frames
<1>15. /\ \A p \in Peers : p # self => out_delivers'[p] = out_delivers[p]
       /\ \A p, q \in Peers : p # self \/ q # r => sent'[p][q] = sent[p][q]
       /\ delivered' = delivered
  BY <1>1, <1>7
<1>16. QED
  BY <1>1, <1>6, <1>7, <1>11, <1>12, <1>13, <1>14, <1>15, EntryStreams

LEMMA SameHandsAll ==
  ASSUME Streams, UNCHANGED <<conns, delivered, out_delivers>>
  PROVE  \A p, q \in Peers : Hands(p, q)'
<1> SUFFICES ASSUME NEW p \in Peers, NEW q \in Peers PROVE Hands(p, q)'
  OBVIOUS
<1>1. Hands(p, q)
  BY DEF Streams, Pair
<1>2. QED BY <1>1, SameHands

LEMMA AcceptSynAgainStreams ==
  ASSUME TypeOK, TypeOK', Fits, Streams, Handshake,
         NEW f \in BagToSet(net), Arrive(f), AcceptSynAgain(f.dst, f)
  PROVE  Streams'
<1> DEFINE self == f.dst
           r    == f.src
           c    == conns[self][r]
           h    == header_for(self, r, c, "st_state")
           b    == FirstSeq(self)
<1>1. /\ r \in Peers /\ self \in Peers
      /\ HasConn(r, self) /\ FrameOK(f) /\ ConnOK(self, r) /\ Pair(self, r) /\ Pair(r, self)
      /\ BagToSet(net') \subseteq BagToSet(net) /\ UNCHANGED <<sent, delivered>>
  BY ArriveFacts
<1>2. f.type = "st_syn" /\ Opened(r, self) /\ HasConn(self, r)
  BY <1>1 DEF AcceptSynAgain, FrameOK, IsRetransmitOfCurrent, HasLiveConn
<1>3. c.state \in {"syn_recv", "connected"} /\ Synced(self, r)
  BY <1>1, <1>2 DEF ConnOK, Opened, Synced
<1>4. c \in Conn /\ Told(r, c) = Rcvd(r, self)
      /\ Numbered(c, sent[self][r]) = Total(self, r)
      /\ FitToSend(self, r, c, sent[self][r])
  BY <1>1, <1>2, CurrentFits DEF Fit
<1>5. UNCHANGED <<conns, out_delivers>> /\ Queue(self, <<h>>)
  BY DEF AcceptSynAgain
<1>6. h.src = self /\ h.dst = r /\ h.type = "st_state" /\ h.seq_nr = c.seq_nr /\ h.ack_nr = c.ack_nr
      /\ h.sack = {}
  BY DEF header_for
<1>7. \E m \in 0 .. Rcvd(r, self) : c.ack_nr = SeqOf(FirstSeq(r), m)
  BY <1>3, <1>4, AckNumber
<1>8. ~Synced(r, self) => c.seq_nr = b
  <2>1. SUFFICES ASSUME ~Synced(r, self) PROVE c.seq_nr = b
    OBVIOUS
  <2>2. c.state = "syn_recv"
    BY <1>1, <1>2, <2>1 DEF Pair, Waits
  <2>3. Numbered(c, sent[self][r]) = 0
    BY <1>4, <2>2 DEF FitToSend
  <2>4. c.seq_nr = SeqOf(b, 0 + 1)
    BY <1>4, <2>3 DEF FitToSend, Numbering
  <2>5. QED BY <2>4, FirstSeqType, BeforeFirst
<1> HIDE DEF h
<1>9. PacketOK(h)
  BY <1>3, <1>6, <1>7, <1>8 DEF PacketOK
<1>10. \A g \in Frames' : g \in Frames \/ PacketOK(g)
  <2>1. <<h>> \in Seq({h})
    OBVIOUS
  <2>2. Frames' \subseteq Frames \cup {h}
    BY <1>1, <1>5, <2>1, QueueFrames
  <2>3. QED BY <1>9, <2>2
<1>11. \A p, q \in Peers : Hands(p, q)'
  BY <1>1, <1>5, SameHandsAll
<1>12. QED BY <1>1, <1>5, <1>10, <1>11, SameStreams

LEMMA ReceiveSynAckStreams ==
  ASSUME TypeOK, TypeOK', Fits, Streams, Handshake, Handshake',
         NEW f \in BagToSet(net), Arrive(f), ReceiveSynAck(f.dst, f)
  PROVE  Streams'
<1> DEFINE self == f.dst
           r    == f.src
           c    == conns[self][r]
           c1   == [c EXCEPT !.state = "connected", !.ack_nr = Plus(f.seq_nr, -1)]
           b    == FirstSeq(self)
           s    == sent[self][r]
<1>1. /\ r \in Peers /\ self \in Peers /\ self # r /\ PacketOK(f) /\ Pair(self, r) /\ Pair(r, self)
      /\ BagToSet(net') \subseteq BagToSet(net) /\ UNCHANGED <<sent, delivered>>
  BY ArriveFacts
<1>2. HasConn(self, r) /\ c.state = "syn_sent" /\ f.type = "st_state"
      /\ out_delivers' = out_delivers
  BY DEF ReceiveSynAck, Matching
<1>3. PICK o \in packetize(self, r, c1) : SetConn(self, r, o.conn) /\ Queue(self, o.frames)
  BY DEF ReceiveSynAck
<1>4. ~Synced(self, r) /\ Synced(r, self) /\ f.seq_nr = FirstSeq(r)
  BY <1>1, <1>2 DEF Synced, PacketOK
<1>5. c \in Conn /\ Fit(self, r, c, s) /\ Total(r, self) \in Nat
      /\ Rcvd(r, self) = 0 /\ Held(r, self) = {} /\ c.ooo = {}
  <2>1. Total(r, self) \in Nat
    BY <1>1, PairFacts
  <2>2. c \in Conn /\ Fit(self, r, c, s)
    BY <1>1, <1>2, CurrentFits
  <2>3. QED BY <1>1, <1>2, <1>4, <2>1, <2>2 DEF Rcvd, Held, Pair, Receives
<1>6. /\ c1 \in Conn /\ c1.state = "connected" /\ c1.ack_nr = Plus(FirstSeq(r), -1)
      /\ c1.seq_nr = c.seq_nr /\ c1.pending = c.pending /\ c1.inflight = c.inflight /\ c1.ooo = {}
  <2>1. FirstSeq(r) \in Int /\ -1 \in Int
    BY FirstSeqType, SeqModAssumption DEF Uint16
  <2>2. Plus(FirstSeq(r), -1) \in Uint16
    BY <2>1, PlusType
  <2>3. QED BY <1>4, <1>5, <2>2 DEF Conn, ConnState
<1> HIDE DEF c1
<1>7. Told(r, c1) = 0 /\ Kept(r, c1) = {} /\ Receiving(FirstSeq(r), c1, Total(r, self))
  BY <1>5, <1>6, NothingReceived
<1>8. Numbered(c1, s) = Numbered(c, s) /\ Numbering(b, c1, s)
  <2>1. Numbering(b, c, s)
    BY <1>5 DEF Fit, FitToSend
  <2>2. Numbered(c1, s) = Numbered(c, s)
    BY <1>6 DEF Numbered
  <2>3. QED BY <1>6, <2>1, <2>2 DEF Numbering
<1>9. Fit(self, r, c1, s)
  <2>1. FitToSend(self, r, c1, s)
    BY <1>5, <1>6, <1>8 DEF Fit, FitToSend
  <2>2. FitToReceive(self, r, c1)
    BY <1>4, <1>5, <1>6, <1>7 DEF FitToReceive
  <2>3. FitToWait(self, r, c1)
    BY <1>4, <1>6 DEF FitToWait
  <2>4. QED BY <2>1, <2>2, <2>3 DEF Fit
<1>10. s \in Nat /\ b \in Uint16 /\ s = sent'[self][r]
  BY <1>1, FirstSeqType DEF TypeOK
<1>11. SendStep(self, r, c1, o, b, s, Held(self, r))
  BY <1>1, <1>3, <1>6, <1>8, <1>10, PacketizeSends
<1>12. c1.state \notin {"syn_sent", "syn_recv"} /\ Told(r, c1) = Rcvd(r, self)
  BY <1>5, <1>6, <1>7
<1>13. \A p, q \in Peers : p # self \/ q # r => sent'[p][q] = sent[p][q]
  BY <1>1
<1>14. QED
  BY <1>1, <1>2, <1>3, <1>6, <1>9, <1>10, <1>11, <1>12, <1>13, SendStreams

LEMMA ReceiveStateStreams ==
  ASSUME TypeOK, TypeOK', Fits, Streams, Handshake, Handshake',
         NEW f \in BagToSet(net), Arrive(f), ReceiveState(f.dst, f)
  PROVE  Streams'
<1> DEFINE self == f.dst
           r    == f.src
           c    == conns[self][r]
           b    == FirstSeq(self)
           s    == sent[self][r]
           K    == Held(self, r)
<1>1. /\ f \in Frames /\ f \in Frame /\ r \in Peers /\ self \in Peers /\ self # r
      /\ ConnOK(self, r) /\ Pair(self, r)
      /\ BagToSet(net') \subseteq BagToSet(net) /\ UNCHANGED <<sent, delivered>>
  BY ArriveFacts
<1>2. HasConn(self, r) /\ c.state # "syn_sent" /\ f.type = "st_state"
      /\ out_delivers' = out_delivers
  BY DEF ReceiveState, Matching
<1>3. PICK o \in process_acks(self, r, c, f) : SetConn(self, r, o.conn) /\ Queue(self, o.frames)
  BY DEF ReceiveState
<1>4. /\ c \in Conn /\ Fit(self, r, c, s) /\ Told(r, c) = Rcvd(r, self)
      /\ Numbered(c, s) = Total(self, r)
  BY <1>1, <1>2, CurrentFits
<1>5. AckFits(b, f, Numbered(c, s), K)
  BY <1>1, <1>2, <1>4, PacketAcks
<1>6. s \in Nat /\ 2 * s < SeqMod /\ b \in Uint16 /\ s = sent'[self][r]
  BY <1>1, PairFacts, FirstSeqType
<1>7. Numbering(b, c, s)
  BY <1>4 DEF Fit, FitToSend
<1>8. SendStep(self, r, c, o, b, s, K)
  BY <1>1, <1>3, <1>4, <1>5, <1>6, <1>7, ProcessAcksSends
<1>9. c.state \notin {"syn_sent", "syn_recv"} \/ o.conn.pending = c.pending
  <2>1. CASE c.state = "connected"
    BY <2>1
  <2>2. CASE c.state # "connected"
    BY <1>3, <1>4, <2>2, ProcessAcksWaits
  <2>3. QED BY <2>1, <2>2
<1>10. \A p, q \in Peers : p # self \/ q # r => sent'[p][q] = sent[p][q]
  BY <1>1
<1>11. QED
  BY <1>1, <1>2, <1>3, <1>4, <1>6, <1>8, <1>9, <1>10, SendStreams

-----------------------------------------------------------------------------
(* A frame arrives: data *)

FitFrames(self, r, c, total) == {g \in Frame : FitFrame(self, r, c, total, g)}

\* A packet stays fit while the entry it was sent from moves on.
LEMMA FitFramesGrow ==
  ASSUME NEW self, NEW r, NEW c, NEW d, NEW total, d.state # "syn_sent",
         Told(r, c) \in Nat, Told(r, d) \in Nat, Told(r, c) <= Told(r, d),
         Kept(r, c) \subseteq Kept(r, d),
         Numbered(c, total) \in Nat, Numbered(d, total) \in Nat,
         Numbered(c, total) <= Numbered(d, total)
  PROVE  FitFrames(self, r, c, total) \subseteq FitFrames(self, r, d, total)
<1> SUFFICES ASSUME NEW g, FitFrame(self, r, c, total, g) PROVE FitFrame(self, r, d, total, g)
  BY DEF FitFrames
<1>1. \E m \in 0 .. Told(r, d) : g.ack_nr = SeqOf(FirstSeq(r), m)
  <2>1. PICK m \in 0 .. Told(r, c) : g.ack_nr = SeqOf(FirstSeq(r), m)
    BY DEF FitFrame
  <2>2. m \in 0 .. Told(r, d)
    OBVIOUS
  <2>3. QED BY <2>1, <2>2
<1>2. \A x \in g.sack : \E n \in Kept(r, d) : x = SeqOf(FirstSeq(r), n)
  BY DEF FitFrame
<1>3. \A n \in 1 .. Numbered(c, total) : n \in 1 .. Numbered(d, total)
  OBVIOUS
<1>4. QED BY <1>1, <1>2, <1>3 DEF FitFrame

\* What is received goes behind what waits.
LEMMA HandIn ==
  ASSUME NEW done \in Seq(Payload), NEW out \in Seq(Deliver), NEW r \in Peers,
         NEW n \in Nat, NEW m \in Nat, n <= m, NEW new,
         new = [i \in 1 .. m - n |-> [src |-> r, payload |-> n + i]], NEW p, NEW k
  PROVE  /\ p = r /\ HandsOver(done, out, r, n) => HandsOver(done, out \o new, p, m)
         /\ p # r /\ HandsOver(done, out, p, k) => HandsOver(done, out \o new, p, k)
<1> DEFINE L == Len(out)
           D == m - n
           q == out \o new
           l == Len(done)
<1>1. L \in Nat /\ D \in Nat /\ l \in Nat
  BY LenProperties
<1>2. \A i \in 1 .. D : new[i].src = r /\ new[i].payload = n + i
  OBVIOUS
<1>3. new \in Seq([src : {r}, payload : Nat]) /\ Len(new) = D
  <2>1. \A i \in 1 .. D : [src |-> r, payload |-> n + i] \in [src : {r}, payload : Nat]
    OBVIOUS
  <2> HIDE DEF D
  <2>2. QED BY <1>1, <2>1, IsASeq DEF D
<1>4. Len(q) = L + D /\ \A i \in 1 .. L + D : q[i] = IF i <= L THEN out[i] ELSE new[i - L]
  <2>1. out \in Seq(Deliver \cup [src : {r}, payload : Nat])
        /\ new \in Seq(Deliver \cup [src : {r}, payload : Nat])
    BY <1>3, SeqMonotonic
  <2> HIDE DEF D
  <2>2. QED BY <1>3, <2>1, ConcatProperties
<1> HIDE DEF q, L, l, D
<1>5. \A i \in 1 .. L : i \in 1 .. L + D /\ q[i] = out[i]
  BY <1>1, <1>4
<1>6. \A i \in 1 .. L + D : \/ i \in 1 .. L /\ q[i] = out[i]
                            \/ i - L \in 1 .. D /\ ~(i <= L) /\ q[i].src = r
                               /\ q[i].payload = n + (i - L)
  <2>1. SUFFICES ASSUME NEW i \in 1 .. L + D
                 PROVE  \/ i \in 1 .. L /\ q[i] = out[i]
                        \/ i - L \in 1 .. D /\ ~(i <= L) /\ q[i].src = r
                           /\ q[i].payload = n + (i - L)
    OBVIOUS
  <2>2. CASE i <= L
    <3>1. i \in 1 .. L
      BY <1>1, <2>2
    <3>2. q[i] = out[i]
      BY <1>4, <2>2
    <3>3. QED BY <3>1, <3>2
  <2>3. CASE ~(i <= L)
    <3>1. i - L \in 1 .. D
      BY <1>1, <2>3
    <3>2. q[i] = new[i - L]
      BY <1>4, <2>3
    <3>3. new[i - L].src = r /\ new[i - L].payload = n + (i - L)
      BY <1>2, <3>1
    <3>4. QED BY <2>3, <3>1, <3>2, <3>3
  <2>4. QED BY <2>2, <2>3
<1>7. ASSUME p = r, HandsOver(done, out, r, n) PROVE HandsOver(done, q, p, m)
  <2>1. /\ l <= n
        /\ \A i \in 1 .. l : done[i] = i
        /\ \A i \in 1 .. L : out[i].src = r => out[i].payload \in l + 1 .. n
        /\ \A x \in l + 1 .. n : \E i \in 1 .. L : out[i].src = r /\ out[i].payload = x
        /\ \A i, j \in 1 .. L :
             i < j /\ out[i].src = r /\ out[j].src = r => out[i].payload < out[j].payload
    BY <1>7 DEF HandsOver, l, L
  <2>2. D = m - n /\ l <= m
    BY <1>1, <2>1 DEF D
  <2>3. \A i \in 1 .. L + D : q[i].src = r => q[i].payload \in l + 1 .. m
    <3>1. SUFFICES ASSUME NEW i \in 1 .. L + D, q[i].src = r PROVE q[i].payload \in l + 1 .. m
      OBVIOUS
    <3>2. CASE i \in 1 .. L /\ q[i] = out[i]
      <4>1. q[i].payload \in l + 1 .. n
        BY <2>1, <3>1, <3>2
      <4>2. QED BY <1>1, <4>1
    <3>3. CASE i - L \in 1 .. D /\ q[i].payload = n + (i - L)
      <4>1. n + (i - L) \in l + 1 .. m
        BY <1>1, <2>1, <2>2, <3>3
      <4>2. QED BY <3>3, <4>1
    <3>4. QED BY <1>6, <3>2, <3>3
  <2>4. \A x \in l + 1 .. m : \E i \in 1 .. L + D : q[i].src = r /\ q[i].payload = x
    <3>1. SUFFICES ASSUME NEW x \in l + 1 .. m
                   PROVE  \E i \in 1 .. L + D : q[i].src = r /\ q[i].payload = x
      OBVIOUS
    <3>2. CASE x <= n
      <4>1. x \in l + 1 .. n
        BY <1>1, <3>2
      <4>2. PICK i \in 1 .. L : out[i].src = r /\ out[i].payload = x
        BY <2>1, <4>1
      <4>3. QED BY <1>5, <4>2
    <3>3. CASE ~(x <= n)
      <4>1. L + (x - n) \in 1 .. L + D /\ ~(L + (x - n) <= L) /\ (L + (x - n)) - L = x - n
            /\ n + (x - n) = x
        BY <1>1, <2>2, <3>3
      <4>2. q[L + (x - n)].src = r /\ q[L + (x - n)].payload = x
        BY <1>6, <4>1
      <4>3. QED BY <4>1, <4>2
    <3>4. QED BY <3>2, <3>3
  <2>5. ASSUME NEW i \in 1 .. L + D, NEW j \in 1 .. L + D, i < j, q[i].src = r, q[j].src = r
        PROVE  q[i].payload < q[j].payload
    <3>1. CASE j \in 1 .. L /\ q[j] = out[j]
      <4>1. i \in 1 .. L
        BY <1>1, <2>5, <3>1
      <4>2. q[i] = out[i]
        BY <1>5, <4>1
      <4>3. QED BY <2>1, <2>5, <3>1, <4>1, <4>2
    <3>2. CASE j - L \in 1 .. D /\ q[j].payload = n + (j - L)
      <4>1. CASE i \in 1 .. L /\ q[i] = out[i]
        <5>1. q[i].payload \in l + 1 .. n
          BY <2>1, <2>5, <4>1
        <5>2. q[i].payload < n + (j - L)
          BY <1>1, <3>2, <5>1
        <5>3. QED BY <3>2, <5>2
      <4>2. CASE i - L \in 1 .. D /\ q[i].payload = n + (i - L)
        <5>1. n + (i - L) < n + (j - L)
          BY <1>1, <2>5
        <5>2. QED BY <3>2, <4>2, <5>1
      <4>3. QED BY <1>6, <4>1, <4>2
    <3>3. QED BY <1>6, <3>1, <3>2
  <2>6. QED BY <1>4, <1>7, <2>1, <2>2, <2>3, <2>4, <2>5 DEF HandsOver, l
<1>8. ASSUME p # r, HandsOver(done, out, p, k) PROVE HandsOver(done, q, p, k)
  <2>1. /\ l <= k
        /\ \A i \in 1 .. l : done[i] = i
        /\ \A i \in 1 .. L : out[i].src = p => out[i].payload \in l + 1 .. k
        /\ \A x \in l + 1 .. k : \E i \in 1 .. L : out[i].src = p /\ out[i].payload = x
        /\ \A i, j \in 1 .. L :
             i < j /\ out[i].src = p /\ out[j].src = p => out[i].payload < out[j].payload
    BY <1>8 DEF HandsOver, l, L
  <2>2. \A i \in 1 .. L + D : q[i].src = p => i \in 1 .. L /\ q[i] = out[i]
    BY <1>6, <1>8
  <2>3. \A x \in l + 1 .. k : \E i \in 1 .. L + D : q[i].src = p /\ q[i].payload = x
    BY <1>5, <2>1
  <2>4. QED BY <1>4, <2>1, <2>2, <2>3 DEF HandsOver, l
<1>9. QED BY <1>7, <1>8 DEF q

\* The queue of another peer's payloads is as it was.
LEMMA HandInOther ==
  ASSUME NEW done \in Seq(Payload), NEW out \in Seq(Deliver), NEW r \in Peers,
         NEW n \in Nat, NEW m \in Nat, n <= m, NEW new,
         new = [i \in 1 .. m - n |-> [src |-> r, payload |-> n + i]],
         NEW p, NEW k, p # r, HandsOver(done, out, p, k)
  PROVE  HandsOver(done, out \o new, p, k)
BY HandIn

\* The payloads that the handshake kept back leave when the first data come.
LEMMA FlushFits ==
  ASSUME NEW self \in Peers, NEW r \in Peers, NEW c \in Conn, NEW total \in Nat,
         c.state \in {"syn_recv", "connected"}, Fit(self, r, c, total), Synced(r, self),
         Total(self, r) \in Nat, NEW o \in OnFirstData(self, r, c)
  PROVE  /\ o.conn \in Conn /\ o.conn.state = "connected" /\ Fit(self, r, o.conn, total)
         /\ Told(r, o.conn) = Told(r, c) /\ Kept(r, o.conn) = Kept(r, c)
         /\ o.frames \in Seq(FitFrames(self, r, o.conn, total))
<1> DEFINE b == FirstSeq(self)
           K == Held(self, r)
<1>1. CASE c.state = "syn_recv"
  <2> DEFINE c1 == [c EXCEPT !.state = "connected"]
  <2>1. /\ c1 \in Conn /\ c1.state = "connected" /\ c1.ack_nr = c.ack_nr /\ c1.ooo = c.ooo
        /\ c1.seq_nr = c.seq_nr /\ c1.pending = c.pending /\ c1.inflight = c.inflight
    BY DEF Conn, ConnState
  <2>2. o \in packetize(self, r, c1)
    BY <1>1 DEF OnFirstData
  <2> HIDE DEF c1
  <2>3. Numbered(c1, total) = Numbered(c, total) /\ Numbering(b, c1, total)
    <3>1. Numbering(b, c, total)
      BY DEF Fit, FitToSend
    <3>2. Numbered(c1, total) = Numbered(c, total)
      BY <2>1 DEF Numbered
    <3>3. QED BY <2>1, <3>1, <3>2 DEF Numbering
  <2>4. /\ InOrderCount(FirstSeq(r), c1) = InOrderCount(FirstSeq(r), c)
        /\ Holds(FirstSeq(r), c1) = Holds(FirstSeq(r), c)
    BY <2>1 DEF InOrderCount, Holds
  <2>5. Told(r, c1) = Told(r, c) /\ Kept(r, c1) = Kept(r, c)
    BY <1>1, <2>1, <2>4 DEF Told, Kept
  <2>6. Fit(self, r, c1, total)
    <3>1. FitToSend(self, r, c1, total)
      BY <2>1, <2>3 DEF Fit, FitToSend
    <3>2. Receiving(FirstSeq(r), c, Total(r, self)) => Receiving(FirstSeq(r), c1, Total(r, self))
      BY <2>1, <2>4 DEF Receiving, BufferFrom
    <3>3. FitToReceive(self, r, c1)
      BY <1>1, <2>1, <2>5, <3>2 DEF Fit, FitToReceive
    <3>4. FitToWait(self, r, c1)
      BY <2>1 DEF FitToWait
    <3>5. QED BY <3>1, <3>3, <3>4 DEF Fit
  <2>7. b \in Uint16
    BY FirstSeqType
  <2>8. SendStep(self, r, c1, o, b, total, K)
    BY <2>1, <2>2, <2>3, <2>7, PacketizeSends
  <2>9. c1.state \notin {"syn_sent", "syn_recv"}
    BY <2>1
  <2> DEFINE DS == DataUpTo(self, r, c1, b, Numbered(o.conn, total))
  <2>10. /\ o.conn \in Conn /\ o.conn.state = c1.state /\ Fit(self, r, o.conn, total)
         /\ \A g \in DS : FitFrame(self, r, o.conn, total, g)
    BY <2>1, <2>6, <2>8, <2>9, SendKeepsFit
  <2>11. o.frames \in Seq(DS) /\ o.conn.ack_nr = c1.ack_nr /\ o.conn.ooo = c1.ooo
    BY <2>8 DEF SendStep
  <2>12. DS \subseteq FitFrames(self, r, o.conn, total)
    BY <2>10 DEF FitFrames, DataUpTo, StreamFrame
  <2>13. o.frames \in Seq(FitFrames(self, r, o.conn, total))
    <3> HIDE DEF DS
    <3>1. QED BY <2>11, <2>12, SeqMonotonic
  <2>14. Told(r, o.conn) = Told(r, c1) /\ Kept(r, o.conn) = Kept(r, c1)
    BY <2>10, <2>11, SameReceived
  <2>15. QED BY <2>1, <2>5, <2>10, <2>13, <2>14
<1>2. CASE c.state = "connected"
  <2>1. o = [conn |-> c, frames |-> <<>>]
    BY <1>2 DEF OnFirstData
  <2>2. o.conn = c /\ o.frames = <<>>
    BY <2>1
  <2>3. <<>> \in Seq(FitFrames(self, r, c, total))
    OBVIOUS
  <2>4. QED BY <1>2, <2>2, <2>3
<1>3. QED BY <1>1, <1>2

\* What a data packet of the stream lets its receiver assume.
LEMMA DataFacts ==
  ASSUME TypeOK, Fits, Streams, Handshake,
         NEW f \in BagToSet(net), Arrive(f), ReceiveData(f.dst, f)
  PROVE  /\ f.type = "st_data" /\ HasConn(f.dst, f.src) /\ Synced(f.src, f.dst)
         /\ f.completing \in 1 .. Total(f.src, f.dst)
         /\ f.seq_nr = SeqOf(FirstSeq(f.src), f.completing)
         /\ conns[f.dst][f.src].state \in {"syn_recv", "connected"}
<1> DEFINE self == f.dst
           r    == f.src
<1>1. /\ f \in Frames /\ r \in Peers /\ self \in Peers /\ PacketOK(f) /\ HasConn(r, self)
      /\ ConnOK(self, r) /\ Pair(self, r) /\ Pair(r, self)
  BY ArriveFacts
<1>2. f.type = "st_data" /\ HasConn(self, r)
  BY DEF ReceiveData, Matching
<1>3. Synced(r, self) /\ f.completing \in 1 .. Total(r, self)
      /\ f.seq_nr = SeqOf(FirstSeq(r), f.completing)
  BY <1>1, <1>2 DEF PacketOK
<1>4. Total(r, self) # 0
  <2>1. Total(r, self) \in Nat
    BY <1>1, PairFacts
  <2>2. QED BY <1>3, <2>1
<1>5. conns[r][self].state # "syn_recv"
  BY <1>1, <1>4 DEF Pair, Sends
<1>6. Synced(self, r)
  BY <1>1, <1>2, <1>5 DEF Pair, Waits
<1>7. conns[self][r].state \in {"syn_recv", "connected"}
  BY <1>1, <1>2, <1>6 DEF ConnOK, Synced
<1>8. QED BY <1>2, <1>3, <1>7

LEMMA ReceiveDataStreams ==
  ASSUME TypeOK, TypeOK', Fits, Streams, Handshake, Handshake',
         NEW f \in BagToSet(net), Arrive(f), ReceiveData(f.dst, f)
  PROVE  Streams'
<1> DEFINE self == f.dst
           r    == f.src
           c    == conns[self][r]
           b    == FirstSeq(self)
           a    == FirstSeq(r)
           s    == sent[self][r]
           t    == Total(r, self)
           K    == Held(self, r)
           N(d) == Numbered(d, s)
<1>1. /\ f \in Frames /\ f \in Frame /\ r \in Peers /\ self \in Peers /\ self # r
      /\ Pair(self, r) /\ Pair(r, self)
      /\ BagToSet(net') \subseteq BagToSet(net) /\ UNCHANGED <<sent, delivered>>
  BY ArriveFacts
<1>2. /\ f.type = "st_data" /\ HasConn(self, r) /\ Synced(r, self)
      /\ f.completing \in 1 .. t /\ f.seq_nr = SeqOf(a, f.completing)
      /\ c.state \in {"syn_recv", "connected"}
  BY DataFacts
<1>3. PICK o1 \in OnFirstData(self, r, c) :
        \E o2 \in process_acks(self, r, o1.conn, f) :
        \E o3 \in receive_data(self, r, o2.conn, f) :
          /\ SetConn(self, r, o3.conn)
          /\ Queue(self, o1.frames \o o2.frames \o o3.frames)
          /\ out_delivers' = [out_delivers EXCEPT ![self] = @ \o o3.delivers]
  BY DEF ReceiveData
<1>4. PICK o2 \in process_acks(self, r, o1.conn, f) :
        \E o3 \in receive_data(self, r, o2.conn, f) :
          /\ SetConn(self, r, o3.conn)
          /\ Queue(self, o1.frames \o o2.frames \o o3.frames)
          /\ out_delivers' = [out_delivers EXCEPT ![self] = @ \o o3.delivers]
  BY <1>3
<1>5. PICK o3 \in receive_data(self, r, o2.conn, f) :
        /\ SetConn(self, r, o3.conn)
        /\ Queue(self, o1.frames \o o2.frames \o o3.frames)
        /\ out_delivers' = [out_delivers EXCEPT ![self] = @ \o o3.delivers]
  BY <1>4
<1>6. /\ c \in Conn /\ Fit(self, r, c, s) /\ Told(r, c) = Rcvd(r, self) /\ Kept(r, c) = Held(r, self)
      /\ N(c) = Total(self, r)
  BY <1>1, <1>2, CurrentFits
<1>7. /\ s \in Nat /\ 2 * s < SeqMod /\ Total(self, r) \in Nat /\ Rcvd(r, self) \in Nat
      /\ t \in Nat /\ 2 * t < SeqMod /\ b \in Uint16 /\ a \in Uint16 /\ s = sent'[self][r]
  BY <1>1, PairFacts, FirstSeqType
<1>8. /\ o1.conn \in Conn /\ o1.conn.state = "connected" /\ Fit(self, r, o1.conn, s)
      /\ Told(r, o1.conn) = Rcvd(r, self) /\ Kept(r, o1.conn) = Held(r, self)
      /\ o1.frames \in Seq(FitFrames(self, r, o1.conn, s))
  BY <1>1, <1>2, <1>6, <1>7, FlushFits
<1>9. Numbering(b, o1.conn, s) /\ Total(self, r) <= N(o1.conn) /\ N(o1.conn) \in Nat
  BY <1>7, <1>8, NumberedType DEF Fit, FitToSend, Numbering
<1>10. AckFits(b, f, N(o1.conn), K)
  <2>1. AckFits(b, f, Total(self, r), K)
    BY <1>1, <1>2, PacketAcks
  <2>2. /\ \A m \in 0 .. Total(self, r) : m \in 0 .. N(o1.conn)
        /\ \A n \in 1 .. Total(self, r) : n \in 1 .. N(o1.conn)
    BY <1>7, <1>9
  <2>3. QED BY <2>1, <2>2 DEF AckFits
<1>11. SendStep(self, r, o1.conn, o2, b, s, K)
  BY <1>1, <1>4, <1>7, <1>8, <1>9, <1>10, ProcessAcksSends
<1> DEFINE DS == DataUpTo(self, r, o1.conn, b, N(o2.conn))
<1>12. /\ o2.conn \in Conn /\ o2.conn.state = "connected" /\ Fit(self, r, o2.conn, s)
       /\ \A g \in DS : FitFrame(self, r, o2.conn, s, g)
  <2> DEFINE c1 == o1.conn
             s1 == s
             self1 == self
             r1 == r
  <2>1. /\ c1.state \notin {"syn_sent", "syn_recv"} /\ c1 \in Conn /\ Fit(self1, r1, c1, s1)
        /\ SendStep(self1, r1, c1, o2, FirstSeq(self1), s1, Held(self1, r1))
        /\ s1 \in Nat /\ Total(self1, r1) \in Nat /\ self1 \in Peers /\ r1 \in Peers
        /\ c1.state = "connected"
    BY <1>1, <1>7, <1>8, <1>11
  <2> HIDE DEF c1, s1, self1, r1
  <2>2. /\ o2.conn \in Conn /\ o2.conn.state = c1.state /\ Fit(self1, r1, o2.conn, s1)
        /\ \A g \in DataUpTo(self1, r1, c1, FirstSeq(self1), Numbered(o2.conn, s1)) :
             FitFrame(self1, r1, o2.conn, s1, g)
    BY <2>1, SendKeepsFit
  <2>3. QED BY <2>1, <2>2 DEF c1, s1, self1, r1
<1>13. /\ o2.frames \in Seq(DS) /\ o2.conn.ack_nr = o1.conn.ack_nr /\ o2.conn.ooo = o1.conn.ooo
       /\ Len(o2.conn.pending) <= Len(o1.conn.pending)
  BY <1>11 DEF SendStep
<1>14. Told(r, o2.conn) = Rcvd(r, self) /\ Kept(r, o2.conn) = Held(r, self)
  BY <1>8, <1>12, <1>13, SameReceived
<1>15. o2.frames \in Seq(FitFrames(self, r, o2.conn, s))
  <2>1. DS \subseteq FitFrames(self, r, o2.conn, s)
    BY <1>12 DEF FitFrames, DataUpTo, StreamFrame
  <2> HIDE DEF DS
  <2>2. QED BY <1>13, <2>1, SeqMonotonic
<1> HIDE DEF DS
<1>16. N(o2.conn) \in Nat /\ N(o1.conn) <= N(o2.conn)
  <2>1. N(o2.conn) \in Nat
    BY <1>7, <1>12, NumberedType DEF Fit, FitToSend, Numbering
  <2>2. Len(o1.conn.pending) \in Nat /\ Len(o2.conn.pending) \in Nat
    BY <1>8, <1>12, LenProperties DEF Conn
  <2>3. s - Len(o1.conn.pending) <= s - Len(o2.conn.pending)
    <3> DEFINE x == Len(o1.conn.pending)
               y == Len(o2.conn.pending)
               z == s
    <3>1. x \in Nat /\ y \in Nat /\ z \in Nat /\ y <= x
      BY <1>7, <1>13, <2>2
    <3> HIDE DEF x, y, z
    <3>2. z - x <= z - y
      BY <3>1
    <3>3. QED BY <3>2 DEF x, y, z
  <2>4. QED BY <2>1, <2>3 DEF Numbered
<1>17. InOrderCount(a, o2.conn) = Rcvd(r, self) /\ Holds(a, o2.conn) = Held(r, self)
       /\ Receiving(a, o2.conn, t)
  BY <1>12, <1>14 DEF Told, Kept, Fit, FitToReceive
<1>18. Keeps(self, r, o2.conn, o3)
  BY <1>1, <1>2, <1>5, <1>12, ReceiveDataKeeps
<1> DEFINE R1 == InOrderCount(a, o3.conn)
           R  == Rcvd(r, self)
<1>19. /\ R <= R1
       /\ o3.delivers = [i \in 1 .. R1 - R |-> [src |-> r, payload |-> R + i]]
       /\ Receiving(a, o3.conn, t)
       /\ Held(r, self) \subseteq Holds(a, o3.conn)
       /\ SameSender(o2.conn, o3.conn)
       /\ \E ack : o3.frames = <<ack>> /\ AckOfHeld(a, ack, o3.conn) /\ ack.type = "st_state"
  BY <1>1, <1>2, <1>5, <1>7, <1>12, <1>17, ReceiveDataAccepts
<1>20. o3.conn \in Conn /\ o3.conn.state = "connected"
  BY <1>12, <1>18 DEF Keeps
<1>21. Told(r, o3.conn) = R1 /\ Kept(r, o3.conn) = Holds(a, o3.conn) /\ R1 \in Nat
       /\ \E m \in 0 .. Told(r, o3.conn) : o3.conn.ack_nr = SeqOf(a, m)
  <2>1. o3.conn.state # "syn_sent"
    BY <1>20
  <2>2. Told(r, o3.conn) = R1 /\ Kept(r, o3.conn) = Holds(a, o3.conn)
    BY <2>1 DEF Told, Kept
  <2>3. QED BY <1>20, <2>1, <2>2, AckNumber
<1> HIDE DEF R1, R
<1>22. /\ N(o3.conn) = N(o2.conn) /\ Numbering(b, o3.conn, s)
       /\ o3.conn.inflight = o2.conn.inflight
  <2>1. o3.conn.pending = o2.conn.pending /\ o3.conn.seq_nr = o2.conn.seq_nr
        /\ o3.conn.inflight = o2.conn.inflight
    BY <1>19 DEF SameSender
  <2>2. Numbering(b, o2.conn, s)
    BY <1>12 DEF Fit, FitToSend
  <2>3. N(o3.conn) = N(o2.conn)
    BY <2>1 DEF Numbered
  <2>4. QED BY <2>1, <2>2, <2>3 DEF Numbering
<1>23. FitToSend(self, r, o3.conn, s)
  BY <1>12, <1>20, <1>22 DEF Fit, FitToSend
<1>24. FitToReceive(self, r, o3.conn)
  BY <1>19, <1>20, <1>21 DEF FitToReceive, R
<1>25. FitToWait(self, r, o3.conn)
  BY <1>2, <1>20 DEF FitToWait
<1> DEFINE S == FitFrames(self, r, o3.conn, s)
           frames == o1.frames \o o2.frames \o o3.frames
<1>26. /\ FitFrames(self, r, o1.conn, s) \subseteq S
       /\ FitFrames(self, r, o2.conn, s) \subseteq S
  <2>1. Told(r, o1.conn) = R /\ Told(r, o2.conn) = R /\ R \in Nat /\ R <= Told(r, o3.conn)
        /\ Told(r, o3.conn) \in Nat
    BY <1>7, <1>8, <1>14, <1>19, <1>21 DEF R
  <2>2. Kept(r, o1.conn) \subseteq Kept(r, o3.conn) /\ Kept(r, o2.conn) \subseteq Kept(r, o3.conn)
    BY <1>8, <1>14, <1>19, <1>21
  <2>3. N(o1.conn) \in Nat /\ N(o2.conn) \in Nat /\ N(o3.conn) \in Nat
        /\ N(o1.conn) <= N(o3.conn) /\ N(o2.conn) <= N(o3.conn)
    BY <1>9, <1>16, <1>22
  <2>4. o3.conn.state # "syn_sent"
    BY <1>20
  <2>5. QED BY <2>1, <2>2, <2>3, <2>4, FitFramesGrow
<1>27. o3.frames \in Seq(S)
  <2>1. PICK ack : o3.frames = <<ack>> /\ AckOfHeld(a, ack, o3.conn) /\ ack.type = "st_state"
    BY <1>19
  <2>2. ack \in StreamFrame(self, r, o2.conn)
    <3>1. <<ack>> \in Seq(StreamFrame(self, r, o2.conn))
      BY <1>18, <2>1 DEF Keeps
    <3>2. QED BY <3>1
  <2>3. ack \in Frame /\ ack.src = self /\ ack.dst = r
    BY <2>2 DEF StreamFrame
  <2>4. FitFrame(self, r, o3.conn, s, ack)
    BY <1>2, <1>20, <1>21, <2>1, <2>3 DEF FitFrame, AckOfHeld
  <2>5. ack \in S
    BY <2>3, <2>4 DEF FitFrames
  <2>6. <<ack>> \in Seq(S)
    BY <2>5
  <2>7. QED BY <2>1, <2>6
<1>28. \A g \in S : FitFrame(self, r, o3.conn, sent'[self][r], g) \/ FitSyn(g)
  BY <1>7 DEF FitFrames
<1> HIDE DEF S
<1>29. frames \in Seq(S)
  <2>1. o1.frames \in Seq(S) /\ o2.frames \in Seq(S)
    BY <1>8, <1>15, <1>26, SeqMonotonic
  <2>2. o1.frames \o o2.frames \in Seq(S)
    BY <2>1, ConcatProperties
  <2>3. QED BY <1>27, <2>2, ConcatProperties
<1> HIDE DEF frames
<1>30. ASSUME NEW p \in Peers PROVE Hands(p, self)'
  <2>1. out_delivers'[self] = out_delivers[self] \o o3.delivers /\ delivered'[self][p] = delivered[self][p]
        /\ out_delivers[self] \in Seq(Deliver) /\ delivered[self][p] \in Seq(Payload)
    <3>1. out_delivers \in [Peers -> Seq(Deliver)]
      BY DEF TypeOK, SocketTypeOK
    <3>2. delivered \in [Peers -> [Peers -> Seq(Payload)]] /\ delivered' = delivered
      BY <1>1 DEF TypeOK
    <3>3. out_delivers'[self] = out_delivers[self] \o o3.delivers
      BY <1>1, <1>5, <3>1
    <3>4. QED BY <1>1, <3>1, <3>2, <3>3
  <2>2. HandsOver(delivered[self][p], out_delivers[self], p, Rcvd(p, self))
    BY <1>1 DEF Streams, Pair, Hands
  <2>3. /\ Rcvd(r, self)' = R1
        /\ p # r => Rcvd(p, self)' = Rcvd(p, self)
    <3>1. Rcvd(r, self)' = R1
      BY <1>1, <1>5, <1>20, <1>21, NewEntry
    <3>2. p # r => conns'[self][p] = conns[self][p]
      BY <1>1, <1>5, <1>20, NewEntry
    <3>3. QED BY <3>1, <3>2, SameEntry
  <2>4. R \in Nat /\ R1 \in Nat /\ R <= R1
        /\ o3.delivers = [i \in 1 .. R1 - R |-> [src |-> r, payload |-> R + i]]
    BY <1>7, <1>19, <1>21 DEF R
  <2>5. CASE p = r
    <3>1. HandsOver(delivered[self][p], out_delivers[self] \o o3.delivers, p, R1)
      BY <1>1, <2>1, <2>2, <2>4, <2>5, HandIn DEF R
    <3>2. QED BY <2>1, <2>3, <2>5, <3>1 DEF Hands
  <2>6. CASE p # r
    <3>1. HandsOver(delivered[self][p], out_delivers[self] \o o3.delivers, p, Rcvd(p, self))
      <4> DEFINE done == delivered[self][p]
                 out == out_delivers[self]
                 new == o3.delivers
                 k == Rcvd(p, self)
      <4>1. /\ done \in Seq(Payload) /\ out \in Seq(Deliver) /\ r \in Peers /\ R \in Nat /\ R1 \in Nat
            /\ new = [i \in 1 .. R1 - R |-> [src |-> r, payload |-> R + i]] /\ R <= R1
        BY <1>1, <2>1, <2>4
      <4>2. p # r /\ HandsOver(done, out, p, k)
        BY <2>2, <2>6
      <4> HIDE DEF done, out, new, k
      <4>3. HandsOver(done, out \o new, p, k)
        BY <4>1, <4>2, HandInOther
      <4>4. QED BY <4>3 DEF done, out, new, k
    <3>2. QED BY <2>1, <2>3, <2>6, <3>1 DEF Hands
  <2>7. QED BY <2>5, <2>6
<1>31. /\ \A p \in Peers : p # self => out_delivers'[p] = out_delivers[p]
       /\ \A p, q \in Peers : p # self \/ q # r => sent'[p][q] = sent[p][q]
       /\ delivered' = delivered
  BY <1>1, <1>5 DEF TypeOK, SocketTypeOK
<1>32. SetConn(self, r, o3.conn) /\ Queue(self, frames)
  BY <1>5 DEF frames
<1>33. FitToSend(self, r, o3.conn, sent'[self][r])
  BY <1>7, <1>23
<1>34. QED
  BY <1>1, <1>20, <1>24, <1>25, <1>28, <1>29, <1>30, <1>31, <1>32, <1>33, EntryStreams

-----------------------------------------------------------------------------
(* Every step *)

LEMMA ReceiveKeepsStreams ==
  ASSUME TypeOK, TypeOK', Fits, Streams, Handshake, Handshake',
         NEW f \in BagToSet(net), Arrive(f)
  PROVE  Streams'
<1>1. /\ FrameOK(f) /\ HasConn(f.src, f.dst) /\ f.src \in Peers /\ f.dst \in Peers
      /\ handle_frame(f.dst, f)
  BY ArriveFacts
<1>2. f.type \in {"st_state", "st_data"} => Matching(f.dst, f)
  <2>1. SUFFICES ASSUME f.type \in {"st_state", "st_data"} PROVE Matching(f.dst, f)
    OBVIOUS
  <2>2. HasConn(f.dst, f.src) /\ f.connection_id = conns[f.src][f.dst].conn_id_send
    BY <1>1, <2>1 DEF FrameOK
  <2>3. conns[f.src][f.dst].conn_id_send = conns[f.dst][f.src].conn_id_recv
    BY <1>1, <2>2, CrossedIds
  <2>4. QED BY <2>2, <2>3 DEF Matching
<1>3. ~RejectForeign(f.dst, f) /\ ~IgnoreForeignReset(f.dst, f) /\ ~ReceiveReset(f.dst, f)
  BY <1>1, <1>2 DEF FrameOK, RejectForeign, IgnoreForeignReset, ReceiveReset
<1>4. QED
  BY <1>1, <1>3, AcceptNewSynStreams, AcceptSynAgainStreams, ReceiveSynAckStreams,
     ReceiveStateStreams, ReceiveDataStreams DEF handle_frame

LEMMA TimeoutKeepsStreams ==
  ASSUME TypeOK, TypeOK', Fits, Streams, Handshake, NEW self \in Peers, Timeout(self)
  PROVE  Streams'
<1>1. PICK due \in SUBSET Peers : TimerExpiry(self, due)
  BY DEF Timeout
<1> DEFINE S == {TimeoutFrame(self, r) : r \in due}
<1>2. PICK frames \in Seq(S) : Queue(self, frames)
  BY <1>1, TimerExpiryStep DEF TypeOK
<1>3. UNCHANGED <<conns, sent, delivered, out_delivers, net>>
  BY <1>1 DEF Timeout, TimerExpiry
<1>4. Frames' \subseteq Frames \cup S
  BY <1>2, <1>3, QueueFrames
<1>5. ASSUME NEW r \in due PROVE PacketOK(TimeoutFrame(self, r))
  <2> DEFINE c == conns[self][r]
             g == TimeoutFrame(self, r)
             b == FirstSeq(self)
             s == sent[self][r]
  <2>1. timer_armed(self, r) /\ HasConn(self, r) /\ r \in Peers
    BY <1>1 DEF TimerExpiry, timer_armed
  <2>2. ConnOK(self, r) /\ Pair(self, r) /\ Pair(r, self)
    BY <2>1 DEF Handshake, Streams
  <2>3. /\ c \in Conn /\ FitToSend(self, r, c, s) /\ Told(r, c) = Rcvd(r, self)
        /\ Numbered(c, s) = Total(self, r)
    BY <2>1, CurrentFits DEF Fit
  <2>4. CASE c.state = "syn_sent"
    <3>1. g.type = "st_syn" /\ g.seq_nr = 1
      BY <2>4 DEF TimeoutFrame, SynFrame
    <3> HIDE DEF g
    <3>2. PacketOK(g)
      BY <3>1 DEF PacketOK
    <3>3. QED BY <3>2 DEF g
  <2>5. CASE c.state # "syn_sent"
    <3> DEFINE h == Head(c.inflight)
    <3>1. c.inflight # <<>> /\ c.inflight \in Seq(InflightPkt)
      BY <2>1, <2>3, <2>5 DEF timer_armed, Conn
    <3>2. h = c.inflight[1] /\ 1 \in 1 .. Len(c.inflight)
      BY <3>1, HeadTailProperties, LenProperties, EmptySeq
    <3>3. h.completing \in 1 .. Total(self, r) /\ h.seq = SeqOf(b, h.completing)
      <4>1. InOrder(b, c.inflight, Total(self, r))
        BY <2>3 DEF FitToSend, Numbering
      <4>2. QED BY <3>2, <4>1 DEF InOrder
    <3> HIDE DEF h
    <3>4. /\ g.src = self /\ g.dst = r /\ g.type = "st_data" /\ g.ack_nr = c.ack_nr /\ g.sack = {}
          /\ g.completing = h.completing /\ g.seq_nr = h.seq
      BY <2>5 DEF TimeoutFrame, DataFrame, header_for, h
    <3>5. Synced(self, r) /\ \E m \in 0 .. Rcvd(r, self) : g.ack_nr = SeqOf(FirstSeq(r), m)
      BY <2>1, <2>3, <2>5, <3>4, AckNumber DEF Synced
    <3>6. Synced(r, self)
      <4>1. Total(self, r) # 0
        <5>1. Total(self, r) \in Nat
          BY <2>1, <2>2, PairFacts
        <5>2. QED BY <3>3, <5>1
      <4>2. c.state \notin {"syn_sent", "syn_recv"}
        BY <2>3, <4>1 DEF FitToSend
      <4>3. HasConn(r, self)
        BY <2>1, <2>2, <4>2 DEF ConnOK
      <4>4. QED BY <2>1, <2>2, <4>2, <4>3 DEF Pair, Waits
    <3> HIDE DEF g
    <3>7. PacketOK(g)
      BY <3>3, <3>4, <3>5, <3>6 DEF PacketOK
    <3>8. QED BY <3>7 DEF g
  <2>6. QED BY <2>4, <2>5
<1>6. \A g \in Frames' : g \in Frames \/ PacketOK(g)
  BY <1>4, <1>5
<1>7. \A p, q \in Peers : Hands(p, q)'
  BY <1>3, SameHandsAll
<1>8. QED BY <1>3, <1>6, <1>7, SameStreams

LEMMA NextKeepsStreams ==
  ASSUME TypeOK, TypeOK', Fits, Streams, Handshake, Handshake', OneOpener, [Next]_vars
  PROVE  Streams'
<1>1. CASE \E self, dst \in Peers : AppSend(self, dst)
  BY <1>1, AppSendKeepsStreams
<1>2. CASE \E self \in Peers : Emit(self)
  BY <1>2, EmitKeepsStreams
<1>3. CASE \E self \in Peers : Receive(self)
  BY <1>3, ReceiveKeepsStreams DEF Receive
<1>4. CASE \E self \in Peers : Timeout(self)
  BY <1>4, TimeoutKeepsStreams
<1>5. CASE \E f \in BagToSet(net) : Lose(f)
  <2>1. BagToSet(net') \subseteq BagToSet(net)
    BY <1>5, BagRemove DEF Lose, TypeOK
  <2>2. UNCHANGED <<conns, out_frames, out_delivers, sent, delivered>>
    BY <1>5 DEF Lose, socketVars
  <2>3. Frames' \subseteq Frames
    BY <2>1, <2>2 DEF Frames
  <2>4. \A p, q \in Peers : Hands(p, q)'
    BY <2>2, SameHandsAll
  <2>5. QED BY <2>2, <2>3, <2>4, SameStreams
<1>6. CASE UNCHANGED vars
  <2>1. UNCHANGED <<conns, out_frames, out_delivers, sent, delivered, net>>
    BY <1>6 DEF vars, socketVars
  <2>2. Frames' \subseteq Frames
    BY <2>1 DEF Frames
  <2>3. \A p, q \in Peers : Hands(p, q)'
    BY <2>1, SameHandsAll
  <2>4. QED BY <2>1, <2>2, <2>3, SameStreams
<1>7. QED BY <1>1, <1>2, <1>3, <1>4, <1>5, <1>6 DEF Next

LEMMA InitStreams ==
  ASSUME Init
  PROVE  Streams
<1>1. ASSUME NEW p \in Peers, NEW q \in Peers
      PROVE  Pair(p, q)
  <2>1. ~HasConn(p, q) /\ ~HasConn(q, p)
    BY DEF Init, SocketInit, HasConn
  <2>2. ~Synced(p, q) /\ ~Synced(q, p)
    BY <2>1 DEF Synced
  <2>3. Total(p, q) = 0 /\ Rcvd(p, q) = 0
    BY <2>1, <2>2 DEF Total, Rcvd
  <2>4. sent[p][q] = 0 /\ MaxSend[p] \in Nat
    BY BoundsAssumption DEF Init
  <2>5. Sends(p, q)
    BY <2>1, <2>4 DEF Sends
  <2>6. Receives(p, q) /\ Waits(p, q)
    BY <2>1, <2>2 DEF Receives, Waits
  <2>7. Retains(p, q)
    BY <2>3 DEF Retains
  <2>8. Hands(p, q)
    <3>1. delivered[q][p] = <<>> /\ out_delivers[q] = <<>>
      BY DEF Init, SocketInit
    <3>2. Len(delivered[q][p]) = 0 /\ Len(out_delivers[q]) = 0
      BY <3>1
    <3>3. HandsOver(delivered[q][p], out_delivers[q], p, 0)
      BY <3>2 DEF HandsOver
    <3>4. QED BY <2>3, <3>3 DEF Hands
  <2>9. QED BY <2>5, <2>6, <2>7, <2>8 DEF Pair
<1>2. Frames = {}
  BY EmptyBagType DEF Init, SocketInit, Frames
<1>3. QED BY <1>1, <1>2 DEF Streams

-----------------------------------------------------------------------------
(* What the invariant says *)

LEMMA StreamsInOrder ==
  ASSUME TypeOK, Fits, Streams
  PROVE  InOrderExactlyOnce
<1> SUFFICES ASSUME NEW self \in Peers, NEW src \in Peers
             PROVE  /\ Len(delivered[self][src]) <= sent[src][self]
                    /\ \A i \in DOMAIN delivered[self][src] : delivered[self][src][i] = i
  BY DEF InOrderExactlyOnce
<1> DEFINE done == delivered[self][src]
<1>1. Pair(src, self)
  BY DEF Streams
<1>2. /\ sent[src][self] \in Nat /\ Total(src, self) \in Nat /\ Total(src, self) <= sent[src][self]
      /\ Rcvd(src, self) \in Nat /\ Rcvd(src, self) <= Total(src, self)
  BY <1>1, PairFacts
<1>3. Len(done) \in Nat /\ DOMAIN done = 1 .. Len(done)
  BY LenProperties DEF TypeOK
<1>4. Len(done) <= Rcvd(src, self) /\ \A i \in 1 .. Len(done) : done[i] = i
  BY <1>1 DEF Pair, Hands, HandsOver
<1>5. QED BY <1>2, <1>3, <1>4

LEMMA StreamsNothingLost ==
  ASSUME TypeOK, Fits, Streams
  PROVE  NothingLost
<1> SUFFICES ASSUME NEW p \in Peers, NEW q \in Peers, NEW n \in 1 .. sent[p][q]
             PROVE  \/ \E i \in DOMAIN delivered[q][p] : delivered[q][p][i] = n
                    \/ \E i \in DOMAIN out_delivers[q] :
                         out_delivers[q][i] = [src |-> p, payload |-> n]
                    \/ HasConn(q, p) /\ \E b \in conns[q][p].ooo : b.completing = n
                    \/ /\ HasConn(p, q)
                       /\ \/ \E i \in DOMAIN conns[p][q].inflight :
                               conns[p][q].inflight[i].completing = n
                          \/ \E i \in DOMAIN conns[p][q].pending : conns[p][q].pending[i] = n
  BY DEF NothingLost
<1> DEFINE done == delivered[q][p]
           out == out_delivers[q]
           c == conns[p][q]
<1>1. Pair(p, q)
  BY DEF Streams
<1>2. /\ sent[p][q] \in Nat /\ Total(p, q) \in Nat /\ Total(p, q) <= sent[p][q]
      /\ Rcvd(p, q) \in Nat
  BY <1>1, PairFacts
<1>3. /\ HasConn(p, q)
      /\ c.pending \in Seq(Payload) /\ c.inflight \in Seq(InflightPkt)
  <2>1. HasConn(p, q)
    BY <1>1, <1>2 DEF Pair, Sends
  <2>2. QED BY <2>1, ConnType DEF Conn, TypeOK
<1>4. CASE n <= Total(p, q) /\ n \in Held(p, q)
  <2>1. Synced(q, p) /\ HasConn(q, p) /\ n \in Holds(FirstSeq(p), conns[q][p])
        /\ Rcvd(p, q) = InOrderCount(FirstSeq(p), conns[q][p])
    BY <1>4 DEF Held, Synced, Rcvd
  <2>2. CASE n \in 1 .. Rcvd(p, q)
    <3>1. /\ Len(done) \in Nat /\ DOMAIN done = 1 .. Len(done)
          /\ out \in Seq(Deliver) /\ Len(out) \in Nat /\ DOMAIN out = 1 .. Len(out)
      BY LenProperties DEF TypeOK, SocketTypeOK
    <3>2. /\ \A i \in 1 .. Len(done) : done[i] = i
          /\ \A m \in Len(done) + 1 .. Rcvd(p, q) :
               \E i \in 1 .. Len(out) : out[i].src = p /\ out[i].payload = m
      BY <1>1 DEF Pair, Hands, HandsOver
    <3>3. n \in 1 .. Len(done) \/ n \in Len(done) + 1 .. Rcvd(p, q)
      BY <1>2, <2>2, <3>1
    <3>4. CASE n \in 1 .. Len(done)
      BY <3>1, <3>2, <3>4
    <3>5. CASE n \in Len(done) + 1 .. Rcvd(p, q)
      <4>1. PICK i \in 1 .. Len(out) : out[i].src = p /\ out[i].payload = n
        BY <3>2, <3>5
      <4> HIDE DEF out
      <4>2. out[i] \in [src : Peers, payload : Payload]
        BY <3>1, ElementOfSeq DEF Deliver
      <4>3. out[i] = [src |-> p, payload |-> n]
        BY <4>1, <4>2
      <4>4. QED BY <3>1, <4>3 DEF out
    <3>6. QED BY <3>3, <3>4, <3>5
  <2>3. CASE n \notin 1 .. Rcvd(p, q)
    <3>1. \E x \in conns[q][p].ooo : x.completing = n
      BY <2>1, <2>3 DEF Holds
    <3>2. QED BY <2>1, <3>1
  <2>4. QED BY <2>2, <2>3
<1>5. CASE n <= Total(p, q) /\ n \notin Held(p, q)
  <2>1. n \in 1 .. Total(p, q)
    BY <1>2, <1>5
  <2>2. Contains(c.inflight, n)
    BY <1>1, <1>5, <2>1 DEF Pair, Retains
  <2>3. QED BY <1>3, <2>2, LenProperties DEF Contains
<1>6. CASE ~(n <= Total(p, q))
  <2> DEFINE t == Total(p, q)
             L == Len(c.pending)
             s == sent[p][q]
  <2>1. L \in Nat /\ DOMAIN c.pending = 1 .. L /\ s \in Nat /\ n \in 1 .. s
    BY <1>2, <1>3, LenProperties
  <2>2. t = s - L
    BY <1>3 DEF Total, Numbered
  <2>3. \A i \in 1 .. L : c.pending[i] = t + i
    BY <1>1, <1>3 DEF Pair, Sends, Numbering, Total
  <2>4. ~(n <= t) /\ t \in Nat
    BY <1>2, <1>6
  <2> HIDE DEF t, L, s
  <2>5. n - t \in 1 .. L /\ t + (n - t) = n
    BY <2>1, <2>2, <2>4
  <2>6. QED BY <1>3, <2>1, <2>3, <2>5
<1>7. QED BY <1>4, <1>5, <1>6

\* A sequence that goes up advances by at least one in every place.
LEMMA AtLeastApart ==
  ASSUME NEW L \in Nat, NEW v, \A i \in 1 .. L : v[i] \in Int,
         \A i, j \in 1 .. L : i < j => v[i] < v[j],
         NEW i \in 1 .. L, NEW j \in 1 .. L, i < j
  PROVE  v[j] - v[i] >= j - i
<1> DEFINE Bad == {m \in 1 .. L : i < m /\ ~(v[m] - v[i] >= m - i)}
<1> SUFFICES ASSUME Bad # {} PROVE FALSE
  OBVIOUS
<1>1. Bad \subseteq Nat
  OBVIOUS
<1>2. PICK m \in Bad : \A x \in Bad : m <= x
  <2> HIDE DEF Bad
  <2>1. QED BY <1>1, LeastElement
<1>3. m \in 1 .. L /\ i < m /\ ~(v[m] - v[i] >= m - i) /\ m - 1 \in 1 .. L /\ m - 1 < m
      /\ v[m] \in Int /\ v[i] \in Int /\ v[m - 1] \in Int
  BY <1>2
<1>4. v[m - 1] < v[m]
  BY <1>3
<1>5. CASE m - 1 = i
  BY <1>3, <1>4, <1>5
<1>6. CASE m - 1 # i
  <2>1. i < m - 1 /\ m - 1 \notin Bad
    <3>1. m - 1 \notin Bad
      <4> HIDE DEF Bad
      <4>1. m \in Nat /\ ~(m <= m - 1)
        BY <1>3
      <4>2. QED BY <1>2, <4>1
    <3>2. QED BY <1>3, <1>6, <3>1
  <2>2. v[m - 1] - v[i] >= (m - 1) - i
    BY <1>3, <2>1
  <2>3. QED BY <1>3, <1>4, <2>2
<1>7. QED BY <1>5, <1>6

LEMMA StreamsWindow ==
  ASSUME TypeOK, Fits, Streams
  PROVE  WindowShape
<1> SUFFICES ASSUME NEW p \in Peers, NEW q \in Peers, HasConn(p, q)
             PROVE  /\ \A i, j \in DOMAIN conns[p][q].inflight :
                         i < j => seq_diff(conns[p][q].inflight[j].seq,
                                           conns[p][q].inflight[i].seq) >= j - i
                    /\ \A i \in DOMAIN conns[p][q].inflight :
                         seq_diff(conns[p][q].seq_nr, conns[p][q].inflight[i].seq) > 0
                    /\ \A b \in conns[p][q].ooo : seq_diff(b.seq, conns[p][q].ack_nr) > 1
                    /\ \A b1, b2 \in conns[p][q].ooo : b1.seq = b2.seq => b1 = b2
  BY DEF WindowShape
<1> DEFINE c == conns[p][q]
           w == c.inflight
           a == FirstSeq(p)
           b == FirstSeq(q)
           k == Total(p, q)
           t == Total(q, p)
           L == Len(w)
           v == [i \in 1 .. L |-> w[i].completing]
<1>1. Pair(p, q) /\ Pair(q, p) /\ a \in Uint16 /\ b \in Uint16
  BY FirstSeqType DEF Streams
<1>2. k \in Nat /\ 2 * k < SeqMod /\ t \in Nat /\ 2 * t < SeqMod
  BY <1>1, PairFacts
<1>3. SeqMod \in Nat /\ SeqMod > 3
  BY SeqModAssumption
<1>4. c \in Conn
  BY ConnType DEF TypeOK
<1>5. w \in Seq(InflightPkt) /\ L \in Nat /\ DOMAIN w = 1 .. L /\ c.ack_nr \in Uint16
      /\ c.ooo \subseteq RecvPkt
  BY <1>4, LenProperties DEF Conn
<1>6. /\ c.seq_nr = SeqOf(a, k + 1)
      /\ \A i \in 1 .. L : w[i].completing \in 1 .. k /\ w[i].seq = SeqOf(a, w[i].completing)
      /\ \A i, j \in 1 .. L : i < j => w[i].completing < w[j].completing
  BY <1>1 DEF Pair, Sends, Numbering, InOrder, Total
<1>7. c.ooo # {} => /\ InOrderCount(b, c) <= t
                    /\ \A x \in c.ooo : /\ x.completing \in InOrderCount(b, c) + 2 .. t
                                        /\ x.seq = SeqOf(b, x.completing)
  BY <1>1 DEF Pair, Receives, Receiving, BufferFrom, Synced
<1>8. InOrderCount(b, c) \in Nat /\ c.ack_nr = SeqOf(b, InOrderCount(b, c))
  BY <1>1, <1>5, IndexOfType, SeqOfIndex DEF InOrderCount
<1>9. \A i \in 1 .. L : v[i] \in Int /\ v[i] \in 1 .. k /\ w[i].seq = SeqOf(a, v[i])
  BY <1>2, <1>6
<1>10. \A i, j \in 1 .. L : i < j => v[i] < v[j]
  BY <1>6
<1> DEFINE n == InOrderCount(b, c)
<1> HIDE DEF a, b, k, t, L, v, n
<1>11. ASSUME NEW i \in 1 .. L, NEW j \in 1 .. L, i < j
       PROVE  seq_diff(w[j].seq, w[i].seq) >= j - i
  <2>1. v[j] - v[i] >= j - i
    BY <1>5, <1>9, <1>10, <1>11, AtLeastApart
  <2>2. v[i] \in 1 .. k /\ v[j] \in 1 .. k /\ v[i] \in Int /\ v[j] \in Int
    BY <1>9
  <2>3. 2 * (v[j] - v[i]) < SeqMod /\ 2 * (v[i] - v[j]) < SeqMod
    BY <1>2, <1>3, <2>2
  <2>4. seq_diff(SeqOf(a, v[j]), SeqOf(a, v[i])) = v[j] - v[i]
    BY <1>1, <2>2, <2>3, SeqOfDistance
  <2>5. QED BY <1>9, <2>1, <2>4
<1>12. ASSUME NEW i \in 1 .. L
       PROVE  seq_diff(c.seq_nr, w[i].seq) > 0
  <2>1. v[i] \in 1 .. k /\ v[i] \in Int /\ k + 1 \in Int
    BY <1>2, <1>9
  <2>2. 2 * ((k + 1) - v[i]) < SeqMod /\ 2 * (v[i] - (k + 1)) < SeqMod /\ (k + 1) - v[i] > 0
    BY <1>2, <1>3, <2>1
  <2>3. seq_diff(SeqOf(a, k + 1), SeqOf(a, v[i])) = (k + 1) - v[i]
    BY <1>1, <2>1, <2>2, SeqOfDistance
  <2>4. QED BY <1>6, <1>9, <2>2, <2>3
<1>13. ASSUME NEW x \in c.ooo
       PROVE  /\ x.completing \in n + 2 .. t /\ x.completing \in Int /\ x.seq = SeqOf(b, x.completing)
              /\ seq_diff(x.seq, c.ack_nr) > 1
  <2> DEFINE m == x.completing
  <2>1. n <= t /\ m \in n + 2 .. t /\ x.seq = SeqOf(b, m) /\ n \in Nat /\ c.ack_nr = SeqOf(b, n)
    BY <1>7, <1>8, <1>13 DEF n
  <2> HIDE DEF m
  <2>2. m \in Int /\ n \in Int /\ m - n > 1 /\ 2 * (m - n) < SeqMod /\ 2 * (n - m) < SeqMod
    BY <1>2, <1>3, <2>1
  <2>3. seq_diff(SeqOf(b, m), SeqOf(b, n)) = m - n
    BY <1>1, <2>2, SeqOfDistance
  <2>4. QED BY <2>1, <2>2, <2>3 DEF m
<1>14. ASSUME NEW x \in c.ooo, NEW y \in c.ooo, x.seq = y.seq
       PROVE  x = y
  <2> DEFINE l == x.completing
             m == y.completing
  <2>1. l \in n + 2 .. t /\ m \in n + 2 .. t /\ SeqOf(b, l) = SeqOf(b, m) /\ l \in Int /\ m \in Int
        /\ n \in Nat
    BY <1>8, <1>13, <1>14 DEF n
  <2> HIDE DEF l, m
  <2>2. l - m < SeqMod /\ m - l < SeqMod
    BY <1>2, <1>3, <2>1
  <2>3. l = m
    BY <1>1, <2>1, <2>2, SeqOfInjective
  <2>4. x \in [seq : Uint16, completing : Payload] /\ y \in [seq : Uint16, completing : Payload]
    BY <1>5, <1>14 DEF RecvPkt
  <2>5. QED BY <1>14, <2>3, <2>4 DEF l, m
<1>15. QED BY <1>5, <1>11, <1>12, <1>13, <1>14

LEMMA InitRefines == Init => Stream!StreamInit
BY DEF Init, Stream!StreamInit

LEMMA NextRefines ==
  ASSUME TypeOK, Fits, Streams, [Next]_vars
  PROVE  [Stream!StreamNext]_<<sent, delivered>>
<1>1. CASE \E self, dst \in Peers : AppSend(self, dst)
  <2>1. PICK self \in Peers, dst \in Peers : AppSend(self, dst)
    BY <1>1
  <2>2. Stream!Send(self, dst)
    BY <2>1 DEF AppSend, Stream!Send
  <2>3. QED BY <2>2 DEF Stream!StreamNext
<1>2. CASE \E self \in Peers : Emit(self)
  <2>1. PICK self \in Peers : Emit(self)
    BY <1>2
  <2> DEFINE out == out_delivers[self]
             h == Head(out)
             done == delivered[self][h.src]
  <2>2. CASE out = <<>>
    BY <2>1, <2>2 DEF Emit
  <2>3. CASE out # <<>>
    <3>1. out \in Seq(Deliver)
      BY DEF TypeOK, SocketTypeOK
    <3>2. h \in Deliver /\ h.src \in Peers
      <4> HIDE DEF out
      <4>1. h \in Deliver
        BY <2>3, <3>1, HeadTailProperties
      <4> HIDE DEF h
      <4>2. QED BY <4>1 DEF Deliver
    <3>3. delivered' = [delivered EXCEPT ![self][h.src] = Append(@, h.payload)] /\ sent' = sent
      BY <2>1, <2>3 DEF Emit
    <3>4. /\ done \in Seq(Payload) /\ Rcvd(h.src, self) \in Nat
          /\ HandsOver(done, out, h.src, Rcvd(h.src, self))
          /\ sent[h.src][self] \in Nat /\ Rcvd(h.src, self) <= sent[h.src][self]
      <4> DEFINE p == h.src
      <4>1. p \in Peers
        BY <3>2
      <4> HIDE DEF p
      <4>2. Pair(p, self)
        BY <4>1 DEF Streams
      <4>3. /\ sent[p][self] \in Nat /\ Total(p, self) \in Nat /\ Total(p, self) <= sent[p][self]
            /\ Rcvd(p, self) \in Nat /\ Rcvd(p, self) <= Total(p, self)
        BY <4>1, <4>2, PairFacts
      <4>4. Rcvd(p, self) <= sent[p][self] /\ delivered[self][p] \in Seq(Payload)
        BY <4>1, <4>3 DEF TypeOK
      <4>5. HandsOver(delivered[self][p], out, p, Rcvd(p, self))
        BY <4>2 DEF Pair, Hands
      <4>6. QED BY <4>3, <4>4, <4>5 DEF p
    <3> HIDE DEF out
    <3>5. h.payload = Len(done) + 1 /\ Len(done) < Rcvd(h.src, self)
      BY <2>3, <3>1, <3>4, HandOut
    <3>6. Len(done) < sent[h.src][self]
      <4>1. Len(done) \in Nat
        BY <3>4, LenProperties
      <4>2. QED BY <3>4, <3>5, <4>1
    <3> HIDE DEF h
    <3>7. delivered' = [delivered EXCEPT ![self][h.src] = Append(@, Len(@) + 1)]
      BY <3>3, <3>5
    <3>8. Stream!DeliverNext(h.src, self)
      BY <3>3, <3>6, <3>7 DEF Stream!DeliverNext
    <3>9. QED BY <3>2, <3>8 DEF Stream!StreamNext
  <2>4. QED BY <2>2, <2>3
<1>3. CASE \E self \in Peers : Receive(self)
  BY <1>3 DEF Receive, Arrive
<1>4. CASE \E self \in Peers : Timeout(self)
  BY <1>4 DEF Timeout
<1>5. CASE \E f \in BagToSet(net) : Lose(f)
  BY <1>5 DEF Lose
<1>6. CASE UNCHANGED vars
  BY <1>6 DEF vars
<1>7. QED BY <1>1, <1>2, <1>3, <1>4, <1>5, <1>6 DEF Next

\* With one opener per pair and streams shorter than half the range of the
\* numbers, each payload that has a number stays with its number, is held by
\* the receiver or still in flight, and no packet acknowledges, cumulatively or
\* selectively, what its sender does not hold (process_acks against
\* receive_data and build_sack).
THEOREM StreamInvariant ==
  ASSUME OneOpener, Fits
  PROVE  Spec => [](TypeOK /\ Handshake /\ Streams)
<1>1. Init => TypeOK /\ Handshake /\ Streams
  BY InitType, InitHandshake, InitStreams
<1>2. TypeOK /\ Handshake /\ Streams /\ [Next]_vars => (TypeOK /\ Handshake /\ Streams)'
  <2>1. SUFFICES ASSUME TypeOK, Handshake, Streams, [Next]_vars
                 PROVE  TypeOK' /\ Handshake' /\ Streams'
    OBVIOUS
  <2>2. TypeOK' /\ Handshake'
    BY <2>1, NextKeepsType, NextKeepsHandshake
  <2>3. QED BY <2>1, <2>2, NextKeepsStreams
<1>3. QED BY <1>1, <1>2, PTL DEF Spec

\* The application receives the payloads of a peer in the order they were sent,
\* each once and none skipped, whatever is lost, reordered or sent again.
THEOREM DeliversInOrder == ASSUME OneOpener, Fits PROVE Spec => []InOrderExactlyOnce
<1>1. TypeOK /\ Streams => InOrderExactlyOnce
  BY StreamsInOrder
<1>2. QED BY <1>1, StreamInvariant, PTL

\* A payload given to app_send is never forgotten by both ends, so the sender
\* drops a packet only for the acknowledgement of one the receiver keeps.
THEOREM ForgetsNothing == ASSUME OneOpener, Fits PROVE Spec => []NothingLost
<1>1. TypeOK /\ Streams => NothingLost
  BY StreamsNothingLost
<1>2. QED BY <1>1, StreamInvariant, PTL

\* The deque of packets in flight stays in sequence order behind seq_nr across
\* the wrap of the numbers, and the out-of-order buffer holds one packet per
\* number, none of them at or below the next one.
THEOREM KeepsWindowShape == ASSUME OneOpener, Fits PROVE Spec => []WindowShape
<1>1. TypeOK /\ Streams => WindowShape
  BY StreamsWindow
<1>2. QED BY <1>1, StreamInvariant, PTL

\* The sockets implement the safety of the reliable stream: app_send is its
\* Send, the emission of a payload its DeliverNext, and every other step,
\* the retransmissions and the lost frames among them, leaves it unchanged.
THEOREM ImplementsStreamSafely ==
  ASSUME OneOpener, Fits
  PROVE  Spec => Stream!StreamInit /\ [][Stream!StreamNext]_<<sent, delivered>>
<1>1. TypeOK /\ Streams /\ [Next]_vars => [Stream!StreamNext]_<<sent, delivered>>
  BY NextRefines
<1>2. QED BY <1>1, InitRefines, StreamInvariant, PTL DEF Spec

-----------------------------------------------------------------------------
(* Entries at rest, for any peers that open *)

\* What TransmitStates says of one entry.
Rests(c) ==
  /\ c.inflight # <<>> => c.state = "connected"
  /\ c.state = "closed" => c.pending = <<>>

\* Acknowledgements that find nothing in flight leave nothing in flight.
LEMMA NoHoles ==
  ASSUME NEW c, c.inflight = <<>>, NEW pkt
  PROVE  Recounted(Holes(Unacked(c, pkt), pkt)) = <<>>
<1>1. Len(c.inflight) = 0 /\ 1 .. Len(c.inflight) = {}
  OBVIOUS
<1>2. AckedCount(c, pkt) = 0
  <2> DEFINE I == {i \in 1 .. Len(c.inflight) :
                     \A j \in 1 .. i : seq_diff(c.inflight[j].seq, pkt.ack_nr) <= 0}
  <2>1. I = {}
    BY <1>1
  <2> HIDE DEF I
  <2>2. Cardinality(I) = 0
    BY <2>1, FS_EmptySet
  <2>3. QED BY <2>2 DEF AckedCount, I
<1>3. Unacked(c, pkt) = <<>>
  BY <1>2 DEF Unacked
<1>4. Holes(<<>>, pkt) = <<>>
  <2> DEFINE sacked == {i \in 1 .. Len(<<>>) : <<>>[i].seq \in pkt.sack}
             Counted == [i \in 1 .. Len(<<>>) |->
                          [<<>>[i] EXCEPT !.sacked_past = @ + Cardinality({j \in sacked : i < j})]]
             I == (1 .. Len(<<>>)) \ sacked
  <2>1. Holes(<<>>, pkt) = Subsequence(Counted, I)
    BY DEF Holes
  <2>2. I = {}
    OBVIOUS
  <2> HIDE DEF I, Counted
  <2>3. Cardinality(I) = 0
    BY <2>2, FS_EmptySet
  <2>4. Subsequence(Counted, I) = <<>>
    BY <2>3 DEF Subsequence
  <2>5. QED BY <2>1, <2>4
<1>5. Recounted(<<>>) = <<>>
  BY DEF Recounted
<1>6. QED BY <1>3, <1>4, <1>5

LEMMA ProcessAcksRests ==
  ASSUME NEW self \in Peers, NEW dst \in Peers, NEW c \in Conn, Rests(c), NEW pkt \in Frame,
         NEW o \in process_acks(self, dst, c, pkt)
  PROVE  o.conn \in Conn /\ Rests(o.conn)
<1>1. Keeps(self, dst, c, o)
  BY ProcessAcksKeeps
<1>2. CASE c.state = "connected"
  BY <1>1, <1>2 DEF Keeps, Rests
<1>3. CASE c.state # "connected"
  <2> DEFINE holes == Holes(Unacked(c, pkt), pkt)
             c1 == AckedConn(c, pkt, holes)
             c2 == CountedConn(c, pkt, holes)
             lost == LostFrames(self, dst, c, holes)
             x == DataFrame(self, dst, c, Head(holes))
  <2>1. o.conn.pending = c.pending
    BY <1>3, ProcessAcksWaits
  <2>2. Recounted(holes) = <<>>
    BY <1>3, NoHoles DEF Rests
  <2>3. o \in AckOutcomes(self, dst, c, pkt, holes)
    BY DEF process_acks
  <2> HIDE DEF holes
  <2>4. \/ o = [conn |-> c1, frames |-> lost]
        \/ o = [conn |-> c1, frames |-> lost \o <<x>>]
        \/ o = [conn |-> c2, frames |-> lost]
    BY <1>3, <2>3, AckCases
  <2>5. c1.inflight = <<>> /\ c2.inflight = <<>>
    BY <2>2 DEF AckedConn, CountedConn, Conn
  <2> HIDE DEF c1, c2, lost, x
  <2>6. o.conn.inflight = <<>>
    BY <2>4, <2>5
  <2>7. QED BY <1>1, <2>1, <2>6 DEF Keeps, Rests
<1>4. QED BY <1>2, <1>3

LEMMA ReceiveDataRests ==
  ASSUME NEW self \in Peers, NEW src \in Peers, NEW c \in Conn, Rests(c), NEW f \in Frame,
         f.type = "st_data", NEW o \in receive_data(self, src, c, f)
  PROVE  Rests(o.conn)
<1> DEFINE a == Accepted(c, f)
           c1 == [c EXCEPT !.ack_nr = f.seq_nr]
           rel == seq_diff(f.seq_nr, c.ack_nr)
           known == \E p \in c.ooo : p.seq = f.seq_nr
<1>1. o.conn = a.conn
  BY DEF receive_data
<1>2. a.conn.state = c.state
  BY AcceptedType
<1>3. rel \in Int
  BY SeqDiffType DEF Frame, Conn
<1>4. a.conn.inflight = c.inflight /\ a.conn.pending = c.pending
  <2>1. CASE rel = 1
    <3>1. a.conn = drain_ooo(c1).conn
      BY <2>1 DEF Accepted
    <3>2. c1 \in Conn /\ c1.inflight = c.inflight /\ c1.pending = c.pending
      BY DEF Conn, Frame
    <3> HIDE DEF c1
    <3>3. drain_ooo(c1).conn.inflight = c1.inflight /\ drain_ooo(c1).conn.pending = c1.pending
      BY <3>2 DEF drain_ooo, Conn
    <3>4. QED BY <3>1, <3>2, <3>3
  <2>2. CASE rel > 1 /\ ~known
    <3>1. ~(rel = 1) /\ ~(rel <= 0)
      BY <1>3, <2>2
    <3>2. a.conn = [c EXCEPT !.ooo = c.ooo \cup {[seq |-> f.seq_nr, completing |-> f.completing]}]
      BY <2>2, <3>1 DEF Accepted
    <3>3. QED BY <3>2 DEF Conn
  <2>3. CASE rel <= 0 \/ (rel > 1 /\ known)
    <3>1. ~(rel = 1) /\ ~(rel > 1 /\ ~known)
      BY <1>3, <2>3
    <3>2. a.conn = c
      BY <2>3, <3>1 DEF Accepted
    <3>3. QED BY <3>2
  <2>4. QED BY <1>3, <2>1, <2>2, <2>3
<1>5. QED BY <1>1, <1>2, <1>4 DEF Rests

\* An entry put in place that is at rest keeps all at rest.
LEMMA SetConnRests ==
  ASSUME TypeOK, TransmitStates, NEW self \in Peers, NEW remote \in Peers,
         NEW c, SetConn(self, remote, c), Rests(c)
  PROVE  TransmitStates'
<1>1. \A p, q \in Peers : conns'[p][q] = IF p = self /\ q = remote THEN c ELSE conns[p][q]
  BY DEF SetConn, TypeOK, SocketTypeOK
<1>2. QED BY <1>1 DEF TransmitStates, HasConn, Rests

LEMMA AppSendRests ==
  ASSUME TypeOK, TransmitStates, NEW self \in Peers, NEW dst \in Peers, AppSend(self, dst)
  PROVE  TransmitStates'
<1> DEFINE x == sent[self][dst] + 1
           c == conns[self][dst]
<1>1. x \in Payload /\ handle_app_send(self, dst, x)
  BY DEF AppSend, TypeOK, Payload, NoPayload
<1> HIDE DEF x
<1>2. CASE AppSendOpens(self, dst, x)
  <2> DEFINE c1 == [open_initiator(self) EXCEPT !.pending = <<x>>]
  <2>1. c1.inflight = <<>> /\ c1.state = "syn_sent"
    BY DEF open_initiator
  <2>2. SetConn(self, dst, c1)
    BY <1>2 DEF AppSendOpens
  <2> HIDE DEF c1
  <2>3. Rests(c1)
    BY <2>1 DEF Rests
  <2>4. QED BY <2>2, <2>3, SetConnRests
<1>3. CASE AppSendWaits(self, dst, x)
  <2> DEFINE c1 == [c EXCEPT !.pending = Append(c.pending, x)]
  <2>1. HasConn(self, dst) /\ c.state # "closed" /\ c \in Conn /\ SetConn(self, dst, c1)
    BY <1>3, ConnType DEF AppSendWaits, HasLiveConn, TypeOK
  <2>2. c1.inflight = c.inflight /\ c1.state = c.state
    BY <2>1 DEF Conn
  <2> HIDE DEF c1
  <2>3. Rests(c1)
    BY <2>1, <2>2 DEF Rests, TransmitStates
  <2>4. QED BY <2>1, <2>3, SetConnRests
<1>4. CASE AppSendConnected(self, dst, x)
  <2>1. StreamStep(self, dst, "connected")
    BY <1>1, <1>4, AppSendConnectedStep DEF TypeOK
  <2>2. PICK c1 \in Conn : SetConn(self, dst, c1) /\ c1.state = "connected"
    BY <2>1 DEF StreamStep
  <2>3. Rests(c1)
    BY <2>2 DEF Rests
  <2>4. QED BY <2>2, <2>3, SetConnRests
<1>5. QED BY <1>1, <1>2, <1>3, <1>4 DEF handle_app_send

LEMMA ReceiveRests ==
  ASSUME TypeOK, TransmitStates, NEW f \in BagToSet(net), Arrive(f)
  PROVE  TransmitStates'
<1> DEFINE self == f.dst
           src == f.src
           c == conns[self][src]
<1>1. f \in Frame /\ self \in Peers /\ src \in Peers /\ handle_frame(self, f)
  BY DEF TypeOK, Frame, Arrive
<1>2. HasConn(self, src) => c \in Conn /\ Rests(c)
  BY <1>1, ConnType DEF TypeOK, TransmitStates, Rests
<1>3. CASE AcceptNewSyn(self, f)
  <2>1. SetConn(self, src, SynRecvConn(f))
    BY <1>3 DEF AcceptNewSyn, SynRecvConn
  <2>2. SynRecvConn(f).inflight = <<>> /\ SynRecvConn(f).state = "syn_recv"
    BY DEF SynRecvConn
  <2>3. Rests(SynRecvConn(f))
    BY <2>2 DEF Rests
  <2>4. QED BY <1>1, <2>1, <2>3, SetConnRests
<1>4. CASE AcceptSynAgain(self, f) \/ RejectForeign(self, f) \/ IgnoreForeignReset(self, f)
  <2>1. UNCHANGED conns
    BY <1>4 DEF AcceptSynAgain, RejectForeign, IgnoreForeignReset, socketVars
  <2>2. QED BY <2>1 DEF TransmitStates, HasConn
<1>5. CASE ReceiveSynAck(self, f)
  <2>1. StreamStep(self, src, "connected")
    BY <1>1, <1>5, ReceiveSynAckStep DEF TypeOK
  <2>2. PICK c1 \in Conn : SetConn(self, src, c1) /\ c1.state = "connected"
    BY <2>1 DEF StreamStep
  <2>3. Rests(c1)
    BY <2>2 DEF Rests
  <2>4. QED BY <1>1, <2>2, <2>3, SetConnRests
<1>6. CASE ReceiveState(self, f)
  <2>1. HasConn(self, src)
    BY <1>6 DEF ReceiveState, Matching
  <2>2. PICK o \in process_acks(self, src, c, f) : SetConn(self, src, o.conn)
    BY <1>6 DEF ReceiveState
  <2>3. Rests(o.conn)
    BY <1>1, <1>2, <2>1, <2>2, ProcessAcksRests
  <2>4. QED BY <1>1, <2>2, <2>3, SetConnRests
<1>7. CASE ReceiveData(self, f)
  <2>1. HasConn(self, src) /\ f.type = "st_data"
    BY <1>7 DEF ReceiveData, Matching
  <2>2. PICK o1 \in OnFirstData(self, src, c) :
          \E o2 \in process_acks(self, src, o1.conn, f) :
          \E o3 \in receive_data(self, src, o2.conn, f) : SetConn(self, src, o3.conn)
    BY <1>7 DEF ReceiveData
  <2>3. o1.conn \in Conn /\ Rests(o1.conn)
    <3>1. o1.conn \in Conn /\ o1.conn.state = AfterData(c)
      BY <1>1, <1>2, <2>1, <2>2, OnFirstDataStep
    <3>2. CASE c.state = "syn_recv"
      BY <3>1, <3>2 DEF AfterData, Rests
    <3>3. CASE c.state # "syn_recv"
      <4>1. o1.conn = c
        BY <2>2, <3>3 DEF OnFirstData
      <4>2. QED BY <1>2, <2>1, <4>1
    <3>4. QED BY <3>2, <3>3
  <2>4. PICK o2 \in process_acks(self, src, o1.conn, f) :
          \E o3 \in receive_data(self, src, o2.conn, f) : SetConn(self, src, o3.conn)
    BY <2>2
  <2>5. PICK o3 \in receive_data(self, src, o2.conn, f) : SetConn(self, src, o3.conn)
    BY <2>4
  <2>6. o2.conn \in Conn /\ Rests(o2.conn)
    BY <1>1, <2>3, ProcessAcksRests
  <2>7. Rests(o3.conn)
    BY <1>1, <2>1, <2>6, ReceiveDataRests
  <2>8. QED BY <1>1, <2>5, <2>7, SetConnRests
<1>8. CASE ReceiveReset(self, f)
  <2> DEFINE c1 == [c EXCEPT !.state = "closed", !.inflight = <<>>, !.pending = <<>>]
  <2>1. HasConn(self, src) /\ SetConn(self, src, c1)
    BY <1>8 DEF ReceiveReset, Matching
  <2>2. c1.inflight = <<>> /\ c1.pending = <<>>
    BY <1>2, <2>1 DEF Conn
  <2> HIDE DEF c1
  <2>3. Rests(c1)
    BY <2>2 DEF Rests
  <2>4. QED BY <1>1, <2>1, <2>3, SetConnRests
<1>9. QED
  BY <1>1, <1>3, <1>4, <1>5, <1>6, <1>7, <1>8 DEF handle_frame

LEMMA NextRests == TypeOK /\ TransmitStates /\ [Next]_vars => TransmitStates'
<1> SUFFICES ASSUME TypeOK, TransmitStates, [Next]_vars PROVE TransmitStates'
  OBVIOUS
<1>1. CASE \E self, dst \in Peers : AppSend(self, dst)
  BY <1>1, AppSendRests
<1>2. CASE \E self \in Peers : Receive(self)
  BY <1>2, ReceiveRests DEF Receive
<1>3. CASE \/ \E self \in Peers : Emit(self) \/ Timeout(self)
           \/ \E f \in BagToSet(net) : Lose(f)
           \/ UNCHANGED vars
  <2>1. UNCHANGED conns
    BY <1>3 DEF Emit, EmitFront, Timeout, TimerExpiry, Lose, vars, socketVars
  <2>2. QED BY <2>1 DEF TransmitStates, HasConn
<1>4. QED BY <1>1, <1>2, <1>3 DEF Next

\* However many peers open, and whatever is reset or replaced, no packet is in
\* flight and nothing waits to be sent in an entry that is not connected.
THEOREM SendsOnlyConnected == Spec => []TransmitStates
<1>1. Init => TransmitStates
  BY DEF Init, SocketInit, TransmitStates, HasConn
<1>2. QED BY <1>1, NextRests, TypeCorrect, PTL DEF Spec
=============================================================================
