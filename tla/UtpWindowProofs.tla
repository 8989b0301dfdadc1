-------------------------- MODULE UtpWindowProofs --------------------------
(***************************************************************************)
(* Theorems about UtpWindow for every size of payloads, packets and        *)
(* windows, any width of the sequence numbers, any losses, delays and      *)
(* timeouts.                                                               *)
(*                                                                         *)
(* The inductive invariant StreamInv says that the window never falls      *)
(* below a packet (Fits), that what waits fills the stream from where it   *)
(* was cut to the end of what was submitted (WaitsFrom), and that each     *)
(* packet lies before that point and completes the payloads that end in it *)
(* (Carried).                                                              *)
(*                                                                         *)
(* NumbersInv, for streams that use fewer than half of the numbers (Few),  *)
(* adds the places of the numbers in flight, what cut_seq tells of the     *)
(* window the last cut was made for, what the other end holds, and what    *)
(* the acknowledgements under way say of both.                             *)
(***************************************************************************)
EXTENDS UtpWindow, TLAPS, FiniteNatSets

-----------------------------------------------------------------------------
(* What packetize adds up.                                                  *)

Waiting == [payload : 1 .. MaxPayloads, remaining : Nat \ {0}]

\* What each packet in flight counts for, what each payload has left.
WireBytes(q) == [i \in 1 .. Len(q) |-> q[i].stream_bytes + Header]
Left(q) == [i \in 1 .. Len(q) |-> q[i].remaining]

\* The fold over the packets in flight is the sum of what they count for.
LEMMA InFlightIsSum ==
  ASSUME NEW c, NEW q \in Seq(InflightPkt), c.inflight = q
  PROVE  bytes_in_flight(c) = SumTo(WireBytes(q), Len(q))
<1> DEFINE v == WireBytes(q)
           Is(f) == f = [t \in SUBSET DOMAIN q |->
                           IF t = {} THEN 0
                           ELSE f[t \ {Lists!Max(t)}] + (q[Lists!Max(t)].stream_bytes + Header)]
           g == CHOOSE f : Is(f)
<1>1. Len(q) \in Nat /\ DOMAIN q = 1 .. Len(q)
  OBVIOUS
<1>2. ASSUME NEW t \in SUBSET DOMAIN q, t # {}
      PROVE  Lists!Max(t) = Largest(t) /\ v[Largest(t)] = q[Lists!Max(t)].stream_bytes + Header
  <2>1. Lists!Max(t) = Largest(t)
    BY DEF Lists!Max, Largest
  <2>2. Largest(t) \in DOMAIN q
    BY <1>1, <1>2, LargestIs
  <2> QED BY <1>1, <2>1, <2>2 DEF WireBytes
<1> HIDE DEF v
<1>3. ASSUME NEW f
      PROVE  Is(f) <=> Sums(v, Len(q), f)
  <2> DEFINE a == [t \in SUBSET DOMAIN q |->
                    IF t = {} THEN 0
                    ELSE f[t \ {Lists!Max(t)}] + (q[Lists!Max(t)].stream_bytes + Header)]
             b == [t \in SUBSET DOMAIN q |-> IF t = {} THEN 0 ELSE f[t \ {Largest(t)}] + v[Largest(t)]]
  <2>1. \A t \in SUBSET DOMAIN q : a[t] = b[t]
    BY <1>2
  <2>2. a = [t \in SUBSET DOMAIN q |-> a[t]] /\ b = [t \in SUBSET DOMAIN q |-> b[t]]
    OBVIOUS
  <2>3. a = b
    <3> HIDE DEF a, b
    <3>1. [t \in SUBSET DOMAIN q |-> a[t]] = [t \in SUBSET DOMAIN q |-> b[t]]
      BY <2>1
    <3> QED BY <2>2, <3>1
  <2>4. Sums(v, Len(q), f) <=> f = b
    BY <1>1 DEF Sums
  <2> QED BY <2>3, <2>4
<1>4. bytes_in_flight(c) = g[DOMAIN q]
  BY DEF bytes_in_flight, SumOf, Lists!FoldLeft, Lists!MapThenFoldSet
<1>5. Is(g)
  <2>1. \E f : Is(f)
    BY <1>1, <1>3, SumsExist
  <2> QED BY <2>1
<1> HIDE DEF g, Is
<1>6. Len(q) <= Len(q) /\ Sums(v, Len(q), g)
  BY <1>1, <1>3, <1>5
<1>7. g[1 .. Len(q)] = SumTo(v, Len(q))
  BY <1>1, <1>6, SumIs
<1> QED BY <1>1, <1>4, <1>7 DEF v

\* The same of what the payloads that wait have left,
LEMMA LeftIsSum ==
  ASSUME NEW q \in Seq(Waiting)
  PROVE  SumOf(q, LAMBDA p : p.remaining) = SumTo(Left(q), Len(q))
<1> DEFINE v == Left(q)
           Is(f) == f = [t \in SUBSET DOMAIN q |->
                           IF t = {} THEN 0
                           ELSE f[t \ {Lists!Max(t)}] + q[Lists!Max(t)].remaining]
           g == CHOOSE f : Is(f)
<1>1. Len(q) \in Nat /\ DOMAIN q = 1 .. Len(q)
  OBVIOUS
<1>2. ASSUME NEW t \in SUBSET DOMAIN q, t # {}
      PROVE  Lists!Max(t) = Largest(t) /\ v[Largest(t)] = q[Lists!Max(t)].remaining
  <2>1. Lists!Max(t) = Largest(t)
    BY DEF Lists!Max, Largest
  <2>2. Largest(t) \in DOMAIN q
    BY <1>1, <1>2, LargestIs
  <2> QED BY <1>1, <2>1, <2>2 DEF Left
<1> HIDE DEF v
<1>3. ASSUME NEW f
      PROVE  Is(f) <=> Sums(v, Len(q), f)
  <2> DEFINE a == [t \in SUBSET DOMAIN q |->
                    IF t = {} THEN 0
                    ELSE f[t \ {Lists!Max(t)}] + q[Lists!Max(t)].remaining]
             b == [t \in SUBSET DOMAIN q |-> IF t = {} THEN 0 ELSE f[t \ {Largest(t)}] + v[Largest(t)]]
  <2>1. \A t \in SUBSET DOMAIN q : a[t] = b[t]
    BY <1>2
  <2>2. a = [t \in SUBSET DOMAIN q |-> a[t]] /\ b = [t \in SUBSET DOMAIN q |-> b[t]]
    OBVIOUS
  <2>3. a = b
    <3> HIDE DEF a, b
    <3>1. [t \in SUBSET DOMAIN q |-> a[t]] = [t \in SUBSET DOMAIN q |-> b[t]]
      BY <2>1
    <3> QED BY <2>2, <3>1
  <2>4. Sums(v, Len(q), f) <=> f = b
    BY <1>1 DEF Sums
  <2> QED BY <2>3, <2>4
<1>4. SumOf(q, LAMBDA p : p.remaining) = g[DOMAIN q]
  BY DEF SumOf, Lists!FoldLeft, Lists!MapThenFoldSet
<1>5. Is(g)
  <2>1. \E f : Is(f)
    BY <1>1, <1>3, SumsExist
  <2> QED BY <2>1
<1> HIDE DEF g, Is
<1>6. Len(q) <= Len(q) /\ Sums(v, Len(q), g)
  BY <1>1, <1>3, <1>5
<1>7. g[1 .. Len(q)] = SumTo(v, Len(q))
  BY <1>1, <1>6, SumIs
<1> QED BY <1>1, <1>4, <1>7 DEF v

\* and of sizes.
LEMMA SizesAreSum ==
  ASSUME NEW q \in Seq(PayloadSizes)
  PROVE  SumOf(q, LAMBDA size : size) = SumTo(q, Len(q))
<1> DEFINE Is(f) == f = [t \in SUBSET DOMAIN q |->
                           IF t = {} THEN 0
                           ELSE f[t \ {Lists!Max(t)}] + q[Lists!Max(t)]]
           g == CHOOSE f : Is(f)
<1>1. Len(q) \in Nat /\ DOMAIN q = 1 .. Len(q)
  OBVIOUS
<1>2. ASSUME NEW t \in SUBSET DOMAIN q, t # {}
      PROVE  Lists!Max(t) = Largest(t) /\ q[Largest(t)] = q[Lists!Max(t)]
  <2>1. Lists!Max(t) = Largest(t)
    BY DEF Lists!Max, Largest
  <2>2. Largest(t) \in DOMAIN q
    BY <1>1, <1>2, LargestIs
  <2> QED BY <1>1, <2>1, <2>2 
<1>3. ASSUME NEW f
      PROVE  Is(f) <=> Sums(q, Len(q), f)
  <2> DEFINE a == [t \in SUBSET DOMAIN q |->
                    IF t = {} THEN 0
                    ELSE f[t \ {Lists!Max(t)}] + q[Lists!Max(t)]]
             b == [t \in SUBSET DOMAIN q |-> IF t = {} THEN 0 ELSE f[t \ {Largest(t)}] + q[Largest(t)]]
  <2>1. \A t \in SUBSET DOMAIN q : a[t] = b[t]
    BY <1>2
  <2>2. a = [t \in SUBSET DOMAIN q |-> a[t]] /\ b = [t \in SUBSET DOMAIN q |-> b[t]]
    OBVIOUS
  <2>3. a = b
    <3> HIDE DEF a, b
    <3>1. [t \in SUBSET DOMAIN q |-> a[t]] = [t \in SUBSET DOMAIN q |-> b[t]]
      BY <2>1
    <3> QED BY <2>2, <3>1
  <2>4. Sums(q, Len(q), f) <=> f = b
    BY <1>1 DEF Sums
  <2> QED BY <2>3, <2>4
<1>4. SumOf(q, LAMBDA size : size) = g[DOMAIN q]
  BY DEF SumOf, Lists!FoldLeft, Lists!MapThenFoldSet
<1>5. Is(g)
  <2>1. \E f : Is(f)
    BY <1>1, <1>3, SumsExist
  <2> QED BY <2>1
<1> HIDE DEF g, Is
<1>6. Len(q) <= Len(q) /\ Sums(q, Len(q), g)
  BY <1>1, <1>3, <1>5
<1>7. g[1 .. Len(q)] = SumTo(q, Len(q))
  BY <1>1, <1>6, SumIs
<1> QED BY <1>1, <1>4, <1>7

\* A part from the start of a sequence.
LEMMA PartIs ==
  ASSUME NEW S, NEW s \in Seq(S), NEW k \in 0 .. Len(s)
  PROVE  /\ SubSeq(s, 1, k) \in Seq(S) /\ Len(SubSeq(s, 1, k)) = k
         /\ \A i \in 1 .. k : SubSeq(s, 1, k)[i] = s[i]
<1>1. 1 \in 1 .. Len(s) + 1 /\ k \in 1 - 1 .. Len(s) /\ Len(s) \in Nat
  OBVIOUS
<1> QED BY <1>1, SubSeqProperties

\* What the first k payloads that wait have left: more for each.
LEMMA WaitingIs ==
  ASSUME NEW c, NEW q \in Seq(Waiting), c.pending = q
  PROVE  /\ NatTo(Left(q), Len(q))
         /\ WaitingUntil(c, 0) = 0
         /\ \A k \in 0 .. Len(q) : /\ WaitingUntil(c, k) = SumTo(Left(q), k)
                                   /\ WaitingUntil(c, k) \in Nat
                                   /\ WaitingUntil(c, k) <= WaitingUntil(c, Len(q))
         /\ \A k \in 1 .. Len(q) : WaitingUntil(c, k) = WaitingUntil(c, k - 1) + q[k].remaining
<1>1. Len(q) \in Nat /\ DOMAIN q = 1 .. Len(q) /\ \A i \in 1 .. Len(q) : q[i].remaining \in Nat \ {0}
  <2>1. Len(q) \in Nat /\ DOMAIN q = 1 .. Len(q) /\ \A i \in 1 .. Len(q) : q[i] \in Waiting
    OBVIOUS
  <2> QED BY <2>1 DEF Waiting
<1>2. NatTo(Left(q), Len(q))
  BY <1>1 DEF NatTo, Left
<1>3. ASSUME NEW k \in 0 .. Len(q)
      PROVE  /\ WaitingUntil(c, k) = SumTo(Left(q), k)
             /\ SumTo(Left(q), k) \in Nat /\ SumTo(Left(q), k) <= SumTo(Left(q), Len(q))
  <2> DEFINE s == SubSeq(q, 1, k)
  <2>1. s \in Seq(Waiting) /\ Len(s) = k /\ \A i \in 1 .. k : s[i] = q[i]
    BY PartIs
  <2>2. WaitingUntil(c, k) = SumOf(s, LAMBDA p : p.remaining)
    BY DEF WaitingUntil
  <2> HIDE DEF s
  <2>3. SumOf(s, LAMBDA p : p.remaining) = SumTo(Left(s), k)
    BY <2>1, LeftIsSum
  <2>4. SameTo(Left(s), Left(q), k) /\ k \in Nat
    BY <1>1, <2>1 DEF SameTo, Left
  <2>5. SumTo(Left(s), k) = SumTo(Left(q), k)
    BY <2>4, SumSame
  <2>6. SumTo(Left(q), k) \in Nat /\ SumTo(Left(q), k) <= SumTo(Left(q), Len(q))
    BY <1>1, <1>2, SumGrows
  <2> QED BY <2>2, <2>3, <2>5, <2>6
<1>4. 0 \in 0 .. Len(q) /\ Len(q) \in 0 .. Len(q)
  BY <1>1
<1>5. WaitingUntil(c, 0) = 0
  BY <1>3, <1>4, SumZero
<1>6. ASSUME NEW k \in 1 .. Len(q)
      PROVE  WaitingUntil(c, k) = WaitingUntil(c, k - 1) + q[k].remaining
  <2>1. k \in 0 .. Len(q) /\ k - 1 \in 0 .. Len(q) /\ k - 1 \in Nat /\ (k - 1) + 1 = k
    BY <1>1
  <2>2. SumTo(Left(q), (k - 1) + 1) = SumTo(Left(q), k - 1) + Left(q)[(k - 1) + 1]
    BY <2>1, SumNext
  <2>3. Left(q)[k] = q[k].remaining
    BY DEF Left
  <2> QED BY <1>3, <2>1, <2>2, <2>3
<1>7. \A k \in 0 .. Len(q) : /\ WaitingUntil(c, k) = SumTo(Left(q), k)
                             /\ WaitingUntil(c, k) \in Nat
                             /\ WaitingUntil(c, k) <= WaitingUntil(c, Len(q))
  <2>1. WaitingUntil(c, Len(q)) = SumTo(Left(q), Len(q))
    BY <1>3, <1>4
  <2> QED BY <1>3, <2>1
<1> QED BY <1>2, <1>5, <1>6, <1>7

\* More payloads have more left.
LEMMA WaitingGrows ==
  ASSUME NEW c, NEW q \in Seq(Waiting), c.pending = q, NEW j \in 0 .. Len(q), NEW k \in 0 .. Len(q), j < k
  PROVE  WaitingUntil(c, j) < WaitingUntil(c, k)
<1>1. Len(q) \in Nat /\ NatTo(Left(q), Len(q)) /\ q[k].remaining \in Nat \ {0}
  <2>1. Len(q) \in Nat /\ k \in 1 .. Len(q) /\ q[k] \in Waiting
    OBVIOUS
  <2> QED BY <2>1, WaitingIs DEF Waiting
<1>2. k - 1 \in Nat /\ k - 1 \in 0 .. Len(q) /\ j \in 0 .. k - 1 /\ k \in 1 .. Len(q)
  BY <1>1
<1>3. NatTo(Left(q), k - 1)
  BY <1>1, <1>2 DEF NatTo
<1>4. SumTo(Left(q), j) <= SumTo(Left(q), k - 1)
  BY <1>2, <1>3, SumGrows
<1>5. /\ WaitingUntil(c, j) = SumTo(Left(q), j) /\ WaitingUntil(c, k - 1) = SumTo(Left(q), k - 1)
      /\ WaitingUntil(c, j) \in Nat /\ WaitingUntil(c, k - 1) \in Nat
      /\ WaitingUntil(c, k) = WaitingUntil(c, k - 1) + q[k].remaining
  BY <1>2, WaitingIs
<1> QED BY <1>1, <1>4, <1>5

\* Where payloads end in the stream.
LEMMA EndIs ==
  ASSUME submitted \in Seq(PayloadSizes), NEW n \in 0 .. Len(submitted)
  PROVE  EndOf(n) = SumTo(submitted, n)
<1> DEFINE s == SubSeq(submitted, 1, n)
<1>1. s \in Seq(PayloadSizes) /\ Len(s) = n /\ \A i \in 1 .. n : s[i] = submitted[i]
  BY PartIs
<1>2. EndOf(n) = SumOf(s, LAMBDA size : size)
  BY DEF EndOf
<1> HIDE DEF s
<1>3. SumOf(s, LAMBDA size : size) = SumTo(s, n)
  BY <1>1, SizesAreSum
<1>4. n \in Nat /\ SameTo(s, submitted, n)
  BY <1>1 DEF SameTo
<1> QED BY <1>2, <1>3, <1>4, SumSame

\* The packets in flight count for something, each more than its header.
LEMMA InFlightIs ==
  ASSUME NEW c, NEW q \in Seq(InflightPkt), c.inflight = q
  PROVE  /\ bytes_in_flight(c) \in Nat
         /\ bytes_in_flight(c) = 0 <=> q = <<>>
<1> DEFINE v == WireBytes(q)
           n == Len(q)
<1>1. n \in Nat /\ DOMAIN q = 1 .. n /\ Header \in Nat
  BY WindowAssumption
<1>2. ASSUME NEW i \in 1 .. n PROVE v[i] \in Nat /\ v[i] > 0
  <2>1. q[i] \in InflightPkt /\ v[i] = q[i].stream_bytes + Header
    BY <1>1 DEF WireBytes
  <2>2. q[i].stream_bytes \in Nat \ {0}
    BY <2>1 DEF InflightPkt
  <2> QED BY <1>1, <2>1, <2>2
<1>3. bytes_in_flight(c) = SumTo(v, n)
  BY InFlightIsSum
<1> HIDE DEF v
<1>4. NatTo(v, n)
  BY <1>2 DEF NatTo
<1>5. SumTo(v, n) \in Nat
  BY <1>1, <1>4, SumNat
<1>6. CASE q = <<>>
  <2>1. n = 0
    BY <1>6
  <2> QED BY <1>3, <1>5, <1>6, <2>1, SumZero
<1>7. CASE q # <<>>
  <2>1. n \in Nat \ {0}
    BY <1>1, <1>7
  <2>2. 1 \in 0 .. n /\ 0 \in Nat /\ 1 \in 1 .. n
    BY <2>1
  <2> HIDE DEF n
  <2>3. SumTo(v, 1) <= SumTo(v, n)
    BY <1>1, <1>4, <2>2, SumGrows
  <2>4. SumTo(v, 0 + 1) = SumTo(v, 0) + v[0 + 1]
    BY <2>2, SumNext
  <2>5. SumTo(v, 1) = v[1]
    BY <1>2, <2>2, <2>4, SumZero
  <2> QED BY <1>2, <1>3, <1>5, <1>7, <2>2, <2>3, <2>5
<1> QED BY <1>6, <1>7

\* The greater and the lesser of two numbers.
LEMMA MaxOfTwo ==
  ASSUME NEW a \in Int, NEW b \in Int
  PROVE  Max({a, b}) = IF a >= b THEN a ELSE b
<1> DEFINE m == IF a >= b THEN a ELSE b
<1>1. m \in {a, b} /\ \A y \in {a, b} : m >= y
  OBVIOUS
<1>2. \A x \in {a, b} : (\A y \in {a, b} : x >= y) => x = m
  OBVIOUS
<1> QED BY <1>1, <1>2 DEF Max

LEMMA MinOfTwo ==
  ASSUME NEW a \in Int, NEW b \in Int
  PROVE  Min({a, b}) = IF a <= b THEN a ELSE b
<1> DEFINE m == IF a <= b THEN a ELSE b
<1>1. m \in {a, b} /\ \A y \in {a, b} : m <= y
  OBVIOUS
<1>2. \A x \in {a, b} : (\A y \in {a, b} : x <= y) => x = m
  OBVIOUS
<1> QED BY <1>1, <1>2 DEF Min

\* What a whole division leaves is less than the divisor.
LEMMA Quotient ==
  ASSUME NEW x \in Nat, NEW d \in Nat \ {0}
  PROVE  x \div d \in Nat /\ (x \div d) * d <= x /\ x < (x \div d) * d + d
  OBVIOUS

\* The room for full packets with a remainder: what is admitted never exceeds
\* what waits, and is something if there is room for more than a header.
LEMMA RoomAdmits ==
  ASSUME NEW w \in Nat, NEW r \in Nat, NEW full \in Nat, full = Min({w \div Mtu, r \div (Mtu + Header)})
  PROVE  LET bytes == full * Mtu + Max({0, Min({w - full * Mtu, r - full * (Mtu + Header) - Header})})
         IN  /\ bytes \in 0 .. w
             /\ w > 0 /\ r > Header => bytes > 0
<1>1. Mtu \in Nat \ {0} /\ Header \in Nat /\ Mtu + Header \in Nat \ {0}
  BY WindowAssumption
<1> DEFINE a == w \div Mtu
           b == r \div (Mtu + Header)
           f == full * Mtu
           g == full * (Mtu + Header)
           m == Min({w - f, r - g - Header})
           rest == Max({0, m})
<1>2. a \in Nat /\ b \in Nat /\ a * Mtu <= w
  BY <1>1, Quotient
<1>3. full <= a
  BY <1>2, MinOfTwo
<1>4. f \in Nat /\ g \in Int /\ f <= w
  <2>1. f \in Nat /\ g \in Int /\ f <= a * Mtu /\ a * Mtu \in Nat
    BY <1>1, <1>2, <1>3
  <2> QED BY <1>2, <2>1
<1>5. full > 0 => f > 0
  BY <1>1
<1>6. full = 0 => f = 0 /\ g = 0
  BY <1>1
<1> HIDE DEF a, f, g
<1>7. w - f \in Int /\ r - g - Header \in Int
  BY <1>1, <1>4
<1>8. m = IF w - f <= r - g - Header THEN w - f ELSE r - g - Header
  BY <1>7, MinOfTwo
<1>9. m \in Int
  BY <1>7, <1>8
<1> HIDE DEF m
<1>10. rest = IF 0 >= m THEN 0 ELSE m
  BY <1>9, MaxOfTwo
<1> HIDE DEF rest
<1>11. rest \in Nat /\ rest <= w - f
  BY <1>4, <1>7, <1>8, <1>9, <1>10
<1>12. f + rest \in 0 .. w
  BY <1>4, <1>11
<1>13. ASSUME w > 0, r > Header PROVE f + rest > 0
  <2>1. CASE full > 0
    BY <1>4, <1>5, <1>11, <2>1
  <2>2. CASE full = 0
    BY <1>1, <1>6, <1>8, <1>10, <1>13, <2>2
  <2> QED BY <2>1, <2>2
<1> QED BY <1>12, <1>13 DEF f, g, m, rest

\* A connection whose window is not below a packet, and which queues only packets
\* that it has sent.
Fits(c) ==
  /\ c \in Conn /\ c.cwnd >= MinPacket
  /\ c.out_frames \subseteq [seq : Uint16, nth : Nat \ {0}]

\* What packetize sends: no more than waits, and something when a packet fits
\* and nothing is in flight.
LEMMA AdmittedIs ==
  ASSUME NEW c \in Conn
  PROVE  /\ Admitted(c) \in 0 .. WaitingUntil(c, Len(c.pending))
         /\ Fits(c) /\ c.inflight = <<>> /\ c.pending # <<>> => Admitted(c) > 0
<1> DEFINE q == c.pending
           w == WaitingUntil(c, Len(q))
           used == bytes_in_flight(c)
           fits == Min({c.cwnd, RecvWindow})
           r == Max({0, fits - used})
           full == Min({w \div Mtu, r \div (Mtu + Header)})
           bytes == full * Mtu + Max({0, Min({w - full * Mtu, r - full * (Mtu + Header) - Header})})
<1>0. Admitted(c) = bytes
  BY DEF Admitted
<1>1. q \in Seq(Waiting) /\ c.inflight \in Seq(InflightPkt) /\ c.cwnd \in Nat
  BY DEF Conn, Waiting
<1>2. used \in Nat /\ (c.inflight = <<>> => used = 0)
  BY <1>1, InFlightIs
<1>3. Len(q) \in Nat /\ 0 \in 0 .. Len(q) /\ Len(q) \in 0 .. Len(q)
  BY <1>1
<1>4. w \in Nat /\ (q # <<>> => w > 0)
  <2>1. w \in Nat /\ WaitingUntil(c, 0) = 0
    BY <1>1, <1>3, WaitingIs
  <2>2. q # <<>> => 0 < Len(q)
    BY <1>1
  <2> QED BY <1>1, <1>3, <2>1, <2>2, WaitingGrows
<1>5. RecvWindow \in Nat /\ RecvWindow > Header /\ MinPacket > Header /\ MinPacket \in Nat /\ Header \in Nat
      /\ Mtu \in Nat \ {0} /\ Mtu + Header \in Nat \ {0}
  BY WindowAssumption
<1> HIDE DEF q, w, used
<1>6. fits = IF c.cwnd <= RecvWindow THEN c.cwnd ELSE RecvWindow
  BY <1>1, <1>5, MinOfTwo
<1>7. fits \in Nat
  BY <1>1, <1>5, <1>6
<1> HIDE DEF fits
<1>8. r = IF 0 >= fits - used THEN 0 ELSE fits - used
  BY <1>2, <1>7, MaxOfTwo
<1>9. r \in Nat /\ (Fits(c) /\ c.inflight = <<>> => r > Header)
  BY <1>1, <1>2, <1>5, <1>6, <1>7, <1>8 DEF Fits
<1> HIDE DEF r
<1>10. full \in Nat
  <2>1. w \div Mtu \in Nat /\ r \div (Mtu + Header) \in Nat
    BY <1>4, <1>5, <1>9, Quotient
  <2> QED BY <2>1, MinOfTwo
<1>11. bytes \in 0 .. w /\ (w > 0 /\ r > Header => bytes > 0)
  <2> HIDE DEF full
  <2>1. full = Min({w \div Mtu, r \div (Mtu + Header)})
    BY DEF full
  <2> QED BY <1>4, <1>9, <1>10, <2>1, RoomAdmits
<1> HIDE DEF bytes
<1>12. Fits(c) /\ c.inflight = <<>> /\ q # <<>> => bytes > 0
  BY <1>4, <1>9, <1>11
<1> QED BY <1>0, <1>11, <1>12 DEF q, w

\* d waits for what c waits for, without the first b bytes, and without the
\* first done payloads, which they cover.
LeavesWaiting(c, d, b, done) ==
  /\ done \in 0 .. Len(c.pending)
  /\ d.pending \in Seq(Waiting)
  /\ Len(d.pending) = Len(c.pending) - done
  /\ WaitingUntil(c, done) <= b
  /\ \A i \in 1 .. Len(d.pending) : /\ d.pending[i].payload = c.pending[done + i].payload
                                    /\ WaitingUntil(d, i) = WaitingUntil(c, done + i) - b

LEMMA RemainingIs ==
  ASSUME NEW c, NEW q \in Seq(Waiting), c.pending = q, NEW b \in 0 .. WaitingUntil(c, Len(q)),
         NEW d, d.pending = Remaining(c, b)
  PROVE  \E done : LeavesWaiting(c, d, b, done)
<1> DEFINE K == {k \in DOMAIN q : WaitingUntil(c, k) <= b}
           n == Len(q)
           done == Cardinality(K)
           rest == SubSeq(q, done + 1, n)
           r == IF rest = <<>> THEN rest
                ELSE [rest EXCEPT ![1].remaining = WaitingUntil(c, done + 1) - b]
<1>0. Remaining(c, b) = r
  BY DEF Remaining
<1>1. n \in Nat /\ DOMAIN q = 1 .. n /\ \A i \in 1 .. n : q[i] \in Waiting
  OBVIOUS
<1>2. WaitingUntil(c, n) \in Nat
  BY <1>1, WaitingIs
<1>3. b \in Nat
  BY <1>2
<1>4. \A i \in K : \A j \in 1 .. i : j \in K
  <2>1. ASSUME NEW i \in K, NEW j \in 1 .. i, j < i PROVE j \in K
    <3>1. i \in 0 .. n /\ j \in 0 .. n /\ j \in 1 .. n
      BY <1>1
    <3>2. WaitingUntil(c, j) < WaitingUntil(c, i) /\ WaitingUntil(c, i) \in Nat /\ WaitingUntil(c, j) \in Nat
      BY <2>1, <3>1, WaitingGrows, WaitingIs
    <3> QED BY <1>1, <1>3, <3>1, <3>2
  <2> QED BY <1>1, <2>1
<1>5. done \in 0 .. n /\ K = 1 .. done
  <2>1. K \in SUBSET (1 .. n)
    BY <1>1
  <2> HIDE DEF K
  <2> QED BY <1>1, <1>4, <2>1, PrefixCount
<1>6. WaitingUntil(c, done) <= b
  <2>1. CASE done = 0
    BY <1>3, <2>1, WaitingIs
  <2>2. CASE done # 0
    <3>1. done \in 1 .. done
      BY <1>1, <1>5, <2>2
    <3>2. done \in K
      <4> HIDE DEF K, done
      <4> QED BY <1>5, <3>1
    <3> HIDE DEF done
    <3> QED BY <3>2
  <2> QED BY <2>1, <2>2
<1> HIDE DEF done
<1>7. \A k \in done + 1 .. n : WaitingUntil(c, k) > b
  <2>1. ASSUME NEW k \in done + 1 .. n PROVE WaitingUntil(c, k) > b
    <3>1. k \notin K /\ k \in 1 .. n /\ k \in 0 .. n
      <4>1. done \in Nat /\ k \in 1 .. n /\ k \in 0 .. n /\ k \notin 1 .. done
        BY <1>1, <1>5
      <4> HIDE DEF K
      <4> QED BY <1>5, <4>1
    <3>2. WaitingUntil(c, k) \in Nat
      BY <3>1, WaitingIs
    <3> QED BY <1>1, <1>3, <3>1, <3>2
  <2> QED BY <2>1
<1> HIDE DEF K
<1>8. /\ rest \in Seq(Waiting) /\ Len(rest) = n - done
      /\ \A i \in 1 .. n - done : rest[i] = q[done + i]
  <2>1. done + 1 \in 1 .. n + 1 /\ n \in (done + 1) - 1 .. n
    BY <1>1, <1>5
  <2>2. /\ rest \in Seq(Waiting)
        /\ Len(rest) = IF done + 1 <= n THEN n - (done + 1) + 1 ELSE 0
        /\ \A i \in 1 .. n - (done + 1) + 1 : rest[i] = q[(done + 1) + i - 1]
    BY <2>1, SubSeqProperties
  <2> HIDE DEF rest
  <2>4. n - (done + 1) + 1 = n - done /\ done \in Nat /\ n - done \in Nat
    BY <1>1, <1>5
  <2>3. ASSUME NEW i \in 1 .. n - done PROVE rest[i] = q[done + i]
    <3>1. rest[i] = q[(done + 1) + i - 1]
      BY <2>2, <2>4
    <3>2. (done + 1) + i - 1 = done + i
      BY <2>4
    <3> QED BY <3>1, <3>2
  <2>5. Len(rest) = n - done
    <3>1. done \in 0 .. n /\ n \in Nat
      BY <1>1, <1>5
    <3>2. Len(rest) = IF done + 1 <= n THEN n - (done + 1) + 1 ELSE 0
      BY <2>2
    <3> HIDE DEF n
    <3> QED BY <3>1, <3>2
  <2> QED BY <2>2, <2>3, <2>5
<1> HIDE DEF rest
<1>9. /\ r \in Seq(Waiting) /\ Len(r) = n - done
      /\ \A i \in 1 .. n - done :
           /\ r[i].payload = q[done + i].payload
           /\ r[i].remaining = IF i = 1 THEN WaitingUntil(c, done + 1) - b ELSE q[done + i].remaining
  <2>1. CASE rest = <<>>
    <3>1. r = <<>> /\ n - done = 0
      BY <1>8, <2>1
    <3> HIDE DEF r, n
    <3>2. r \in Seq(Waiting) /\ Len(r) = 0 /\ 1 .. 0 = {}
      BY <3>1
    <3> QED BY <3>1, <3>2
  <2>2. CASE rest # <<>>
    <3>1. n - done \in Nat \ {0} /\ done + 1 \in done + 1 .. n /\ done + 1 \in 0 .. n /\ 1 \in 1 .. n - done
      <4>1. n \in Nat /\ done \in 0 .. n
        BY <1>1, <1>5
      <4>2. n - done # 0
        BY <1>8, <2>2
      <4> HIDE DEF n
      <4> QED BY <4>1, <4>2
    <3>2. WaitingUntil(c, done + 1) - b \in Nat \ {0}
      <4>1. WaitingUntil(c, done + 1) > b /\ WaitingUntil(c, done + 1) \in Nat
        BY <1>7, <3>1, WaitingIs
      <4> QED BY <1>3, <4>1
    <3> DEFINE x == WaitingUntil(c, done + 1) - b
               m == n - done
    <3>3. r = [rest EXCEPT ![1].remaining = x]
      BY <2>2
    <3> HIDE DEF r, x, m
    <3>4. x \in Nat \ {0} /\ m \in Nat \ {0} /\ Len(rest) = m /\ DOMAIN rest = 1 .. m
      BY <1>8, <3>1, <3>2 DEF x, m
    <3>5. r = [i \in 1 .. m |-> IF i = 1 THEN [rest[1] EXCEPT !.remaining = x] ELSE rest[i]]
      BY <3>3, <3>4
    <3>6. \A i \in 1 .. m : rest[i] \in Waiting
      BY <1>8, <3>4
    <3>7. [rest[1] EXCEPT !.remaining = x] \in Waiting /\ [rest[1] EXCEPT !.remaining = x].payload = rest[1].payload
          /\ [rest[1] EXCEPT !.remaining = x].remaining = x
      <4>1. rest[1] \in Waiting
        BY <3>4, <3>6
      <4> QED BY <3>4, <4>1 DEF Waiting
    <3>8. r \in Seq(Waiting) /\ Len(r) = m
      <4>1. \A i \in 1 .. m : (IF i = 1 THEN [rest[1] EXCEPT !.remaining = x] ELSE rest[i]) \in Waiting
        BY <3>6, <3>7
      <4>2. r \in [1 .. m -> Waiting]
        BY <3>5, <4>1
      <4> QED BY <3>4, <4>2
    <3>9. \A i \in 1 .. m : /\ r[i].payload = rest[i].payload
                            /\ r[i].remaining = IF i = 1 THEN x ELSE rest[i].remaining
      BY <3>5, <3>7
    <3>10. ASSUME NEW i \in 1 .. m
           PROVE  /\ r[i].payload = q[done + i].payload
                  /\ r[i].remaining = IF i = 1 THEN x ELSE q[done + i].remaining
      <4>1. rest[i] = q[done + i]
        BY <1>8 DEF m
      <4> QED BY <3>9, <4>1
    <3> QED BY <3>8, <3>10 DEF x, m
  <2> QED BY <2>1, <2>2
<1> HIDE DEF r
<1> DEFINE v == Left(r)
           P == {i \in Nat : i \in 1 .. n - done => SumTo(v, i) = WaitingUntil(c, done + i) - b}
<1>10. 0 \in P
  OBVIOUS
<1>11. ASSUME NEW i \in P PROVE i + 1 \in P
  <2>1. SUFFICES ASSUME i + 1 \in 1 .. n - done
                 PROVE  SumTo(v, i + 1) = WaitingUntil(c, done + (i + 1)) - b
    OBVIOUS
  <2>2. /\ i \in Nat /\ i + 1 \in 1 .. n - done /\ done \in Nat /\ done + (i + 1) \in 1 .. n
        /\ (i # 0 => SumTo(v, i) = WaitingUntil(c, done + i) - b)
        /\ (done + (i + 1)) - 1 = done + i /\ done + i \in 0 .. n
    BY <1>1, <1>5, <2>1
  <2>3. SumTo(v, i + 1) = SumTo(v, i) + v[i + 1] /\ v[i + 1] = r[i + 1].remaining
    BY <1>9, <2>2, SumNext DEF Left
  <2>4. CASE i = 0
    <3>1. SumTo(v, 0) = 0 /\ 0 + 1 = 1
      BY SumZero
    <3>2. v[1] = WaitingUntil(c, done + 1) - b
      BY <1>9, <2>2, <2>3, <2>4
    <3>3. WaitingUntil(c, done + 1) \in Nat
      BY <2>2, <2>4, WaitingIs
    <3> HIDE DEF v
    <3> QED BY <1>3, <2>3, <2>4, <3>1, <3>2, <3>3
  <2>5. CASE i # 0
    <3>1. v[i + 1] = q[done + (i + 1)].remaining
      BY <1>9, <2>2, <2>3, <2>5
    <3>2. WaitingUntil(c, done + (i + 1)) = WaitingUntil(c, (done + (i + 1)) - 1) + q[done + (i + 1)].remaining
      BY <2>2, WaitingIs
    <3>3. WaitingUntil(c, done + i) \in Nat /\ q[done + (i + 1)].remaining \in Nat
      BY <1>1, <2>2, WaitingIs DEF Waiting
    <3>4. WaitingUntil(c, done + (i + 1)) = WaitingUntil(c, done + i) + q[done + (i + 1)].remaining
      BY <2>2, <3>2
    <3>5. SumTo(v, i) = WaitingUntil(c, done + i) - b
      BY <2>2, <2>5
    <3>6. SumTo(v, i + 1) = SumTo(v, i) + q[done + (i + 1)].remaining
      BY <2>3, <3>1
    <3> HIDE DEF v
    <3> QED BY <1>3, <3>3, <3>4, <3>5, <3>6
  <2> QED BY <2>4, <2>5
<1>12. P = Nat
  <2>1. P \in SUBSET Nat
    OBVIOUS
  <2> HIDE DEF P
  <2> QED BY <1>10, <1>11, <2>1, SetInduction
<1>13. \A i \in 1 .. n - done : WaitingUntil(d, i) = WaitingUntil(c, done + i) - b
  <2>1. ASSUME NEW i \in 1 .. n - done PROVE WaitingUntil(d, i) = WaitingUntil(c, done + i) - b
    <3>1. i \in 0 .. Len(r) /\ i \in P /\ d.pending = r
      BY <1>0, <1>9, <1>12
    <3>2. WaitingUntil(d, i) = SumTo(v, i)
      BY <1>9, <3>1, WaitingIs
    <3> QED BY <3>1, <3>2
  <2> QED BY <2>1
<1>14. LeavesWaiting(c, d, b, done)
  BY <1>0, <1>5, <1>6, <1>9, <1>13 DEF LeavesWaiting
<1> QED BY <1>14

\* A packet completes the payloads that end in it, and lies before offset.
Carried(p, s, offset) ==
  /\ p.completing = {n \in DOMAIN s : p.offset < SumTo(s, n) /\ SumTo(s, n) <= p.offset + p.stream_bytes}
  /\ p.offset + p.stream_bytes <= offset

\* What waits are the payloads after the first done, which fill the stream from
\* the offset to its end.
WaitsFrom(c, s, done) ==
  /\ done \in Nat /\ done + Len(c.pending) = Len(s)
  /\ SumTo(s, done) <= c.offset
  /\ c.pending = <<>> => c.offset = SumTo(s, done)
  /\ \A i \in 1 .. Len(c.pending) : /\ c.pending[i].payload = done + i
                                    /\ c.offset + WaitingUntil(c, i) = SumTo(s, done + i)

Streams(c, s) ==
  /\ Fits(c)
  /\ WaitsFrom(c, s, Len(s) - Len(c.pending))
  /\ \A i \in 1 .. Len(c.inflight) : Carried(c.inflight[i], s, c.offset)

Moves(c) == c.pending # <<>> => c.inflight # <<>>

\* The sums of sizes.
LEMMA SizesIs ==
  ASSUME NEW s \in Seq(PayloadSizes)
  PROVE  /\ Len(s) \in Nat /\ DOMAIN s = 1 .. Len(s)
         /\ \A n \in 1 .. Len(s) : s[n] \in Nat \ {0}
         /\ \A n \in 0 .. Len(s) : SumTo(s, n) \in Nat
         /\ \A m, n \in 0 .. Len(s) : m <= n => SumTo(s, m) <= SumTo(s, n)
<1>1. Len(s) \in Nat /\ DOMAIN s = 1 .. Len(s) /\ \A n \in 1 .. Len(s) : s[n] \in Nat \ {0}
  <2>1. Len(s) \in Nat /\ DOMAIN s = 1 .. Len(s) /\ \A n \in 1 .. Len(s) : s[n] \in PayloadSizes
    OBVIOUS
  <2> QED BY <2>1, WindowAssumption
<1>2. ASSUME NEW n \in 0 .. Len(s), NEW m \in 0 .. Len(s), m <= n
      PROVE  SumTo(s, n) \in Nat /\ SumTo(s, m) <= SumTo(s, n)
  <2>1. n \in Nat /\ m \in 0 .. n /\ NatTo(s, n)
    BY <1>1, <1>2 DEF NatTo
  <2> QED BY <2>1, SumGrows
<1>3. \A n \in 0 .. Len(s) : n <= n
  BY <1>1
<1> QED BY <1>1, <1>2, <1>3

\* Where the i-th packet of b bytes ends.
CutAt(b, i) == Min({i * Mtu, b})

\* Packets of b bytes: each is something, the last ends where the bytes do.
LEMMA CutsAre ==
  ASSUME NEW b \in Nat \ {0}, NEW n, n = (b + Mtu - 1) \div Mtu
  PROVE  /\ n \in Nat \ {0}
         /\ \A i \in 1 .. n : /\ CutAt(b, i - 1) \in Nat /\ CutAt(b, i) \in Nat
                              /\ CutAt(b, i - 1) < CutAt(b, i) /\ CutAt(b, i) <= b
<1>1. Mtu \in Nat \ {0} /\ b + Mtu - 1 \in Nat
  BY WindowAssumption
<1>2. n \in Nat /\ n * Mtu <= b + Mtu - 1 /\ b + Mtu - 1 < n * Mtu + Mtu
  BY <1>1, Quotient
<1>3. n # 0
  BY <1>1, <1>2
<1>4. ASSUME NEW i \in 1 .. n
      PROVE  /\ CutAt(b, i - 1) \in Nat /\ CutAt(b, i) \in Nat
             /\ CutAt(b, i - 1) < CutAt(b, i) /\ CutAt(b, i) <= b
  <2> DEFINE x == (i - 1) * Mtu
             y == i * Mtu
  <2>1. i \in Nat /\ i - 1 \in Nat /\ i - 1 <= n - 1 /\ n - 1 \in Nat
    BY <1>2
  <2>2. x \in Nat /\ y \in Nat /\ y = x + Mtu /\ x <= (n - 1) * Mtu /\ (n - 1) * Mtu = n * Mtu - Mtu
        /\ n * Mtu \in Nat
    BY <1>1, <1>2, <2>1
  <2>3. x < b
    <3> HIDE DEF x, y
    <3> QED BY <1>1, <1>2, <2>2
  <2> HIDE DEF x, y
  <2>4. CutAt(b, i - 1) = IF x <= b THEN x ELSE b
    BY <2>2, MinOfTwo DEF CutAt, x
  <2>5. CutAt(b, i) = IF y <= b THEN y ELSE b
    BY <2>2, MinOfTwo DEF CutAt, y
  <2> QED BY <1>1, <2>2, <2>3, <2>4, <2>5
<1> QED BY <1>2, <1>3, <1>4

\* A packet cut from what waits completes the payloads that end in it.
LEMMA CompletedIs ==
  ASSUME NEW s \in Seq(PayloadSizes), NEW c \in Conn, WaitsFrom(c, s, Len(s) - Len(c.pending)),
         NEW from \in Nat, NEW to \in Nat
  PROVE  /\ Completed(c, from, to) \in SUBSET (1 .. MaxPayloads)
         /\ Completed(c, from, to) = {n \in DOMAIN s : c.offset + from < SumTo(s, n) /\ SumTo(s, n) <= c.offset + to}
<1> DEFINE q == c.pending
           done == Len(s) - Len(q)
           K == {k \in DOMAIN q : from < WaitingUntil(c, k) /\ WaitingUntil(c, k) <= to}
<1>1. q \in Seq(Waiting) /\ c.offset \in Nat
  BY DEF Conn, Waiting
<1>2. Len(q) \in Nat /\ DOMAIN q = 1 .. Len(q) /\ \A k \in 1 .. Len(q) : q[k] \in Waiting
  BY <1>1
<1>3. /\ done \in Nat /\ done + Len(q) = Len(s) /\ SumTo(s, done) <= c.offset
      /\ \A i \in 1 .. Len(q) : q[i].payload = done + i /\ c.offset + WaitingUntil(c, i) = SumTo(s, done + i)
  BY DEF WaitsFrom
<1>4. Completed(c, from, to) = {q[k].payload : k \in K}
  BY DEF Completed
<1>5. \A k \in 1 .. Len(q) : WaitingUntil(c, k) \in Nat
  <2>1. \A k \in 1 .. Len(q) : k \in 0 .. Len(q)
    BY <1>2
  <2> QED BY <1>1, <2>1, WaitingIs
<1>6. Len(s) \in Nat /\ DOMAIN s = 1 .. Len(s) /\ \A n \in 0 .. Len(s) : SumTo(s, n) \in Nat
  BY SizesIs
<1> HIDE DEF q, done
<1>7. ASSUME NEW k \in K
      PROVE  /\ q[k].payload \in 1 .. MaxPayloads /\ q[k].payload \in DOMAIN s
             /\ c.offset + from < SumTo(s, q[k].payload) /\ SumTo(s, q[k].payload) <= c.offset + to
  <2>1. k \in 1 .. Len(q) /\ from < WaitingUntil(c, k) /\ WaitingUntil(c, k) <= to
    BY <1>2
  <2>2. q[k].payload = done + k /\ c.offset + WaitingUntil(c, k) = SumTo(s, done + k) /\ WaitingUntil(c, k) \in Nat
    BY <1>3, <1>5, <2>1
  <2>3. done + k \in 1 .. Len(s)
    BY <1>2, <1>3, <1>6, <2>1
  <2>4. q[k].payload \in 1 .. MaxPayloads
    BY <1>2, <2>1 DEF Waiting
  <2> QED BY <1>1, <1>6, <2>1, <2>2, <2>3, <2>4
<1>8. ASSUME NEW n \in DOMAIN s, c.offset + from < SumTo(s, n), SumTo(s, n) <= c.offset + to
      PROVE  \E k \in K : q[k].payload = n
  <2>1. n \in 1 .. Len(s) /\ n \in 0 .. Len(s) /\ done \in 0 .. Len(s) /\ SumTo(s, n) \in Nat /\ SumTo(s, done) \in Nat
    BY <1>2, <1>3, <1>6
  <2>2. ~(n <= done)
    <3>1. n <= done => SumTo(s, n) <= SumTo(s, done)
      BY <2>1, SizesIs
    <3>2. SumTo(s, done) < SumTo(s, n)
      BY <1>1, <1>3, <1>8, <2>1
    <3> QED BY <2>1, <3>1, <3>2
  <2> DEFINE k == n - done
  <2>3. k \in 1 .. Len(q) /\ done + k = n
    BY <1>2, <1>3, <2>1, <2>2
  <2> HIDE DEF k
  <2>4. q[k].payload = n /\ c.offset + WaitingUntil(c, k) = SumTo(s, n) /\ WaitingUntil(c, k) \in Nat
    BY <1>3, <1>5, <2>3
  <2>5. from < WaitingUntil(c, k) /\ WaitingUntil(c, k) <= to
    BY <1>1, <1>8, <2>4
  <2> QED BY <1>2, <2>3, <2>4, <2>5
<1> HIDE DEF K
<1>9. {q[k].payload : k \in K} = {n \in DOMAIN s : c.offset + from < SumTo(s, n) /\ SumTo(s, n) <= c.offset + to}
  BY <1>7, <1>8
<1>10. {q[k].payload : k \in K} \in SUBSET (1 .. MaxPayloads)
  BY <1>7
<1> QED BY <1>4, <1>9, <1>10

\* The sum of a 16-bit number and an offset is a 16-bit number.
LEMMA PlusType ==
  ASSUME NEW a \in Int, NEW k \in Int
  PROVE  Plus(a, k) \in Uint16
  BY SeqModAssumption DEF Plus, Uint16

\* A 16-bit number is an integer.
LEMMA Uint16Int == Uint16 \subseteq Int
  BY SeqModAssumption DEF Uint16

\* The packets that packetize cuts.
Packets(c) ==
  [i \in 1 .. ((Admitted(c) + Mtu - 1) \div Mtu) |->
     [seq |-> Plus(c.seq_nr, i - 1),
      stream_bytes |-> CutAt(Admitted(c), i) - CutAt(Admitted(c), i - 1),
      completing |-> Completed(c, CutAt(Admitted(c), i - 1), CutAt(Admitted(c), i)), transmissions |-> 1,
      sacked_past |-> 0, offset |-> c.offset + CutAt(Admitted(c), i - 1)]]

\* What packetize changes when it sends.
LEMMA PacketizeIs ==
  ASSUME NEW c \in Conn, Admitted(c) # 0,
         NEW n, n = (Admitted(c) + Mtu - 1) \div Mtu
  PROVE  packetize(c) =
           [c EXCEPT !.pending = Remaining(c, Admitted(c)), !.inflight = @ \o Packets(c),
                     !.seq_nr = Plus(@, n), !.offset = @ + Admitted(c), !.idle = 0,
                     !.out_frames = @ \cup {[seq |-> Plus(c.seq_nr, i - 1), nth |-> 1] : i \in 1 .. n}]
  BY DEF packetize, Packets, CutAt

\* They are packets in flight, which carry their part of the stream.
LEMMA PacketsAre ==
  ASSUME NEW s \in Seq(PayloadSizes), NEW c \in Conn, WaitsFrom(c, s, Len(s) - Len(c.pending)),
         Admitted(c) # 0
  PROVE  /\ Packets(c) \in Seq(InflightPkt) /\ Packets(c) # <<>>
         /\ \A i \in 1 .. Len(Packets(c)) : Carried(Packets(c)[i], s, c.offset + Admitted(c))
<1> DEFINE b == Admitted(c)
           n == (b + Mtu - 1) \div Mtu
           ps == Packets(c)
<1>1. c.offset \in Nat /\ c.seq_nr \in Int /\ c.pending \in Seq(Waiting)
  BY Uint16Int DEF Conn, Waiting
<1>2. b \in Nat \ {0}
  <2>1. Len(c.pending) \in 0 .. Len(c.pending)
    BY <1>1
  <2>2. WaitingUntil(c, Len(c.pending)) \in Nat
    BY <1>1, <2>1, WaitingIs
  <2>3. b \in 0 .. WaitingUntil(c, Len(c.pending))
    BY AdmittedIs
  <2> HIDE DEF b
  <2>4. b # 0
    BY DEF b
  <2> QED BY <2>2, <2>3, <2>4
<1>3. /\ n \in Nat \ {0}
      /\ \A i \in 1 .. n : /\ CutAt(b, i - 1) \in Nat /\ CutAt(b, i) \in Nat
                           /\ CutAt(b, i - 1) < CutAt(b, i) /\ CutAt(b, i) <= b
  <2> HIDE DEF b
  <2> QED BY <1>2, CutsAre
<1>4. ps = [i \in 1 .. n |->
              [seq |-> Plus(c.seq_nr, i - 1), stream_bytes |-> CutAt(b, i) - CutAt(b, i - 1),
               completing |-> Completed(c, CutAt(b, i - 1), CutAt(b, i)), transmissions |-> 1,
               sacked_past |-> 0, offset |-> c.offset + CutAt(b, i - 1)]]
  BY DEF Packets
<1> HIDE DEF ps, n, b
<1>5. ASSUME NEW i \in 1 .. n
      PROVE  ps[i] \in InflightPkt /\ Carried(ps[i], s, c.offset + b)
  <2> DEFINE from == CutAt(b, i - 1)
             to   == CutAt(b, i)
  <2>1. from \in Nat /\ to \in Nat /\ from < to /\ to <= b /\ i \in Int
    BY <1>3
  <2>2. /\ Completed(c, from, to) \in SUBSET (1 .. MaxPayloads)
        /\ Completed(c, from, to) = {k \in DOMAIN s : c.offset + from < SumTo(s, k) /\ SumTo(s, k) <= c.offset + to}
    BY <2>1, CompletedIs
  <2>3. ps[i] = [seq |-> Plus(c.seq_nr, i - 1), stream_bytes |-> to - from,
                 completing |-> Completed(c, from, to), transmissions |-> 1,
                 sacked_past |-> 0, offset |-> c.offset + from]
    BY <1>4
  <2> HIDE DEF from, to
  <2>4. Plus(c.seq_nr, i - 1) \in Uint16
    BY <1>1, <2>1, PlusType
  <2>5. to - from \in Nat \ {0} /\ c.offset + from \in Nat /\ (c.offset + from) + (to - from) = c.offset + to
        /\ c.offset + to <= c.offset + b
    BY <1>1, <1>2, <2>1, SMTT(30)
  <2>6. ps[i] \in InflightPkt
    BY <2>2, <2>3, <2>4, <2>5 DEF InflightPkt
  <2>7. Carried(ps[i], s, c.offset + b)
    BY <2>2, <2>3, <2>5 DEF Carried
  <2> QED BY <2>6, <2>7
<1>6. ps \in Seq(InflightPkt) /\ Len(ps) = n
  <2>1. ps \in [1 .. n -> InflightPkt]
    BY <1>4, <1>5
  <2> QED BY <1>3, <2>1
<1>7. ps # <<>>
  BY <1>3, <1>6
<1> QED BY <1>5, <1>6, <1>7 DEF ps, b

\* A sequence and then another.
LEMMA ConcatAll ==
  ASSUME NEW S, NEW s \in Seq(S), NEW t \in Seq(S), NEW P, \A i \in 1 .. Len(s) : s[i] \in P,
         \A i \in 1 .. Len(t) : t[i] \in P
  PROVE  /\ s \o t \in Seq(S) /\ Len(s \o t) = Len(s) + Len(t)
         /\ \A i \in 1 .. Len(s \o t) : (s \o t)[i] \in P
<1>1. Len(s) \in Nat /\ Len(t) \in Nat /\ s \o t \in Seq(S) /\ Len(s \o t) = Len(s) + Len(t)
      /\ \A i \in 1 .. Len(s) + Len(t) : (s \o t)[i] = IF i <= Len(s) THEN s[i] ELSE t[i - Len(s)]
  BY ConcatProperties
<1> DEFINE r == s \o t
<1> HIDE DEF r
<1>2. ASSUME NEW i \in 1 .. Len(s) + Len(t), r[i] = IF i <= Len(s) THEN s[i] ELSE t[i - Len(s)]
      PROVE  r[i] \in P
  <2>1. CASE i <= Len(s)
    BY <1>1, <1>2, <2>1
  <2>2. CASE ~(i <= Len(s))
    <3>1. i - Len(s) \in 1 .. Len(t)
      BY <1>1, <2>2
    <3> QED BY <1>2, <2>2, <3>1
  <2> QED BY <2>1, <2>2
<1> QED BY <1>1, <1>2 DEF r

\* A packet before an offset is before a later one.
LEMMA CarriedOn ==
  ASSUME NEW p \in InflightPkt, NEW s, NEW m \in Nat, NEW n \in Nat, m <= n, Carried(p, s, m)
  PROVE  Carried(p, s, n)
<1>1. p.offset + p.stream_bytes \in Nat
  BY DEF InflightPkt
<1> QED BY <1>1 DEF Carried

\* packetize carries the stream on, and lets nothing wait with nothing in flight.
LEMMA PacketizeStreams ==
  ASSUME NEW s \in Seq(PayloadSizes), NEW c, Streams(c, s)
  PROVE  /\ Streams(packetize(c), s) /\ Moves(packetize(c))
         /\ c.inflight # <<>> => packetize(c).inflight # <<>>
<1> DEFINE b == Admitted(c)
           d == packetize(c)
           q == c.pending
           n == (b + Mtu - 1) \div Mtu
           done == Len(s) - Len(q)
<1>1. Fits(c) /\ c \in Conn /\ WaitsFrom(c, s, done) /\ \A i \in 1 .. Len(c.inflight) : Carried(c.inflight[i], s, c.offset)
  BY DEF Streams, Fits
<1>2. /\ q \in Seq(Waiting) /\ c.inflight \in Seq(InflightPkt) /\ c.offset \in Nat
      /\ c.seq_nr \in Int /\ c.seq_nr \in Uint16
  BY <1>1, Uint16Int DEF Conn, Waiting
<1>3. b \in 0 .. WaitingUntil(c, Len(q)) /\ WaitingUntil(c, Len(q)) \in Nat
  <2>1. Len(q) \in 0 .. Len(q)
    BY <1>2
  <2> QED BY <1>1, <1>2, <2>1, AdmittedIs, WaitingIs
<1>4. CASE b = 0
  <2>1. d = c
    BY <1>4 DEF packetize
  <2>2. Moves(c)
    BY <1>1, <1>4, AdmittedIs DEF Moves
  <2> QED BY <2>1, <2>2
<1>5. CASE b # 0
  <2>1. d = [c EXCEPT !.pending = Remaining(c, b), !.inflight = @ \o Packets(c),
                      !.seq_nr = Plus(@, n), !.offset = @ + b, !.idle = 0,
                      !.out_frames = @ \cup {[seq |-> Plus(c.seq_nr, i - 1), nth |-> 1] : i \in 1 .. n}]
    BY <1>1, <1>5, PacketizeIs
  <2>2. /\ Packets(c) \in Seq(InflightPkt) /\ Packets(c) # <<>>
        /\ \A i \in 1 .. Len(Packets(c)) : Carried(Packets(c)[i], s, c.offset + b)
    BY <1>1, <1>5, PacketsAre
  <2> DEFINE F == c.out_frames \cup {[seq |-> Plus(c.seq_nr, i - 1), nth |-> 1] : i \in 1 .. n}
             ps == Packets(c)
  <2>3. n \in Int
    <3> HIDE DEF b
    <3>1. b \in Nat \ {0}
      BY <1>3, <1>5
    <3> QED BY <3>1, CutsAre
  <2>4. F \subseteq [seq : Uint16, nth : Nat \ {0}]
    <3>1. \A i \in 1 .. n : Plus(c.seq_nr, i - 1) \in Uint16
      BY <1>2, PlusType
    <3>2. c.out_frames \subseteq [seq : Uint16, nth : Nat \ {0}]
      BY <1>1 DEF Fits
    <3> QED BY <3>1, <3>2
  <2>5. Plus(c.seq_nr, n) \in Uint16
    BY <1>2, <2>3, PlusType
  <2>6. /\ d.pending = Remaining(c, b) /\ d.inflight = c.inflight \o ps /\ d.seq_nr = Plus(c.seq_nr, n)
        /\ d.offset = c.offset + b /\ d.idle = 0 /\ d.out_frames = F /\ d.cwnd = c.cwnd
    BY <1>1, <2>1 DEF Conn
  <2> HIDE DEF n, F, b, d, ps
  <2>7. PICK k : LeavesWaiting(c, d, b, k)
    BY <1>2, <1>3, <2>6, RemainingIs
  <2>8. d.pending \in Seq(Waiting) /\ Remaining(c, b) \in Seq(Waiting)
    BY <2>6, <2>7 DEF LeavesWaiting
  <2>9. c.offset + b \in Nat /\ c.offset <= c.offset + b /\ b \in Nat
    BY <1>2, <1>3
  <2>10. /\ c.inflight \o ps \in Seq(InflightPkt) /\ c.inflight \o ps # <<>>
         /\ \A i \in 1 .. Len(c.inflight \o ps) : Carried((c.inflight \o ps)[i], s, c.offset + b)
    <3> DEFINE P == {p \in InflightPkt : Carried(p, s, c.offset + b)}
    <3>1. \A i \in 1 .. Len(c.inflight) : c.inflight[i] \in InflightPkt
      BY <1>2
    <3>2. \A i \in 1 .. Len(c.inflight) : c.inflight[i] \in P
      BY <1>1, <1>2, <2>9, <3>1, CarriedOn
    <3>3. ps \in Seq(InflightPkt) /\ ps # <<>> /\ \A i \in 1 .. Len(ps) : ps[i] \in InflightPkt
      <4>1. ps \in Seq(InflightPkt) /\ ps # <<>>
        BY <2>2 DEF ps
      <4> QED BY <4>1
    <3>4. \A i \in 1 .. Len(ps) : ps[i] \in P
      BY <2>2, <3>3 DEF ps, b
    <3> HIDE DEF P
    <3>5. /\ c.inflight \o ps \in Seq(InflightPkt) /\ Len(c.inflight \o ps) = Len(c.inflight) + Len(ps)
          /\ \A i \in 1 .. Len(c.inflight \o ps) : (c.inflight \o ps)[i] \in P
      BY <1>2, <3>2, <3>3, <3>4, ConcatAll
    <3>6. Len(c.inflight) \in Nat /\ Len(ps) \in Nat \ {0}
      BY <1>2, <3>3
    <3>7. c.inflight \o ps # <<>>
      BY <3>5, <3>6
    <3> QED BY <3>5, <3>7 DEF P
  <2>11. Fits(d)
    <3>1. /\ F \subseteq [seq : Uint16, nth : Nat] /\ Remaining(c, b) \in Seq(Waiting)
          /\ c.inflight \o ps \in Seq(InflightPkt) /\ c.offset + b \in Nat
      BY <2>4, <2>8, <2>9, <2>10
    <3>2. d = [c EXCEPT !.pending = Remaining(c, b), !.inflight = c.inflight \o ps,
                        !.seq_nr = Plus(c.seq_nr, n), !.offset = c.offset + b, !.idle = 0, !.out_frames = F]
      BY <2>1 DEF d, b, n, F, ps
    <3>3. d \in Conn
      BY <1>1, <2>5, <3>1, <3>2 DEF Conn, Waiting
    <3> QED BY <1>1, <2>4, <2>6, <3>3 DEF Fits
  <2>12. WaitsFrom(d, s, Len(s) - Len(d.pending))
    <3>1. /\ k \in 0 .. Len(q) /\ Len(d.pending) = Len(q) - k /\ WaitingUntil(c, k) <= b
          /\ \A i \in 1 .. Len(d.pending) : /\ d.pending[i].payload = q[k + i].payload
                                            /\ WaitingUntil(d, i) = WaitingUntil(c, k + i) - b
      BY <2>7 DEF LeavesWaiting
    <3>2. /\ done \in Nat /\ done + Len(q) = Len(s) /\ SumTo(s, done) <= c.offset
          /\ (q = <<>> => c.offset = SumTo(s, done))
          /\ \A i \in 1 .. Len(q) : q[i].payload = done + i /\ c.offset + WaitingUntil(c, i) = SumTo(s, done + i)
      BY <1>1 DEF WaitsFrom
    <3>3. Len(q) \in Nat /\ Len(s) \in Nat
      BY <1>2
    <3>4. \A i \in 0 .. Len(q) : WaitingUntil(c, i) \in Nat
      BY <1>2, WaitingIs
    <3> DEFINE last == Len(s) - Len(d.pending)
    <3>5. last = done + k /\ last \in Nat /\ last + Len(d.pending) = Len(s) /\ last \in 0 .. Len(s)
          /\ done \in 0 .. Len(s)
      BY <3>1, <3>2, <3>3
    <3> HIDE DEF last, q, done
    <3>6. SumTo(s, last) \in Nat /\ SumTo(s, done) \in Nat
      BY <3>5, SizesIs
    <3>7. SumTo(s, last) <= d.offset
      <4>1. CASE k = 0
        BY <1>2, <2>6, <2>9, <3>2, <3>5, <3>6, <4>1
      <4>2. CASE k # 0
        <5>1. k \in 1 .. Len(q) /\ k \in 0 .. Len(q)
          BY <3>1, <3>3, <4>2
        <5>2. c.offset + WaitingUntil(c, k) = SumTo(s, last) /\ WaitingUntil(c, k) \in Nat
          BY <3>2, <3>4, <3>5, <5>1
        <5> QED BY <1>2, <2>6, <2>9, <3>1, <5>2
      <4> QED BY <4>1, <4>2
    <3>8. ASSUME d.pending = <<>> PROVE d.offset = SumTo(s, last)
      <4>1. Len(d.pending) = 0 /\ k = Len(q)
        BY <3>1, <3>3, <3>8
      <4>2. Len(q) \in 1 .. Len(q)
        <5>1. q # <<>>
          <6>1. WaitingUntil(c, 0) = 0
            BY <1>2, WaitingIs DEF q
          <6>2. q = <<>> => Len(q) = 0
            BY <1>2
          <6> QED BY <1>3, <1>5, <6>1, <6>2 DEF b, q
        <5> QED BY <1>2, <3>3, <5>1 DEF q
      <4>3. c.offset + WaitingUntil(c, k) = SumTo(s, last) /\ WaitingUntil(c, k) \in Nat
        BY <3>2, <3>4, <3>5, <4>1, <4>2
      <4>4. b = WaitingUntil(c, k)
        BY <1>3, <2>9, <3>1, <4>1, <4>3 DEF q
      <4> QED BY <2>6, <4>3, <4>4
    <3>9. ASSUME NEW i \in 1 .. Len(d.pending)
          PROVE  d.pending[i].payload = last + i /\ d.offset + WaitingUntil(d, i) = SumTo(s, last + i)
      <4>1. k + i \in 1 .. Len(q) /\ k + i \in 0 .. Len(q) /\ done + (k + i) = last + i
        BY <3>1, <3>2, <3>3, <3>5
      <4>2. /\ q[k + i].payload = last + i /\ c.offset + WaitingUntil(c, k + i) = SumTo(s, last + i)
            /\ WaitingUntil(c, k + i) \in Nat
        BY <3>2, <3>4, <4>1
      <4>3. WaitingUntil(d, i) = WaitingUntil(c, k + i) - b
        BY <3>1
      <4> QED BY <1>2, <2>6, <2>9, <3>1, <4>2, <4>3
    <3> QED BY <3>5, <3>7, <3>8, <3>9 DEF WaitsFrom, last
  <2>13. Streams(d, s)
    BY <2>6, <2>10, <2>11, <2>12 DEF Streams
  <2>14. d.inflight # <<>>
    BY <2>6, <2>10
  <2> QED BY <2>13, <2>14 DEF Moves, d
<1> QED BY <1>4, <1>5

-----------------------------------------------------------------------------
(* The other steps of handlers: each keeps what waits, and the part of the   *)
(* stream that each packet has.                                              *)

SamePart(p, r) == p.completing = r.completing /\ p.stream_bytes = r.stream_bytes /\ p.offset = r.offset
\* The packets of d are packets of c.
Among(r, q) == \A i \in 1 .. Len(r) : \E j \in 1 .. Len(q) : SamePart(r[i], q[j])
Kept(c, d) == Fits(d) /\ d.pending = c.pending /\ d.offset = c.offset /\ Among(d.inflight, c.inflight)

LEMMA KeptStreams ==
  ASSUME NEW s \in Seq(PayloadSizes), NEW c, NEW d, Streams(c, s), Kept(c, d)
  PROVE  Streams(d, s)
<1> DEFINE q == c.pending
<1>1. /\ Fits(c) /\ Fits(d) /\ d.pending = q /\ d.offset = c.offset
      /\ WaitsFrom(c, s, Len(s) - Len(q)) /\ \A i \in 1 .. Len(c.inflight) : Carried(c.inflight[i], s, c.offset)
  BY DEF Streams, Kept
<1>2. q \in Seq(Waiting)
  BY <1>1 DEF Fits, Conn, Waiting
<1> HIDE DEF q
<1>3. \A i \in 1 .. Len(q) : WaitingUntil(d, i) = WaitingUntil(c, i)
  <2>1. \A i \in 1 .. Len(q) : i \in 0 .. Len(q)
    BY <1>2
  <2>2. \A i \in 0 .. Len(q) : WaitingUntil(d, i) = SumTo(Left(q), i)
    BY <1>1, <1>2, WaitingIs
  <2>3. \A i \in 0 .. Len(q) : WaitingUntil(c, i) = SumTo(Left(q), i)
    BY <1>2, WaitingIs DEF q
  <2> QED BY <2>1, <2>2, <2>3
<1>4. WaitsFrom(d, s, Len(s) - Len(d.pending))
  BY <1>1, <1>3 DEF WaitsFrom, q
<1>5. ASSUME NEW i \in 1 .. Len(d.inflight) PROVE Carried(d.inflight[i], s, d.offset)
  <2>1. PICK j \in 1 .. Len(c.inflight) : SamePart(d.inflight[i], c.inflight[j])
    BY DEF Kept, Among
  <2>2. Carried(c.inflight[j], s, c.offset)
    BY <1>1
  <2> QED BY <1>1, <2>1, <2>2 DEF Carried, SamePart
<1> QED BY <1>1, <1>4, <1>5 DEF Streams

LEMMA AmongTwice ==
  ASSUME NEW q, NEW r, NEW u, Among(r, q), Among(u, r)
  PROVE  Among(u, q)
<1>1. ASSUME NEW i \in 1 .. Len(u) PROVE \E j \in 1 .. Len(q) : SamePart(u[i], q[j])
  <2>1. PICK k \in 1 .. Len(r) : SamePart(u[i], r[k])
    BY DEF Among
  <2>2. PICK j \in 1 .. Len(q) : SamePart(r[k], q[j])
    BY DEF Among
  <2> QED BY <2>1, <2>2 DEF SamePart
<1> QED BY <1>1 DEF Among

LEMMA KeptTwice ==
  ASSUME NEW c, NEW d, NEW e, Kept(c, d), Kept(d, e)
  PROVE  Kept(c, e)
  BY AmongTwice DEF Kept

LEMMA AmongSame ==
  ASSUME NEW q
  PROVE  Among(q, q)
  BY DEF Among, SamePart

\* A step that changes neither packets nor what waits.
LEMMA KeptSame ==
  ASSUME NEW c, NEW d, Fits(d), d.pending = c.pending, d.offset = c.offset, d.inflight = c.inflight
  PROVE  Kept(c, d)
  BY AmongSame DEF Kept

LEMMA ClampIs ==
  ASSUME NEW w \in Int
  PROVE  clamp_cwnd(w) \in Nat /\ clamp_cwnd(w) >= MinPacket
  BY WindowAssumption, MaxOfTwo DEF clamp_cwnd

\* A cut.
LEMMA CutKeeps ==
  ASSUME NEW c, Fits(c)
  PROVE  Kept(c, cut_window(c)) /\ cut_window(c).inflight = c.inflight
<1> DEFINE d == cut_window(c)
           w == clamp_cwnd(c.cwnd \div 2)
<1>1. c \in Conn /\ c.seq_nr \in Int /\ c.cwnd \in Nat /\ c.ssthres \in Nat /\ c.cuts \in Nat
      /\ c.slow_start \in BOOLEAN
  BY Uint16Int DEF Fits, Conn
<1>2. w \in Nat /\ w >= MinPacket
  BY <1>1, ClampIs
<1>3. Plus(c.seq_nr, -1) \in Uint16
  BY <1>1, PlusType
<1> HIDE DEF w
<1>4. CASE AlreadyCut(c)
  <2>1. d = c
    BY <1>4 DEF cut_window
  <2> QED BY <2>1, KeptSame
<1>5. CASE ~AlreadyCut(c)
  <2> DEFINE u == IF c.slow_start THEN w ELSE c.ssthres
             k == c.cuts + 1
             n == Plus(c.seq_nr, -1)
  <2>1. d = [c EXCEPT !.cwnd = w, !.slow_start = FALSE, !.ssthres = u, !.cut_seq = n, !.cut_valid = TRUE, !.cuts = k]
    BY <1>5 DEF cut_window, w
  <2>2. u \in Nat /\ k \in Nat /\ n \in Uint16
    BY <1>1, <1>2, <1>3
  <2> HIDE DEF u, k, n, d
  <2>3. d \in Conn /\ d.cwnd = w /\ d.out_frames = c.out_frames
        /\ d.pending = c.pending /\ d.offset = c.offset /\ d.inflight = c.inflight
    BY <1>1, <1>2, <2>1, <2>2 DEF Conn
  <2>4. Fits(d)
    BY <1>2, <2>3 DEF Fits
  <2> QED BY <2>3, <2>4, KeptSame DEF d
<1> QED BY <1>4, <1>5

\* A retransmission.
LEMMA RetransmitKeeps ==
  ASSUME NEW c, Fits(c), NEW I \in SUBSET (1 .. Len(c.inflight))
  PROVE  Kept(c, retransmit(c, I)) /\ Len(retransmit(c, I).inflight) = Len(c.inflight)
<1> DEFINE q == c.inflight
           n == Len(q)
           r == [i \in DOMAIN q |-> [q[i] EXCEPT !.transmissions = @ + IF i \in I THEN 1 ELSE 0]]
           F == c.out_frames \cup {[seq |-> q[i].seq, nth |-> q[i].transmissions + 1] : i \in I}
           t == IF I = {} THEN c.idle ELSE 0
           d == retransmit(c, I)
<1>1. c \in Conn /\ q \in Seq(InflightPkt) /\ c.idle \in Nat /\ c.out_frames \subseteq [seq : Uint16, nth : Nat \ {0}]
  BY DEF Fits, Conn
<1>2. n \in Nat /\ DOMAIN q = 1 .. n /\ \A i \in 1 .. n : q[i] \in InflightPkt
  BY <1>1
<1>3. d = [c EXCEPT !.inflight = r, !.idle = t, !.out_frames = F]
  BY DEF retransmit
<1>4. ASSUME NEW i \in 1 .. n
      PROVE  r[i] \in InflightPkt /\ SamePart(r[i], q[i])
  <2> DEFINE k == q[i].transmissions + IF i \in I THEN 1 ELSE 0
  <2>1. q[i] \in InflightPkt /\ k \in Nat \ {0} /\ r[i] = [q[i] EXCEPT !.transmissions = k]
    BY <1>2 DEF InflightPkt
  <2> HIDE DEF k, r
  <2> QED BY <2>1 DEF InflightPkt, SamePart
<1>5. r \in Seq(InflightPkt) /\ Len(r) = n
  <2>1. r \in [1 .. n -> InflightPkt]
    BY <1>2, <1>4
  <2> HIDE DEF r
  <2> QED BY <1>2, <2>1
<1>6. F \subseteq [seq : Uint16, nth : Nat \ {0}]
  <2>1. \A i \in I : q[i] \in InflightPkt
    BY <1>2
  <2>2. \A i \in I : q[i].seq \in Uint16 /\ q[i].transmissions + 1 \in Nat \ {0}
    BY <2>1 DEF InflightPkt
  <2> QED BY <1>1, <2>2
<1>7. t \in Nat /\ F \subseteq [seq : Uint16, nth : Nat]
  BY <1>1, <1>6
<1> HIDE DEF r, F, t, d
<1>8. d \in Conn /\ d.cwnd = c.cwnd /\ d.out_frames = F
      /\ d.pending = c.pending /\ d.offset = c.offset /\ d.inflight = r
  BY <1>1, <1>3, <1>5, <1>7 DEF Conn
<1>9. Fits(d)
  BY <1>6, <1>8 DEF Fits
<1>10. Among(r, q)
  BY <1>4, <1>5 DEF Among
<1> QED BY <1>5, <1>8, <1>9, <1>10 DEF Kept, d

\* LEDBAT.
LEMMA LedbatKeeps ==
  ASSUME NEW c, Fits(c), NEW acked \in Int, NEW before \in Nat \ {0}, NEW delay \in Nat
  PROVE  Kept(c, ledbat_update(c, acked, before, delay))
<1> DEFINE d == ledbat_update(c, acked, before, delay)
<1>1. c \in Conn /\ c.cwnd \in Nat /\ c.ssthres \in Nat /\ c.slow_start \in BOOLEAN
  BY DEF Fits, Conn
<1>2. CASE c.slow_start /\ delay < TargetDelay
  <2> DEFINE w == clamp_cwnd(c.cwnd + acked)
             b == c.ssthres = 0 \/ c.cwnd + acked <= c.ssthres
  <2>1. d = [c EXCEPT !.cwnd = w, !.slow_start = b]
    BY <1>2 DEF ledbat_update, SlowStart
  <2>2. w \in Nat /\ w >= MinPacket /\ b \in BOOLEAN
    BY <1>1, ClampIs
  <2> HIDE DEF w, b, d
  <2>3. d \in Conn /\ d.cwnd = w /\ d.out_frames = c.out_frames
        /\ d.pending = c.pending /\ d.offset = c.offset /\ d.inflight = c.inflight
    BY <1>1, <2>1, <2>2 DEF Conn
  <2>4. Fits(d)
    BY <2>2, <2>3 DEF Fits
  <2> QED BY <2>3, <2>4, KeptSame DEF d
<1>3. CASE ~(c.slow_start /\ delay < TargetDelay)
  <2> DEFINE x == Gain * (TargetDelay - delay) * acked
             y == TargetDelay * before
             w == clamp_cwnd(c.cwnd + x \div y)
             u == IF c.slow_start THEN c.cwnd \div 2 ELSE c.ssthres
  <2>1. d = [c EXCEPT !.cwnd = w, !.slow_start = FALSE, !.ssthres = u]
    BY <1>3 DEF ledbat_update
  <2>2. Gain \in Int /\ TargetDelay \in Nat \ {0}
    BY WindowAssumption
  <2>3. x \in Int /\ y \in Nat \ {0} /\ u \in Nat
    BY <1>1, <2>2
  <2> HIDE DEF x, y, u
  <2>4. x \div y \in Int
    BY <2>3
  <2>5. w \in Nat /\ w >= MinPacket
    BY <1>1, <2>4, ClampIs
  <2> HIDE DEF w, d
  <2>6. d \in Conn /\ d.cwnd = w /\ d.out_frames = c.out_frames
        /\ d.pending = c.pending /\ d.offset = c.offset /\ d.inflight = c.inflight
    BY <1>1, <2>1, <2>3, <2>5 DEF Conn
  <2>7. Fits(d)
    BY <2>5, <2>6 DEF Fits
  <2> QED BY <2>6, <2>7, KeptSame DEF d
<1> QED BY <1>2, <1>3

\* Each element of a subsequence is one of the sequence.
LEMMA SubsequenceFrom ==
  ASSUME NEW S, NEW s \in Seq(S), NEW I \in SUBSET (1 .. Len(s))
  PROVE  /\ Subsequence(s, I) \in Seq(S)
         /\ \A k \in 1 .. Len(Subsequence(s, I)) : \E j \in 1 .. Len(s) : Subsequence(s, I)[k] = s[j]
<1> DEFINE pick(k) == CHOOSE j \in I : Cardinality({i \in I : i < j}) = k - 1
           n == Cardinality(I)
<1>1. Len(s) \in Nat /\ \A i \in 1 .. Len(s) : s[i] \in S
  BY ElementOfSeq
<1>2. I \subseteq Nat /\ IsFiniteSet(I)
  <2>1. IsFiniteSet(1 .. Len(s))
    BY <1>1, FS_Interval
  <2>2. IsFiniteSet(I)
    BY <2>1, FS_Subset
  <2>3. \A i \in 1 .. Len(s) : i \in Nat
    BY <1>1
  <2> QED BY <2>2, <2>3
<1>3. n \in Nat
  BY <1>2, FS_CardinalityType
<1>4. ASSUME NEW k \in 1 .. n PROVE pick(k) \in 1 .. Len(s)
  <2>1. k - 1 \in Nat /\ k - 1 < n
    BY <1>3
  <2>2. \E j \in I : Cardinality({i \in I : i < j}) = k - 1
    BY <1>2, <2>1, NthElement
  <2>3. pick(k) \in I
    BY <2>2
  <2> QED BY <2>3
<1>5. Subsequence(s, I) = [k \in 1 .. n |-> s[pick(k)]]
  BY DEF Subsequence
<1> HIDE DEF pick, n
<1> DEFINE r == [k \in 1 .. n |-> s[pick(k)]]
<1>6. r \in [1 .. n -> S]
  BY <1>1, <1>4
<1>7. r \in Seq(S) /\ Len(r) = n
  <2> HIDE DEF r
  <2> QED BY <1>3, <1>6
<1>8. \A k \in 1 .. n : r[k] = s[pick(k)]
  OBVIOUS
<1> QED BY <1>4, <1>5, <1>7, <1>8

\* Other packets of a connection, among those it had.
LEMMA OtherPackets ==
  ASSUME NEW c, Fits(c), NEW r \in Seq(InflightPkt), Among(r, c.inflight), NEW d,
         d = [c EXCEPT !.inflight = r]
  PROVE  Kept(c, d) /\ d.inflight = r
<1>1. c \in Conn
  BY DEF Fits
<1>2. d \in Conn /\ d.cwnd = c.cwnd /\ d.out_frames = c.out_frames
      /\ d.pending = c.pending /\ d.offset = c.offset /\ d.inflight = r
  BY <1>1 DEF Conn
<1> QED BY <1>2 DEF Kept, Fits

AckFrame == [ack_nr : Uint16, sack : SUBSET Uint16]

\* The cumulative acknowledgement.
LEMMA DropAckedKeeps ==
  ASSUME NEW c, Fits(c), NEW pkt \in AckFrame
  PROVE  Kept(c, DropAcked(c, pkt))
<1> DEFINE q == c.inflight
           covered == {i \in DOMAIN q : \A j \in 1 .. i : seq_diff(q[j].seq, pkt.ack_nr) <= 0}
           k == Cardinality(covered)
           r == SubSeq(q, k + 1, Len(q))
<1>1. c \in Conn /\ q \in Seq(InflightPkt)
  BY DEF Fits, Conn
<1>2. Len(q) \in Nat /\ DOMAIN q = 1 .. Len(q)
  BY <1>1
<1>3. k \in 0 .. Len(q)
  <2>1. covered \in SUBSET (1 .. Len(q))
    BY <1>2
  <2> HIDE DEF covered
  <2>2. IsFiniteSet(1 .. Len(q)) /\ Cardinality(1 .. Len(q)) = Len(q)
    BY <1>2, FS_Interval
  <2>3. IsFiniteSet(covered) /\ Cardinality(covered) <= Len(q)
    BY <2>1, <2>2, FS_Subset
  <2> QED BY <1>2, <2>3, FS_CardinalityType
<1>4. DropAcked(c, pkt) = [c EXCEPT !.inflight = r]
  BY DEF DropAcked
<1> HIDE DEF k
<1>5. r \in Seq(InflightPkt) /\ Among(r, q)
  <2>1. k + 1 \in 1 .. Len(q) + 1 /\ Len(q) \in (k + 1) - 1 .. Len(q)
    BY <1>2, <1>3
  <2>2. /\ r \in Seq(InflightPkt)
        /\ Len(r) = IF k + 1 <= Len(q) THEN Len(q) - (k + 1) + 1 ELSE 0
        /\ \A i \in 1 .. Len(q) - (k + 1) + 1 : r[i] = q[(k + 1) + i - 1]
    BY <1>1, <2>1, SubSeqProperties, SMTT(30)
  <2> HIDE DEF r, q
  <2>3. ASSUME NEW i \in 1 .. Len(r) PROVE \E j \in 1 .. Len(q) : SamePart(r[i], q[j])
    <3> DEFINE j == (k + 1) + i - 1
           n == Len(q)
    <3>1. /\ n \in Nat /\ k \in Nat /\ i \in 1 .. Len(r)
          /\ Len(r) = IF k + 1 <= n THEN n - (k + 1) + 1 ELSE 0
          /\ \A l \in 1 .. n - (k + 1) + 1 : r[l] = q[(k + 1) + l - 1]
      <4>1. n \in Nat /\ k \in Nat
        BY <1>2, <1>3
      <4>2. i \in 1 .. Len(r)
        OBVIOUS
      <4>3. Len(r) = IF k + 1 <= n THEN n - (k + 1) + 1 ELSE 0
        BY <2>2
      <4>4. \A l \in 1 .. n - (k + 1) + 1 : r[l] = q[(k + 1) + l - 1]
        BY <2>2
      <4> QED BY <4>1, <4>2, <4>3, <4>4
    <3> HIDE DEF n
    <3>2. k + 1 <= n
      BY <3>1
    <3>3. i \in 1 .. n - (k + 1) + 1
      BY <3>1, <3>2
    <3>4. r[i] = q[j] /\ j \in 1 .. n
      BY <3>1, <3>3
    <3> HIDE DEF j
    <3> QED BY <3>4 DEF SamePart, n
  <2> QED BY <2>2, <2>3 DEF Among
<1> HIDE DEF r
<1> QED BY <1>4, <1>5, OtherPackets

\* The selective acknowledgement leaves packets of those in flight.
LEMMA HolesKept ==
  ASSUME NEW c, Fits(c), NEW pkt \in AckFrame
  PROVE  Holes(c, pkt) \in Seq(InflightPkt) /\ Among(Holes(c, pkt), c.inflight)
<1> DEFINE q == c.inflight
           sacked == {i \in DOMAIN q : q[i].seq \in pkt.sack}
           Past(i) == Cardinality({j \in sacked : i < j})
           Counted == [i \in DOMAIN q |-> [q[i] EXCEPT !.sacked_past = @ + Past(i)]]
           I == DOMAIN q \ sacked
<1>1. q \in Seq(InflightPkt)
  BY DEF Fits, Conn
<1>2. Len(q) \in Nat /\ DOMAIN q = 1 .. Len(q) /\ \A i \in 1 .. Len(q) : q[i] \in InflightPkt
  BY <1>1
<1>3. \A i \in 1 .. Len(q) : Past(i) \in Nat
  <2>1. IsFiniteSet(1 .. Len(q))
    BY <1>2, FS_Interval
  <2>2. \A i : {j \in sacked : i < j} \subseteq 1 .. Len(q)
    BY <1>2
  <2>3. \A i : IsFiniteSet({j \in sacked : i < j})
    BY <2>1, <2>2, FS_Subset
  <2> QED BY <2>3, FS_CardinalityType
<1>4. Holes(c, pkt) = Subsequence(Counted, I)
  BY DEF Holes
<1>5. I \in SUBSET (1 .. Len(q))
  BY <1>2
<1> HIDE DEF Past, I
<1>6. ASSUME NEW i \in 1 .. Len(q)
      PROVE  Counted[i] \in InflightPkt /\ SamePart(Counted[i], q[i])
  <2> DEFINE k == q[i].sacked_past + Past(i)
  <2>1. q[i] \in InflightPkt /\ k \in Nat /\ Counted[i] = [q[i] EXCEPT !.sacked_past = k]
    BY <1>2, <1>3 DEF InflightPkt
  <2> HIDE DEF k, Counted
  <2> QED BY <2>1 DEF InflightPkt, SamePart
<1>7. Counted \in Seq(InflightPkt) /\ Len(Counted) = Len(q)
  <2>1. Counted \in [1 .. Len(q) -> InflightPkt]
    BY <1>2, <1>6
  <2> HIDE DEF Counted
  <2> QED BY <1>2, <2>1
<1> HIDE DEF Counted
<1> DEFINE r == Subsequence(Counted, I)
<1>8. r \in Seq(InflightPkt) /\ \A k \in 1 .. Len(r) : \E j \in 1 .. Len(q) : r[k] = Counted[j]
  BY <1>5, <1>7, SubsequenceFrom
<1> HIDE DEF r
<1>9. Among(r, q)
  BY <1>6, <1>8 DEF Among, SamePart
<1> QED BY <1>4, <1>8, <1>9 DEF r

\* The packets taken for lost are sent again after a cut.
LEMMA ResendLostKeeps ==
  ASSUME NEW c, Fits(c)
  PROVE  Kept(c, ResendLost(c))
<1> DEFINE q == c.inflight
           lost == {i \in DOMAIN q : q[i].sacked_past >= DupAckThreshold}
           Recounted == [i \in DOMAIN q |-> [q[i] EXCEPT !.sacked_past = IF i \in lost THEN 0 ELSE @]]
           d == cut_window(c)
           e == [d EXCEPT !.inflight = Recounted]
<1>1. q \in Seq(InflightPkt)
  BY DEF Fits, Conn
<1>2. Len(q) \in Nat /\ DOMAIN q = 1 .. Len(q) /\ \A i \in 1 .. Len(q) : q[i] \in InflightPkt
  BY <1>1
<1>3. ResendLost(c) = IF lost = {} THEN c ELSE retransmit(e, lost)
  BY DEF ResendLost
<1>4. lost \in SUBSET (1 .. Len(q))
  BY <1>2
<1> HIDE DEF lost
<1>5. Kept(c, d) /\ d.inflight = q
  BY CutKeeps
<1> HIDE DEF d
<1>6. ASSUME NEW i \in 1 .. Len(q)
      PROVE  Recounted[i] \in InflightPkt /\ SamePart(Recounted[i], q[i])
  <2> DEFINE k == IF i \in lost THEN 0 ELSE q[i].sacked_past
  <2>1. q[i] \in InflightPkt /\ k \in Nat /\ Recounted[i] = [q[i] EXCEPT !.sacked_past = k]
    BY <1>2 DEF InflightPkt
  <2> HIDE DEF k, Recounted
  <2> QED BY <2>1 DEF InflightPkt, SamePart
<1>7. Recounted \in Seq(InflightPkt) /\ Len(Recounted) = Len(q)
  <2>1. Recounted \in [1 .. Len(q) -> InflightPkt]
    BY <1>2, <1>6
  <2> HIDE DEF Recounted
  <2> QED BY <1>2, <2>1
<1>8. Among(Recounted, q)
  <2> HIDE DEF Recounted
  <2> QED BY <1>6, <1>7 DEF Among
<1> HIDE DEF Recounted, q
<1>9. Fits(d) /\ Among(Recounted, d.inflight)
  BY <1>5, <1>8 DEF Kept
<1>10. Kept(d, e) /\ e.inflight = Recounted
  BY <1>7, <1>9, OtherPackets
<1> HIDE DEF e
<1>11. Fits(e) /\ lost \in SUBSET (1 .. Len(e.inflight))
  BY <1>4, <1>7, <1>10 DEF Kept
<1>12. Kept(e, retransmit(e, lost))
  BY <1>11, RetransmitKeeps
<1>13. Kept(c, retransmit(e, lost))
  <2>1. Kept(c, e)
    BY <1>5, <1>10, KeptTwice
  <2> QED BY <1>12, <2>1, KeptTwice
<1>14. Kept(c, c)
  BY KeptSame
<1> QED BY <1>3, <1>13, <1>14

\* What is left of the packets after an acknowledgement.
LEMMA SackKeeps ==
  ASSUME NEW c, Fits(c), NEW pkt \in AckFrame
  PROVE  Kept(c, apply_sack(c, pkt))
<1> DEFINE d == [c EXCEPT !.inflight = Holes(c, pkt)]
<1>1. CASE pkt.sack = {} \/ c.inflight = <<>>
  BY <1>1, KeptSame DEF apply_sack
<1>2. CASE ~(pkt.sack = {} \/ c.inflight = <<>>)
  <2>1. apply_sack(c, pkt) = ResendLost(d)
    BY <1>2 DEF apply_sack
  <2>2. Kept(c, d)
    BY HolesKept, OtherPackets
  <2> HIDE DEF d
  <2>3. Kept(d, ResendLost(d))
    BY <2>2, ResendLostKeeps DEF Kept
  <2> QED BY <2>1, <2>2, <2>3, KeptTwice
<1> QED BY <1>1, <1>2

LEMMA AckLeaves ==
  ASSUME NEW c, Fits(c), NEW pkt \in AckFrame
  PROVE  Kept(c, apply_sack(DropAcked(c, pkt), pkt))
<1> DEFINE d == DropAcked(c, pkt)
<1>1. Kept(c, d)
  BY DropAckedKeeps
<1> HIDE DEF d
<1>2. Kept(d, apply_sack(d, pkt))
  BY <1>1, SackKeeps DEF Kept
<1> QED BY <1>1, <1>2, KeptTwice DEF d

\* A sequence that is not empty has a first element.
LEMMA FirstIndex ==
  ASSUME NEW S, NEW s \in Seq(S)
  PROVE  Len(s) \in Nat /\ (s # <<>> <=> 1 \in 1 .. Len(s)) /\ (s # <<>> <=> Len(s) # 0)
  OBVIOUS

\* A change to fields that say nothing of the window, the packets and the stream.
LEMMA OtherFields ==
  ASSUME NEW c, Fits(c), NEW idle \in Nat, NEW timeout \in Nat, NEW dups \in Nat, NEW ack \in Uint16
  PROVE  /\ Kept(c, [c EXCEPT !.idle = idle])
         /\ Kept(c, [c EXCEPT !.dup_acks = dups])
         /\ Kept(c, [c EXCEPT !.dup_acks = dups, !.timeout = timeout])
         /\ Kept(c, [c EXCEPT !.last_ack_seen = ack])
         /\ Kept(c, [c EXCEPT !.out_frames = {}])
         /\ Kept(c, [c EXCEPT !.timeout = timeout, !.cwnd = MinPacket])
<1>1. c \in Conn /\ c.cwnd >= MinPacket /\ c.out_frames \subseteq [seq : Uint16, nth : Nat \ {0}]
  BY DEF Fits
<1>2. MinPacket \in Nat
  BY WindowAssumption
<1> DEFINE Same(d) == d.pending = c.pending /\ d.offset = c.offset /\ d.inflight = c.inflight
<1>3. \A d : Fits(d) /\ Same(d) => Kept(c, d)
  BY KeptSame
<1>4. Fits([c EXCEPT !.idle = idle]) /\ Same([c EXCEPT !.idle = idle])
  BY <1>1 DEF Fits, Conn
<1>5. Fits([c EXCEPT !.dup_acks = dups]) /\ Same([c EXCEPT !.dup_acks = dups])
  BY <1>1 DEF Fits, Conn
<1>6. /\ Fits([c EXCEPT !.dup_acks = dups, !.timeout = timeout])
      /\ Same([c EXCEPT !.dup_acks = dups, !.timeout = timeout])
  BY <1>1 DEF Fits, Conn
<1>7. Fits([c EXCEPT !.last_ack_seen = ack]) /\ Same([c EXCEPT !.last_ack_seen = ack])
  BY <1>1 DEF Fits, Conn
<1>8. Fits([c EXCEPT !.out_frames = {}]) /\ Same([c EXCEPT !.out_frames = {}])
  BY <1>1 DEF Fits, Conn
<1>9. /\ Fits([c EXCEPT !.timeout = timeout, !.cwnd = MinPacket])
      /\ Same([c EXCEPT !.timeout = timeout, !.cwnd = MinPacket])
  <2> DEFINE d == [c EXCEPT !.timeout = timeout, !.cwnd = MinPacket]
  <2>1. d \in Conn /\ d.cwnd = MinPacket /\ d.out_frames = c.out_frames /\ Same(d)
    BY <1>1, <1>2 DEF Conn
  <2> HIDE DEF d, Same
  <2>2. Fits(d)
    BY <1>1, <1>2, <2>1 DEF Fits
  <2> QED BY <2>1, <2>2 DEF d
<1> HIDE DEF Same
<1> QED BY <1>3, <1>4, <1>5, <1>6, <1>7, <1>8, <1>9

\* Repeated acknowledgements leave something in flight.
LEMMA NoProgressKeeps ==
  ASSUME NEW c, Fits(c), NEW pkt \in AckFrame
  PROVE  Kept(c, NoProgress(c, pkt)) /\ (c.inflight # <<>> => NoProgress(c, pkt).inflight # <<>>)
<1>1. c \in Conn /\ c.inflight \in Seq(InflightPkt) /\ c.dup_acks + 1 \in Nat
  BY DEF Fits, Conn
<1> DEFINE d == [c EXCEPT !.dup_acks = 0]
           u == [c EXCEPT !.dup_acks = c.dup_acks + 1]
           e == cut_window(d)
<1>2. Kept(c, d) /\ Kept(c, u) /\ u.inflight = c.inflight /\ d.inflight = c.inflight
  <2>1. c.idle \in Nat /\ c.timeout \in Nat /\ c.last_ack_seen \in Uint16 /\ 0 \in Nat
    BY <1>1 DEF Conn
  <2>2. Kept(c, d)
    BY <2>1, OtherFields
  <2>3. Kept(c, u)
    BY <1>1, <2>1, OtherFields
  <2>4. u.inflight = c.inflight /\ d.inflight = c.inflight
    BY <1>1 DEF Conn
  <2> QED BY <2>2, <2>3, <2>4
<1>3. NoProgress(c, pkt) = IF pkt.ack_nr = c.last_ack_seen /\ c.inflight # <<>> THEN Repeated(c) ELSE d
  BY DEF NoProgress
<1>4. Repeated(c) = IF c.dup_acks + 1 < DupAckThreshold THEN u ELSE retransmit(e, {1})
  BY DEF Repeated
<1> HIDE DEF d, u
<1>5. Kept(d, e) /\ e.inflight = d.inflight
  BY <1>2, CutKeeps DEF Kept
<1> HIDE DEF e
<1>6. ASSUME c.inflight # <<>>
      PROVE  Kept(c, retransmit(e, {1})) /\ retransmit(e, {1}).inflight # <<>>
  <2>1. Fits(e) /\ e.inflight = c.inflight /\ {1} \in SUBSET (1 .. Len(e.inflight))
    BY <1>1, <1>2, <1>5, <1>6, FirstIndex DEF Kept
  <2> DEFINE r == retransmit(e, {1})
  <2>2. Kept(e, r) /\ Len(r.inflight) = Len(e.inflight)
    BY <2>1, RetransmitKeeps
  <2> HIDE DEF r
  <2>3. Kept(c, r)
    <3>1. Kept(c, e)
      BY <1>2, <1>5, KeptTwice
    <3> QED BY <2>2, <3>1, KeptTwice
  <2>4. Len(r.inflight) # 0
    BY <1>1, <1>6, <2>1, <2>2, FirstIndex
  <2>5. r.inflight # <<>>
    BY <2>4
  <2> QED BY <2>3, <2>5 DEF r
<1> QED BY <1>2, <1>3, <1>4, <1>6

\* Acknowledged packets move the window, and keep the rest.
LEMMA ProgressKeeps ==
  ASSUME NEW c, Fits(c), NEW left, Kept(c, left), c.inflight # <<>>,
         NEW delay \in Delays, NEW rto \in RttTimeouts
  PROVE  Kept(c, Progress(c, left, delay, rto))
<1> DEFINE d == [left EXCEPT !.dup_acks = 0, !.timeout = rto]
           before == bytes_in_flight(c)
           acked == bytes_in_flight(c) - bytes_in_flight(left)
<1>1. /\ c.inflight \in Seq(InflightPkt) /\ left.inflight \in Seq(InflightPkt) /\ Fits(left)
      /\ left.idle \in Nat /\ left.last_ack_seen \in Uint16
  BY DEF Fits, Conn, Kept
<1>2. before \in Nat \ {0} /\ acked \in Int
  BY <1>1, InFlightIs
<1>3. delay \in Nat /\ rto \in Nat
  BY WindowAssumption
<1>4. Kept(left, d)
  BY <1>1, <1>3, OtherFields
<1>5. Progress(c, left, delay, rto) = ledbat_update(d, acked, before, delay)
  BY DEF Progress
<1> HIDE DEF d, before, acked
<1>6. Kept(d, ledbat_update(d, acked, before, delay))
  BY <1>2, <1>3, <1>4, LedbatKeeps DEF Kept
<1>7. Kept(c, d)
  BY <1>4, KeptTwice
<1> QED BY <1>5, <1>6, <1>7, KeptTwice

\* A payload more.
LEMMA AppendStreams ==
  ASSUME NEW s \in Seq(PayloadSizes), Len(s) < MaxPayloads, NEW size \in PayloadSizes,
         NEW c, Streams(c, s), NEW d,
         d = [c EXCEPT !.pending = Append(@, [payload |-> Len(Append(s, size)), remaining |-> size])]
  PROVE  Streams(d, Append(s, size)) /\ Append(s, size) \in Seq(PayloadSizes)
<1> DEFINE q == c.pending
           n == Len(s)
           s2 == Append(s, size)
           e == [payload |-> n + 1, remaining |-> size]
           q2 == Append(q, e)
           done == n - Len(q)
<1>1. /\ Fits(c) /\ c \in Conn /\ WaitsFrom(c, s, done)
      /\ \A i \in 1 .. Len(c.inflight) : Carried(c.inflight[i], s, c.offset)
  BY DEF Streams, Fits
<1>2. /\ q \in Seq(Waiting) /\ c.inflight \in Seq(InflightPkt) /\ c.offset \in Nat
      /\ Len(q) \in Nat /\ n \in Nat /\ DOMAIN s = 1 .. n
  BY <1>1 DEF Conn, Waiting
<1>3. size \in Nat \ {0} /\ MaxPayloads \in Nat
  BY WindowAssumption
<1>4. e \in Waiting
  BY <1>2, <1>3 DEF Waiting
<1>5. /\ s2 \in Seq(PayloadSizes) /\ Len(s2) = n + 1 /\ DOMAIN s2 = 1 .. n + 1 /\ s2[n + 1] = size
      /\ \A i \in 1 .. n : s2[i] = s[i]
  OBVIOUS
<1>6. /\ q2 \in Seq(Waiting) /\ Len(q2) = Len(q) + 1 /\ q2[Len(q) + 1] = e /\ q2 # <<>>
      /\ \A i \in 1 .. Len(q) : q2[i] = q[i]
  <2> HIDE DEF e, q
  <2>1. /\ q2 \in Seq(Waiting) /\ Len(q2) = Len(q) + 1 /\ q2[Len(q) + 1] = e
        /\ \A i \in 1 .. Len(q) : q2[i] = q[i]
    BY <1>2, <1>4
  <2>2. Len(q) + 1 # 0
    BY <1>2
  <2> HIDE DEF q2
  <2>3. q2 # <<>>
    BY <2>1, <2>2
  <2> QED BY <2>1, <2>3
<1>7. d = [c EXCEPT !.pending = q2]
  BY <1>5
<1> HIDE DEF q2, s2, n
<1>8. /\ d \in Conn /\ d.cwnd = c.cwnd /\ d.out_frames = c.out_frames
      /\ d.pending = q2 /\ d.offset = c.offset /\ d.inflight = c.inflight
  BY <1>1, <1>6, <1>7 DEF Conn, Waiting
<1>9. Fits(d)
  BY <1>1, <1>8 DEF Fits
<1> HIDE DEF e
<1>10. \A m \in 0 .. n : SumTo(s2, m) = SumTo(s, m) /\ SumTo(s, m) \in Nat
  <2>1. ASSUME NEW m \in 0 .. n PROVE SumTo(s2, m) = SumTo(s, m)
    <3>1. m \in Nat /\ SameTo(s2, s, m)
      BY <1>2, <1>5 DEF SameTo
    <3> QED BY <3>1, SumSame
  <2>2. \A m \in 0 .. n : SumTo(s, m) \in Nat
    BY SizesIs DEF n
  <2> QED BY <2>1, <2>2
<1>11. SumTo(s2, n + 1) = SumTo(s, n) + size
  <2>1. SumTo(s2, n + 1) = SumTo(s2, n) + s2[n + 1] /\ n \in 0 .. n
    BY <1>2, SumNext
  <2> QED BY <1>5, <1>10, <2>1
<1>12. /\ done \in Nat /\ done + Len(q) = n /\ SumTo(s, done) <= c.offset
       /\ (q = <<>> => c.offset = SumTo(s, done))
       /\ \A i \in 1 .. Len(q) : q[i].payload = done + i /\ c.offset + WaitingUntil(c, i) = SumTo(s, done + i)
  BY <1>1 DEF WaitsFrom, n
<1>13. \A i \in 0 .. Len(q) : WaitingUntil(d, i) = WaitingUntil(c, i) /\ WaitingUntil(c, i) \in Nat
  <2>1. ASSUME NEW i \in 0 .. Len(q) PROVE WaitingUntil(d, i) = WaitingUntil(c, i) /\ WaitingUntil(c, i) \in Nat
    <3>1. i \in Nat /\ i \in 0 .. Len(q2) /\ SameTo(Left(q2), Left(q), i)
      BY <1>2, <1>6 DEF SameTo, Left
    <3>2. SumTo(Left(q2), i) = SumTo(Left(q), i)
      BY <3>1, SumSame
    <3>3. WaitingUntil(d, i) = SumTo(Left(q2), i)
      BY <1>6, <1>8, <3>1, WaitingIs
    <3>4. WaitingUntil(c, i) = SumTo(Left(q), i) /\ WaitingUntil(c, i) \in Nat
      BY <1>2, WaitingIs
    <3> QED BY <3>2, <3>3, <3>4
  <2> QED BY <2>1
<1>14. WaitingUntil(d, Len(q) + 1) = WaitingUntil(c, Len(q)) + size
  <2>1. Len(q) + 1 \in 1 .. Len(q2) /\ (Len(q) + 1) - 1 = Len(q) /\ Len(q) \in 0 .. Len(q)
    BY <1>2, <1>6
  <2>2. WaitingUntil(d, Len(q) + 1) = WaitingUntil(d, (Len(q) + 1) - 1) + q2[Len(q) + 1].remaining
    BY <1>6, <1>8, <2>1, WaitingIs
  <2>3. q2[Len(q) + 1].remaining = size
    BY <1>6 DEF e
  <2> QED BY <1>13, <2>1, <2>2, <2>3
<1>15. c.offset + WaitingUntil(c, Len(q)) = SumTo(s, n)
  <2>1. CASE q = <<>>
    <3>1. Len(q) = 0 /\ WaitingUntil(c, 0) = 0
      BY <1>2, <2>1, WaitingIs
    <3> QED BY <1>2, <1>12, <2>1, <3>1
  <2>2. CASE q # <<>>
    <3>1. Len(q) \in 1 .. Len(q)
      BY <1>2, <2>2
    <3> QED BY <1>12, <3>1
  <2> QED BY <2>1, <2>2
<1> HIDE DEF done, q
<1>16. WaitsFrom(d, s2, Len(s2) - Len(d.pending))
  <2>1. Len(s2) - Len(d.pending) = done /\ done + Len(d.pending) = Len(s2) /\ done \in 0 .. n
    <3>1. Len(d.pending) = Len(q) + 1 /\ Len(s2) = n + 1
      BY <1>5, <1>6, <1>8
    <3>2. done \in Nat /\ done + Len(q) = n /\ Len(q) \in Nat /\ n \in Nat
      BY <1>2, <1>12
    <3>3. (n + 1) - (Len(q) + 1) = done /\ done + (Len(q) + 1) = n + 1 /\ done \in 0 .. n
      BY <3>2
    <3> QED BY <3>1, <3>3
  <2>2. SumTo(s2, done) <= d.offset
    BY <1>8, <1>10, <1>12, <2>1
  <2>3. ASSUME NEW i \in 1 .. Len(q) + 1
        PROVE  q2[i].payload = done + i /\ c.offset + WaitingUntil(d, i) = SumTo(s2, done + i)
    <3>1. CASE i <= Len(q)
      <4>1. i \in 1 .. Len(q) /\ i \in 0 .. Len(q) /\ done + i \in 0 .. n
        BY <1>2, <1>12, <3>1
      <4> QED BY <1>6, <1>10, <1>12, <1>13, <4>1
    <3>2. CASE i = Len(q) + 1
      <4>1. done + i = n + 1 /\ Len(q) \in 0 .. Len(q) /\ n \in 0 .. n
        BY <1>2, <1>12, <3>2
      <4>2. q2[i].payload = n + 1
        BY <1>6, <3>2 DEF e
      <4>3. WaitingUntil(c, Len(q)) \in Nat
        BY <1>13, <4>1
      <4>4. c.offset + WaitingUntil(d, i) = SumTo(s2, n + 1)
        BY <1>2, <1>3, <1>11, <1>14, <1>15, <3>2, <4>3
      <4> QED BY <4>1, <4>2, <4>4
    <3> QED BY <1>2, <3>1, <3>2
  <2> QED BY <1>6, <1>8, <1>12, <2>1, <2>2, <2>3 DEF WaitsFrom
<1>17. ASSUME NEW i \in 1 .. Len(d.inflight) PROVE Carried(d.inflight[i], s2, d.offset)
  <2> DEFINE p == d.inflight[i]
  <2>1. p \in InflightPkt /\ Carried(p, s, c.offset)
    BY <1>1, <1>2, <1>8
  <2> HIDE DEF p
  <2>2. p.offset + p.stream_bytes \in Nat /\ p.offset + p.stream_bytes <= c.offset
    BY <2>1 DEF InflightPkt, Carried
  <2>3. ~(SumTo(s2, n + 1) <= p.offset + p.stream_bytes)
    <3>1. WaitingUntil(c, Len(q)) \in Nat /\ SumTo(s, n) \in Nat
      <4>1. Len(q) \in 0 .. Len(q) /\ n \in 0 .. n
        BY <1>2
      <4> QED BY <1>10, <1>13, <4>1
    <3> QED BY <1>2, <1>3, <1>11, <1>15, <2>2, <3>1, SMTT(30)
  <2>4. {k \in DOMAIN s2 : p.offset < SumTo(s2, k) /\ SumTo(s2, k) <= p.offset + p.stream_bytes}
          = {k \in DOMAIN s : p.offset < SumTo(s, k) /\ SumTo(s, k) <= p.offset + p.stream_bytes}
    <3>1. \A k \in 1 .. n : k \in 0 .. n /\ k \in 1 .. n + 1
      BY <1>2
    <3>2. \A k \in 1 .. n + 1 : k \in 1 .. n \/ k = n + 1
      BY <1>2
    <3> QED BY <1>2, <1>5, <1>10, <2>3, <3>1, <3>2
  <2>5. p.completing = {k \in DOMAIN s : p.offset < SumTo(s, k) /\ SumTo(s, k) <= p.offset + p.stream_bytes}
    BY <2>1 DEF Carried
  <2>6. Carried(p, s2, c.offset)
    BY <2>2, <2>4, <2>5 DEF Carried
  <2> QED BY <1>8, <2>6 DEF p
<1>18. Streams(d, s2)
  BY <1>9, <1>16, <1>17 DEF Streams
<1> QED BY <1>5, <1>18 DEF s2

-----------------------------------------------------------------------------
(* The inductive invariant.                                                 *)

StreamInv == TypeOK /\ Streams(conn, submitted) /\ Moves(conn)

\* The variables that the rest of the network keeps in their types.
NetworkType ==
  /\ peer \in [ack_nr : Uint16, ooo : SUBSET Uint16]
  /\ acks \in Seq([ack_nr : Uint16, sack : SUBSET Uint16])
  /\ losses \in 0 .. MaxLosses /\ reverse \in 0 .. MaxReverse /\ timeouts \in 0 .. MaxTimeouts

\* The variables that a handler's step sets (Leaves).
SenderInv ==
  /\ conn.out_frames = {} /\ Streams(conn, submitted) /\ Moves(conn)
  /\ flying \subseteq [seq : Uint16, nth : Nat \ {0}]
  /\ submitted \in Seq(PayloadSizes)
  /\ heard \in Nat /\ cut_flight \subseteq Uint16

LEMMA InvParts == StreamInv <=> SenderInv /\ NetworkType
  BY DEF StreamInv, SenderInv, NetworkType, TypeOK, Streams, Fits

\* The numbers of packets in flight.
LEMMA SeqsType ==
  ASSUME NEW c, Fits(c)
  PROVE  Seqs(c) \subseteq Uint16
<1>1. c.inflight \in Seq(InflightPkt)
  BY DEF Fits, Conn
<1>2. \A i \in DOMAIN c.inflight : c.inflight[i] \in InflightPkt
  BY <1>1
<1> QED BY <1>2 DEF Seqs, Lists!ToSet, InflightPkt

\* A handler that carries the stream on, and leaves something in flight if
\* something waits.
LEMMA LeavesKeeps ==
  ASSUME SenderInv, NEW c, submitted' \in Seq(PayloadSizes), Streams(c, submitted'), Moves(c),
         NEW arrivals \in Nat, Leaves(c, arrivals)
  PROVE  SenderInv'
<1> DEFINE d == [c EXCEPT !.out_frames = {}]
<1>1. Fits(c) /\ c \in Conn /\ c.out_frames \subseteq [seq : Uint16, nth : Nat \ {0}]
  BY DEF Streams, Fits
<1>2. conn' = d
  BY DEF Leaves
<1>3. Kept(c, d) /\ d.pending = c.pending /\ d.inflight = c.inflight /\ d.out_frames = {}
  <2>1. Kept(c, d)
    <3>1. c.idle \in Nat /\ c.timeout \in Nat /\ c.dup_acks \in Nat /\ c.last_ack_seen \in Uint16
      BY <1>1 DEF Conn
    <3> QED BY <1>1, <3>1, OtherFields
  <2> QED BY <1>1, <2>1 DEF Conn
<1> HIDE DEF d
<1>4. Streams(d, submitted')
  <2>1. \A s \in Seq(PayloadSizes) : Streams(c, s) => Streams(d, s)
    BY <1>3, KeptStreams
  <2> QED BY <2>1
<1>5. Moves(d)
  BY <1>3 DEF Moves
<1>6. flying' \subseteq [seq : Uint16, nth : Nat \ {0}]
  BY <1>1 DEF Leaves, SenderInv
<1>7. heard' \in Nat
  BY DEF Leaves, SenderInv
<1>8. cut_flight' \subseteq Uint16
  <2>1. Seqs(c) \subseteq Uint16
    BY <1>1, SeqsType
  <2> QED BY <2>1 DEF Leaves
<1> QED BY <1>2, <1>3, <1>4, <1>5, <1>6, <1>7, <1>8 DEF SenderInv

\* A payload is submitted.
LEMMA AppSendStep ==
  ASSUME SenderInv, NEW size \in PayloadSizes, app_send(size)
  PROVE  SenderInv'
<1> DEFINE d == [conn EXCEPT !.pending = Append(@, [payload |-> Len(Append(submitted, size)), remaining |-> size])]
           e == packetize(d)
<1>1. submitted' = Append(submitted, size) /\ Len(submitted) < MaxPayloads /\ Leaves(e, 0)
  BY DEF app_send
<1>2. Streams(d, submitted') /\ submitted' \in Seq(PayloadSizes)
  <2>1. Streams(d, Append(submitted, size)) /\ Append(submitted, size) \in Seq(PayloadSizes)
    BY <1>1, AppendStreams DEF SenderInv
  <2> QED BY <1>1, <2>1
<1> HIDE DEF d
<1>3. Streams(e, submitted') /\ Moves(e)
  <2>1. \A s \in Seq(PayloadSizes) : Streams(d, s) => Streams(packetize(d), s) /\ Moves(packetize(d))
    BY PacketizeStreams
  <2> QED BY <1>2, <2>1
<1> HIDE DEF e
<1> QED BY <1>1, <1>2, <1>3, LeavesKeeps

\* An acknowledgement arrives, whatever becomes of it.
LEMMA ProcessAcksStep ==
  ASSUME SenderInv, NEW c, Streams(c, submitted), Moves(c), NEW pkt \in AckFrame,
         submitted' = submitted, process_acks(c, pkt)
  PROVE  SenderInv'
<1> DEFINE left == apply_sack(DropAcked(c, pkt), pkt)
           Seen(d) == [d EXCEPT !.last_ack_seen = pkt.ack_nr]
           Moved == /\ Len(left.inflight) < Len(c.inflight)
                    /\ \E delay \in Delays, rto \in RttTimeouts :
                         Leaves(Seen(packetize(Progress(c, left, delay, rto))), 1)
           Stuck == /\ ~(Len(left.inflight) < Len(c.inflight))
                    /\ Leaves(Seen(NoProgress(left, pkt)), 1)
<1>1. Fits(c) /\ Kept(c, left) /\ submitted \in Seq(PayloadSizes) /\ submitted' \in Seq(PayloadSizes)
  BY AckLeaves DEF Streams, SenderInv
<1>2. Moved \/ Stuck
  BY DEF process_acks
<1> HIDE DEF left
<1>3. c.inflight \in Seq(InflightPkt) /\ left.inflight \in Seq(InflightPkt) /\ Fits(left)
  BY <1>1 DEF Fits, Conn, Kept
<1>4. ASSUME NEW d, Streams(d, submitted), Moves(d), Leaves(Seen(d), 1)
      PROVE  SenderInv'
  <2> DEFINE e == Seen(d)
  <2>1. Fits(d) /\ d \in Conn
    BY <1>4 DEF Streams, Fits
  <2>2. Kept(d, e) /\ e.pending = d.pending /\ e.inflight = d.inflight
    <3>1. d.idle \in Nat /\ d.timeout \in Nat /\ d.dup_acks \in Nat /\ pkt.ack_nr \in Uint16
      BY <2>1 DEF Conn, AckFrame
    <3>2. Kept(d, e)
      BY <2>1, <3>1, OtherFields
    <3> QED BY <2>1, <3>2 DEF Conn
  <2>3. Leaves(e, 1)
    BY <1>4
  <2> HIDE DEF e
  <2>4. Streams(e, submitted') /\ Moves(e)
    <3>1. Streams(e, submitted)
      BY <1>1, <1>4, <2>2, KeptStreams
    <3> QED BY <1>4, <2>2, <3>1 DEF Moves
  <2> QED BY <1>1, <2>3, <2>4, LeavesKeeps
<1>5. CASE Moved
  <2>1. PICK delay \in Delays, rto \in RttTimeouts :
          Leaves(Seen(packetize(Progress(c, left, delay, rto))), 1)
    BY <1>5
  <2> DEFINE d == Progress(c, left, delay, rto)
  <2>2. c.inflight # <<>>
    <3>1. Len(left.inflight) < Len(c.inflight) /\ Len(left.inflight) \in Nat /\ Len(c.inflight) \in Nat
      BY <1>3, <1>5
    <3>2. c.inflight = <<>> => Len(c.inflight) = 0
      OBVIOUS
    <3> HIDE DEF Moved
    <3> QED BY <3>1, <3>2
  <2>3. Kept(c, d)
    BY <1>1, <2>2, ProgressKeeps
  <2> HIDE DEF d
  <2>4. Streams(d, submitted)
    BY <1>1, <2>3, KeptStreams
  <2>5. Streams(packetize(d), submitted) /\ Moves(packetize(d))
    BY <1>1, <2>4, PacketizeStreams
  <2>6. Leaves(Seen(packetize(d)), 1)
    BY <2>1 DEF d
  <2> HIDE DEF Seen, Moved, Stuck
  <2> QED BY <1>4, <2>5, <2>6
<1>6. CASE Stuck
  <2> DEFINE d == NoProgress(left, pkt)
  <2>1. Kept(left, d) /\ (left.inflight # <<>> => d.inflight # <<>>)
    BY <1>3, NoProgressKeeps
  <2>2. Leaves(Seen(d), 1)
    BY <1>6
  <2> HIDE DEF d
  <2>3. Kept(c, d)
    BY <1>1, <2>1, KeptTwice
  <2>4. Streams(d, submitted)
    BY <1>1, <2>3, KeptStreams
  <2>5. Moves(d)
    <3>1. SUFFICES ASSUME d.pending # <<>> PROVE d.inflight # <<>>
      BY DEF Moves
    <3>2. c.inflight # <<>>
      BY <2>3, <3>1 DEF Kept, Moves
    <3>3. ~(Len(left.inflight) < Len(c.inflight)) /\ Len(left.inflight) \in Nat /\ Len(c.inflight) \in Nat
      BY <1>3, <1>6
    <3>4. Len(c.inflight) # 0
      BY <1>3, <3>2, FirstIndex
    <3>5. left.inflight = <<>> => Len(left.inflight) = 0
      OBVIOUS
    <3> HIDE DEF Stuck
    <3> QED BY <2>1, <3>3, <3>4, <3>5
  <2> HIDE DEF Seen, Moved, Stuck
  <2> QED BY <1>4, <2>2, <2>4, <2>5
<1> HIDE DEF Moved, Stuck
<1> QED BY <1>2, <1>5, <1>6

LEMMA ReceiveAckStep ==
  ASSUME SenderInv, NetworkType, ReceiveAck
  PROVE  SenderInv' /\ NetworkType'
<1> DEFINE c == [conn EXCEPT !.idle = 0]
           pkt == Head(acks)
<1>1. acks # <<>> /\ acks \in Seq(AckFrame) /\ submitted' = submitted /\ process_acks(c, pkt)
  BY DEF ReceiveAck, NetworkType, AckFrame
<1>2. pkt \in AckFrame /\ Tail(acks) \in Seq(AckFrame)
  BY <1>1
<1>3. Fits(conn) /\ conn \in Conn
  BY DEF SenderInv, Streams, Fits
<1>4. Kept(conn, c) /\ c.pending = conn.pending /\ c.inflight = conn.inflight
  <2>1. conn.timeout \in Nat /\ conn.dup_acks \in Nat /\ conn.last_ack_seen \in Uint16 /\ 0 \in Nat
    BY <1>3 DEF Conn
  <2>2. Kept(conn, c)
    BY <1>3, <2>1, OtherFields
  <2> QED BY <1>3, <2>2 DEF Conn
<1> HIDE DEF c, pkt
<1>5. Streams(c, submitted) /\ Moves(c)
  <2>1. Streams(c, submitted)
    BY <1>4, KeptStreams DEF SenderInv
  <2> QED BY <1>4, <2>1 DEF SenderInv, Moves
<1>6. SenderInv'
  BY <1>1, <1>2, <1>5, ProcessAcksStep
<1>7. NetworkType'
  BY <1>2 DEF ReceiveAck, NetworkType, AckFrame
<1> QED BY <1>6, <1>7

LEMMA OnTimeoutStep ==
  ASSUME SenderInv, NetworkType, on_timeout
  PROVE  SenderInv' /\ NetworkType'
<1> DEFINE c == [conn EXCEPT !.timeout = 2 * conn.timeout, !.cwnd = MinPacket]
           d == retransmit(c, {1})
<1>1. conn.inflight # <<>> /\ timeouts < MaxTimeouts /\ timeouts' = timeouts + 1
      /\ UNCHANGED <<peer, acks, submitted, losses, reverse>> /\ Leaves(d, 0)
  BY DEF on_timeout
<1>2. Fits(conn) /\ conn \in Conn
  BY DEF SenderInv, Streams, Fits
<1>3. Kept(conn, c) /\ c.inflight = conn.inflight
  <2>1. /\ conn.idle \in Nat /\ 2 * conn.timeout \in Nat /\ conn.dup_acks \in Nat
        /\ conn.last_ack_seen \in Uint16
    BY <1>2 DEF Conn
  <2>2. Kept(conn, c)
    BY <1>2, <2>1, OtherFields
  <2> QED BY <1>2, <2>2 DEF Conn
<1> HIDE DEF c
<1>4. {1} \in SUBSET (1 .. Len(c.inflight)) /\ Fits(c) /\ Len(c.inflight) # 0 /\ c.inflight \in Seq(InflightPkt)
  <2>1. Fits(c) /\ c.inflight \in Seq(InflightPkt)
    BY <1>3 DEF Kept, Fits, Conn
  <2> QED BY <1>1, <1>3, <2>1, FirstIndex
<1>5. Kept(c, d) /\ Len(d.inflight) = Len(c.inflight)
  BY <1>4, RetransmitKeeps
<1> HIDE DEF d
<1>6. Kept(conn, d) /\ d.inflight # <<>>
  <2>1. d.inflight = <<>> => Len(d.inflight) = 0
    OBVIOUS
  <2> QED BY <1>3, <1>4, <1>5, <2>1, KeptTwice
<1>7. Streams(d, submitted') /\ Moves(d) /\ submitted' \in Seq(PayloadSizes)
  <2>1. Streams(d, submitted)
    BY <1>6, KeptStreams DEF SenderInv
  <2> QED BY <1>1, <1>6, <2>1 DEF Moves, SenderInv
<1>8. SenderInv'
  BY <1>1, <1>7, LeavesKeeps
<1>9. NetworkType'
  BY <1>1, WindowAssumption, SMTT(30) DEF NetworkType
<1> QED BY <1>8, <1>9

LEMMA ElapseStep ==
  ASSUME SenderInv, NetworkType, Elapse
  PROVE  SenderInv' /\ NetworkType'
<1> DEFINE c == [conn EXCEPT !.idle = conn.idle + 1]
<1>1. conn' = c /\ UNCHANGED <<flying, peer, acks, submitted, heard, cut_flight, losses, reverse, timeouts>>
  BY DEF Elapse
<1>2. Fits(conn) /\ conn \in Conn
  BY DEF SenderInv, Streams, Fits
<1>3. Kept(conn, c) /\ c.pending = conn.pending /\ c.inflight = conn.inflight /\ c.out_frames = conn.out_frames
  <2>1. /\ conn.idle + 1 \in Nat /\ conn.timeout \in Nat /\ conn.dup_acks \in Nat
        /\ conn.last_ack_seen \in Uint16
    BY <1>2 DEF Conn
  <2>2. Kept(conn, c)
    BY <1>2, <2>1, OtherFields
  <2> QED BY <1>2, <2>2 DEF Conn
<1> HIDE DEF c
<1>4. Streams(c, submitted)
  BY <1>3, KeptStreams DEF SenderInv
<1>5. SenderInv'
  BY <1>1, <1>3, <1>4 DEF SenderInv, Moves
<1> QED BY <1>1, <1>5 DEF NetworkType

\* The receiver's numbers stay 16-bit numbers.
LEMMA DeliverStep ==
  ASSUME SenderInv, NetworkType, NEW pkt \in flying, Deliver(pkt)
  PROVE  SenderInv' /\ NetworkType'
<1> DEFINE rel   == seq_diff(pkt.seq, peer.ack_nr)
           run   == {k \in 1 .. SeqMod - 1 : \A j \in 1 .. k : Plus(pkt.seq, j) \in peer.ooo}
           last  == Plus(pkt.seq, Cardinality(run))
           after == IF rel <= 0 THEN peer
                    ELSE IF rel = 1
                         THEN [ack_nr |-> last, ooo |-> peer.ooo \ {Plus(pkt.seq, k) : k \in run}]
                    ELSE [peer EXCEPT !.ooo = @ \cup {pkt.seq}]
<1>1. /\ flying' = flying \ {pkt} /\ peer' = after
      /\ acks' = Append(acks, [ack_nr |-> after.ack_nr, sack |-> after.ooo])
      /\ UNCHANGED <<conn, submitted, heard, cut_flight, losses, reverse, timeouts>>
  BY DEF Deliver
<1>2. pkt.seq \in Uint16 /\ pkt.seq \in Int
  BY Uint16Int DEF SenderInv
<1>3. last \in Uint16
  <2>1. SeqMod - 1 \in Int /\ 1 \in Int
    BY SeqModAssumption
  <2>2. IsFiniteSet(1 .. SeqMod - 1)
    BY <2>1, FS_Interval
  <2>3. IsFiniteSet(run)
    BY <2>2, FS_Subset
  <2> HIDE DEF run
  <2>4. Cardinality(run) \in Int
    BY <2>3, FS_CardinalityType
  <2> QED BY <1>2, <2>4, PlusType
<1>4. after \in [ack_nr : Uint16, ooo : SUBSET Uint16]
  <2> HIDE DEF rel, run, last
  <2> QED BY <1>2, <1>3 DEF NetworkType
<1> HIDE DEF after
<1>5. acks' \in Seq([ack_nr : Uint16, sack : SUBSET Uint16])
  <2>1. [ack_nr |-> after.ack_nr, sack |-> after.ooo] \in [ack_nr : Uint16, sack : SUBSET Uint16]
    BY <1>4
  <2> QED BY <1>1, <2>1 DEF NetworkType
<1> QED BY <1>1, <1>4, <1>5 DEF SenderInv, NetworkType

LEMMA PeerSendsStep ==
  ASSUME SenderInv, NetworkType, PeerSends
  PROVE  SenderInv' /\ NetworkType'
<1>1. SenderInv'
  BY DEF PeerSends, SenderInv
<1>2. acks' \in Seq([ack_nr : Uint16, sack : SUBSET Uint16])
  <2>1. [ack_nr |-> peer.ack_nr, sack |-> {}] \in [ack_nr : Uint16, sack : SUBSET Uint16]
    BY DEF NetworkType
  <2> QED BY <2>1 DEF PeerSends, NetworkType
<1>3. NetworkType'
  BY <1>2, WindowAssumption, SMTT(30) DEF PeerSends, NetworkType
<1> QED BY <1>1, <1>3

LEMMA LoseStep ==
  ASSUME SenderInv, NetworkType, Lose
  PROVE  SenderInv' /\ NetworkType'
<1> DEFINE S == [ack_nr : Uint16, sack : SUBSET Uint16]
<1>1. SenderInv'
  BY DEF Lose, SenderInv
<1>2. acks' \in Seq(S)
  <2>1. acks \in Seq(S)
    BY DEF NetworkType
  <2> HIDE DEF S
  <2>2. ASSUME NEW i \in DOMAIN acks PROVE Lists!RemoveAt(acks, i) \in Seq(S)
    <3>1. /\ Len(acks) \in Nat /\ 1 \in 1 .. Len(acks) + 1 /\ i - 1 \in 1 - 1 .. Len(acks)
          /\ i + 1 \in 1 .. Len(acks) + 1 /\ Len(acks) \in (i + 1) - 1 .. Len(acks)
      BY <2>1
    <3>2. SubSeq(acks, 1, i - 1) \in Seq(S) /\ SubSeq(acks, i + 1, Len(acks)) \in Seq(S)
      BY <2>1, <3>1, SubSeqProperties
    <3> QED BY <3>2, ConcatProperties DEF Lists!RemoveAt
  <2> QED BY <2>1, <2>2 DEF Lose
<1>3. losses' \in 0 .. MaxLosses
  <2>1. losses \in 0 .. MaxLosses /\ losses < MaxLosses /\ losses' = losses + 1
    BY DEF Lose, NetworkType
  <2>2. MaxLosses \in Nat
    BY WindowAssumption
  <2> QED BY <2>1, <2>2
<1>4. UNCHANGED <<peer, reverse, timeouts>>
  BY DEF Lose
<1> HIDE DEF S
<1>5. NetworkType'
  BY <1>2, <1>3, <1>4 DEF NetworkType, S
<1> QED BY <1>1, <1>5

LEMMA InitInv == Init => StreamInv
<1>1. SUFFICES ASSUME Init PROVE StreamInv
  OBVIOUS
<1>2. /\ FirstSeq \in Uint16 /\ FirstSeq \in Int /\ 0 \in Uint16 /\ InitialCwnd \in Nat /\ InitialCwnd >= MinPacket
      /\ InitialTimeout \in Nat /\ {MaxLosses, MaxReverse, MaxTimeouts} \subseteq Nat
  BY WindowAssumption, SeqModAssumption DEF Uint16
<1>3. Plus(FirstSeq, -1) \in Uint16
  BY <1>2, PlusType
<1>4. conn \in Conn
  BY <1>1, <1>2 DEF Init, Conn
<1>5. conn.pending = <<>> /\ conn.inflight = <<>> /\ conn.offset = 0 /\ conn.cwnd = InitialCwnd
      /\ conn.out_frames = {} /\ submitted = <<>>
  BY <1>1 DEF Init
<1>6. Len(<<>>) = 0 /\ 1 .. 0 = {} /\ \A S : <<>> \in Seq(S)
  OBVIOUS
<1>7. WaitsFrom(conn, submitted, Len(submitted) - Len(conn.pending))
  BY <1>5, <1>6, SumZero DEF WaitsFrom
<1>8. Streams(conn, submitted)
  BY <1>2, <1>4, <1>5, <1>6, <1>7 DEF Streams, Fits
<1>9. SenderInv
  BY <1>1, <1>5, <1>6, <1>8 DEF Init, SenderInv, Moves
<1>10. NetworkType
  BY <1>1, <1>2, <1>3, <1>6 DEF Init, NetworkType
<1> QED BY <1>9, <1>10, InvParts

\* Every step keeps the invariant.
LEMMA NextKeeps == StreamInv /\ [Next]_vars => StreamInv'
<1>1. SUFFICES ASSUME StreamInv, [Next]_vars PROVE SenderInv' /\ NetworkType'
  BY InvParts DEF StreamInv, SenderInv, NetworkType, TypeOK, Streams, Fits
<1>2. SenderInv /\ NetworkType
  BY <1>1, InvParts
<1>3. CASE \E size \in PayloadSizes : app_send(size)
  <2>1. PICK size \in PayloadSizes : app_send(size)
    BY <1>3
  <2>2. SenderInv'
    BY <1>2, <2>1, AppSendStep
  <2>3. NetworkType'
    BY <1>2, <2>1 DEF app_send, NetworkType
  <2> QED BY <2>2, <2>3
<1>4. CASE ReceiveAck
  BY <1>2, <1>4, ReceiveAckStep
<1>5. CASE on_timeout
  BY <1>2, <1>5, OnTimeoutStep
<1>6. CASE Elapse
  BY <1>2, <1>6, ElapseStep
<1>7. CASE \E pkt \in flying : Deliver(pkt)
  BY <1>2, <1>7, DeliverStep
<1>8. CASE PeerSends
  BY <1>2, <1>8, PeerSendsStep
<1>9. CASE Lose
  BY <1>2, <1>9, LoseStep
<1>10. CASE UNCHANGED vars
  BY <1>2, <1>10 DEF vars, SenderInv, NetworkType
<1> QED BY <1>1, <1>3, <1>4, <1>5, <1>6, <1>7, <1>8, <1>9, <1>10 DEF Next

LEMMA Inductive == Spec => []StreamInv
<1>1. Init => StreamInv
  BY InitInv
<1>2. StreamInv /\ [Next]_vars => StreamInv'
  BY NextKeeps
<1> QED BY <1>1, <1>2, PTL DEF Spec

\* Every variable holds values of its type: the window, the packets in flight and
\* what waits stay what the handlers take them for (utp_socket.hpp).
THEOREM WindowTypes == Spec => []TypeOK
<1>1. StreamInv => TypeOK
  BY DEF StreamInv
<1> QED BY <1>1, Inductive, PTL

\* Payloads never wait with nothing in flight: packetize sends something whenever
\* the flight is empty, for no cut, timeout or delay puts the window below a
\* packet (clamp_cwnd, packetize).
THEOREM WindowNeverStalls == Spec => []NeverStalls
<1>1. StreamInv => NeverStalls
  BY DEF StreamInv, Moves, NeverStalls
<1> QED BY <1>1, Inductive, PTL

LEMMA StreamsCover == StreamInv => StreamCovered
<1>1. SUFFICES ASSUME StreamInv PROVE StreamCovered
  OBVIOUS
<1> DEFINE q == conn.pending
           s == submitted
           n == Len(s)
           done == n - Len(q)
<1>2. /\ conn \in Conn /\ s \in Seq(PayloadSizes) /\ WaitsFrom(conn, s, done)
      /\ \A i \in 1 .. Len(conn.inflight) : Carried(conn.inflight[i], s, conn.offset)
  BY <1>1 DEF StreamInv, TypeOK, Streams
<1>3. /\ q \in Seq(Waiting) /\ conn.inflight \in Seq(InflightPkt) /\ conn.offset \in Nat
      /\ Len(q) \in Nat /\ n \in Nat /\ DOMAIN q = 1 .. Len(q) /\ DOMAIN s = 1 .. n
      /\ DOMAIN conn.inflight = 1 .. Len(conn.inflight)
  BY <1>2 DEF Conn, Waiting
<1>4. /\ done \in Nat /\ done + Len(q) = n /\ SumTo(s, done) <= conn.offset
      /\ (q = <<>> => conn.offset = SumTo(s, done))
      /\ \A i \in 1 .. Len(q) : q[i].payload = done + i /\ conn.offset + WaitingUntil(conn, i) = SumTo(s, done + i)
  BY <1>2 DEF WaitsFrom
<1>5. \A m \in 0 .. n : EndOf(m) = SumTo(s, m) /\ SumTo(s, m) \in Nat
  BY <1>2, EndIs, SizesIs
<1>6. \A i \in 0 .. Len(q) : WaitingUntil(conn, i) \in Nat
  BY <1>3, WaitingIs
<1>7. SumOf(q, LAMBDA p : p.remaining) = WaitingUntil(conn, Len(q))
  <2>1. Len(q) \in 0 .. Len(q)
    BY <1>3
  <2>2. WaitingUntil(conn, Len(q)) = SumTo(Left(q), Len(q))
    BY <1>3, <2>1, WaitingIs
  <2> QED BY <1>3, <2>2, LeftIsSum
<1>8. conn.offset + SumOf(q, LAMBDA p : p.remaining) = EndOf(n)
  <2>1. n \in 0 .. n
    BY <1>3
  <2>2. CASE q = <<>>
    <3>1. Len(q) = 0 /\ WaitingUntil(conn, 0) = 0
      BY <1>3, <2>2, WaitingIs
    <3>2. conn.offset = SumTo(s, n)
      BY <1>3, <1>4, <2>2, <3>1
    <3> QED BY <1>3, <1>5, <1>7, <2>1, <3>1, <3>2
  <2>3. CASE q # <<>>
    <3>1. Len(q) \in 1 .. Len(q)
      BY <1>3, <2>3
    <3> QED BY <1>4, <1>5, <1>7, <2>1, <3>1
  <2> QED BY <2>2, <2>3
<1>9. \A p \in Lists!ToSet(conn.inflight) :
        p.completing = {m \in DOMAIN s : p.offset < EndOf(m) /\ EndOf(m) <= p.offset + p.stream_bytes}
  <2>1. ASSUME NEW p \in Lists!ToSet(conn.inflight)
        PROVE  p.completing = {m \in DOMAIN s : p.offset < EndOf(m) /\ EndOf(m) <= p.offset + p.stream_bytes}
    <3>1. PICK i \in 1 .. Len(conn.inflight) : p = conn.inflight[i]
      BY <1>3 DEF Lists!ToSet
    <3>2. p.completing = {m \in DOMAIN s : p.offset < SumTo(s, m) /\ SumTo(s, m) <= p.offset + p.stream_bytes}
      BY <1>2, <3>1 DEF Carried
    <3>3. \A m \in DOMAIN s : EndOf(m) = SumTo(s, m)
      <4>1. \A m \in 1 .. n : m \in 0 .. n
        BY <1>3
      <4> QED BY <1>3, <1>5, <4>1
    <3> QED BY <3>2, <3>3
  <2> QED BY <2>1
<1>10. ASSUME NEW i \in DOMAIN q
       PROVE  /\ q[i].payload = n - Len(q) + i
              /\ q[i].remaining <= s[q[i].payload]
  <2>1. /\ i \in 1 .. Len(q) /\ q[i].payload = done + i /\ conn.offset + WaitingUntil(conn, i) = SumTo(s, done + i)
        /\ i - 1 \in 0 .. Len(q) /\ i \in 0 .. Len(q)
    <3>1. i \in 1 .. Len(q)
      BY <1>3
    <3>2. i - 1 \in 0 .. Len(q) /\ i \in 0 .. Len(q)
      BY <1>3, <3>1
    <3> HIDE DEF q, done
    <3> QED BY <1>4, <3>1, <3>2
  <2>2. WaitingUntil(conn, i) = WaitingUntil(conn, i - 1) + q[i].remaining /\ q[i] \in Waiting
    BY <1>3, <2>1, WaitingIs
  <2>3. q[i].remaining \in Nat
    BY <2>2 DEF Waiting
  <2> DEFINE m == done + (i - 1)
  <2>4. m \in Nat /\ m + 1 = done + i /\ m \in 0 .. n /\ done + i \in 1 .. n
    <3>1. done \in Nat /\ done + Len(q) = n /\ n \in Nat /\ Len(q) \in Nat /\ i \in 1 .. Len(q)
      BY <1>3, <1>4, <2>1
    <3> HIDE DEF q, done, n
    <3> QED BY <3>1
  <2>5. SumTo(s, m + 1) = SumTo(s, m) + s[m + 1]
    BY <2>4, SumNext
  <2>6. SumTo(s, m) <= conn.offset + WaitingUntil(conn, i - 1)
    <3>1. CASE i = 1
      <4>1. m = done /\ WaitingUntil(conn, 0) = 0
        BY <1>3, <1>4, <3>1, WaitingIs
      <4> QED BY <1>3, <1>4, <3>1, <4>1
    <3>2. CASE i # 1
      <4>1. i - 1 \in 1 .. Len(q)
        BY <1>3, <2>1, <3>2
      <4>2. SumTo(s, m) = conn.offset + WaitingUntil(conn, i - 1)
        BY <1>4, <4>1
      <4> QED BY <1>3, <1>6, <2>1, <4>2
    <3> QED BY <3>1, <3>2
  <2>7. s[done + i] \in Nat /\ SumTo(s, m) \in Nat
    <3>1. s[done + i] \in Nat \ {0}
      BY <1>2, <2>4, SizesIs
    <3> QED BY <1>5, <2>4, <3>1
  <2>8. WaitingUntil(conn, i - 1) \in Nat
    BY <1>6, <2>1
  <2> HIDE DEF m
  <2>9. conn.offset + (WaitingUntil(conn, i - 1) + q[i].remaining) = SumTo(s, m) + s[done + i]
    BY <2>1, <2>2, <2>4, <2>5
  <2>10. q[i].remaining <= s[done + i]
    <3> DEFINE w == WaitingUntil(conn, i - 1)
               e == SumTo(s, m)
               o == conn.offset
               r == q[i].remaining
               z == s[done + i]
    <3>1. o \in Nat /\ w \in Nat /\ e \in Nat /\ r \in Nat /\ z \in Nat /\ e <= o + w /\ o + (w + r) = e + z
      BY <1>3, <2>3, <2>6, <2>7, <2>8, <2>9
    <3> HIDE DEF w, e, o, r, z
    <3>2. r <= z
      BY <3>1
    <3> QED BY <3>2 DEF r, z
  <2> QED BY <2>1, <2>10
<1> QED BY <1>8, <1>9, <1>10 DEF StreamCovered

\* However payloads are cut and packed, the packets carry the stream without gap
\* or overlap, each completes the payloads that end in it, and the rest waits in
\* order (packetize).
THEOREM WindowCoversStream == Spec => []StreamCovered
<1>1. StreamInv => StreamCovered
  BY StreamsCover
<1> QED BY <1>1, Inductive, PTL
-----------------------------------------------------------------------------
(* The numbers of a stream.                                                 *)

\* The place in the stream of the packet with number s; the first one is at 1.
Position(s) == (s - FirstSeq + 1) % SeqMod

\* Remainders of numbers close to the 16-bit ones.
LEMMA ModNear ==
  ASSUME NEW a \in Int, -SeqMod <= a, a < 2 * SeqMod
  PROVE  a % SeqMod = IF a < 0 THEN a + SeqMod ELSE IF a < SeqMod THEN a ELSE a - SeqMod
<1>1. SeqMod \in Nat \ {0}
  BY SeqModAssumption
<1>2. CASE a < 0
  <2>1. a = SeqMod * (-1) + (a + SeqMod) /\ a + SeqMod \in 0 .. SeqMod - 1
    BY <1>1, <1>2
  <2> QED BY <1>1, <1>2, <2>1, RemainderIs
<1>3. CASE 0 <= a /\ a < SeqMod
  <2>1. a = SeqMod * 0 + a /\ a \in 0 .. SeqMod - 1
    BY <1>1, <1>3
  <2> QED BY <1>1, <1>3, <2>1, RemainderIs
<1>4. CASE SeqMod <= a
  <2>1. a = SeqMod * 1 + (a - SeqMod) /\ a - SeqMod \in 0 .. SeqMod - 1
    BY <1>1, <1>4
  <2>2. a % SeqMod = a - SeqMod
    BY <1>1, <2>1, RemainderIs
  <2> QED BY <1>1, <1>4, <2>2
<1> QED BY <1>1, <1>2, <1>3, <1>4

LEMMA FirstSeqIs == FirstSeq \in Int /\ 1 <= FirstSeq /\ FirstSeq < SeqMod /\ SeqMod \in Nat /\ SeqMod > 3
  BY WindowAssumption, SeqModAssumption

\* Places go round with the numbers.
LEMMA PositionIs ==
  ASSUME NEW s \in Uint16
  PROVE  /\ s \in Int /\ 0 <= s /\ s < SeqMod
         /\ Position(s) \in Uint16 /\ Position(s) \in Nat /\ Position(s) < SeqMod
         /\ Position(s) = IF s >= FirstSeq - 1 THEN s - FirstSeq + 1 ELSE s - FirstSeq + 1 + SeqMod
<1> DEFINE a == s - FirstSeq + 1
<1>1. a \in Int /\ -SeqMod <= a /\ a < SeqMod /\ s \in Int /\ 0 <= s /\ s < SeqMod
  BY FirstSeqIs DEF Uint16
<1>2. Position(s) = a % SeqMod
  BY DEF Position
<1>3. a % SeqMod = IF a < 0 THEN a + SeqMod ELSE a
  <2> HIDE DEF a
  <2>1. a < 2 * SeqMod
    BY <1>1, FirstSeqIs
  <2>2. a % SeqMod = IF a < 0 THEN a + SeqMod ELSE IF a < SeqMod THEN a ELSE a - SeqMod
    BY <1>1, <2>1, ModNear
  <2> QED BY <1>1, <2>2
<1> QED BY <1>1, <1>2, <1>3, FirstSeqIs DEF Uint16

\* A number at another place.
LEMMA PositionPlus ==
  ASSUME NEW s \in Uint16, NEW k \in Int, 0 <= Position(s) + k, Position(s) + k < SeqMod
  PROVE  Plus(s, k) \in Uint16 /\ Position(Plus(s, k)) = Position(s) + k
<1> DEFINE a == s + k
           t == Plus(s, k)
<1>1. /\ s \in Int /\ Position(s) \in Int /\ 0 <= s /\ s < SeqMod
      /\ Position(s) = IF s >= FirstSeq - 1 THEN s - FirstSeq + 1 ELSE s - FirstSeq + 1 + SeqMod
  BY PositionIs
<1>2. a \in Int /\ -SeqMod <= a /\ a < 2 * SeqMod
  BY <1>1, FirstSeqIs
<1>3. t = IF a < 0 THEN a + SeqMod ELSE IF a < SeqMod THEN a ELSE a - SeqMod
  <2>1. t = a % SeqMod
    BY DEF Plus
  <2> HIDE DEF a, t
  <2> QED BY <1>2, <2>1, ModNear
<1> HIDE DEF t
<1>4. t \in Uint16
  BY <1>2, <1>3, FirstSeqIs DEF Uint16
<1>5. /\ t \in Int
      /\ Position(t) = IF t >= FirstSeq - 1 THEN t - FirstSeq + 1 ELSE t - FirstSeq + 1 + SeqMod
  BY <1>4, PositionIs
<1>6. Position(t) = Position(s) + k
  <2> QED BY <1>1, <1>2, <1>3, <1>5, FirstSeqIs
<1> QED BY <1>4, <1>6 DEF t

\* No two numbers have the same place.
LEMMA PositionInjective ==
  ASSUME NEW s \in Uint16, NEW t \in Uint16, Position(s) = Position(t)
  PROVE  s = t
<1> DEFINE x == Position(s)
           y == Position(t)
<1>1. /\ s \in Int /\ t \in Int /\ 0 <= s /\ s < SeqMod /\ 0 <= t /\ t < SeqMod
      /\ x = IF s >= FirstSeq - 1 THEN s - FirstSeq + 1 ELSE s - FirstSeq + 1 + SeqMod
      /\ y = IF t >= FirstSeq - 1 THEN t - FirstSeq + 1 ELSE t - FirstSeq + 1 + SeqMod
  BY PositionIs
<1>2. x = y
  OBVIOUS
<1> HIDE DEF x, y
<1>3. CASE s >= FirstSeq - 1
  BY <1>1, <1>2, <1>3, FirstSeqIs
<1>4. CASE s < FirstSeq - 1
  BY <1>1, <1>2, <1>4, FirstSeqIs
<1> QED BY <1>1, <1>3, <1>4, FirstSeqIs

\* While fewer than half of the numbers are in use, seq_diff is the distance of
\* places.
LEMMA PositionDiff ==
  ASSUME NEW s \in Uint16, NEW t \in Uint16, 2 * Position(s) < SeqMod, 2 * Position(t) < SeqMod
  PROVE  seq_diff(s, t) = Position(s) - Position(t)
<1> DEFINE a == s - t
           x == Position(s)
           y == Position(t)
<1>1. /\ s \in Int /\ t \in Int /\ 0 <= s /\ s < SeqMod /\ 0 <= t /\ t < SeqMod
      /\ x = IF s >= FirstSeq - 1 THEN s - FirstSeq + 1 ELSE s - FirstSeq + 1 + SeqMod
      /\ y = IF t >= FirstSeq - 1 THEN t - FirstSeq + 1 ELSE t - FirstSeq + 1 + SeqMod
      /\ x \in Nat /\ y \in Nat
  BY PositionIs
<1>2. a \in Int /\ -SeqMod <= a /\ a < 2 * SeqMod
  BY <1>1, FirstSeqIs
<1>3. a % SeqMod = IF a < 0 THEN a + SeqMod ELSE a
  <2>1. a < SeqMod
    BY <1>1, FirstSeqIs
  <2> HIDE DEF a
  <2>2. a % SeqMod = IF a < 0 THEN a + SeqMod ELSE IF a < SeqMod THEN a ELSE a - SeqMod
    BY <1>2, ModNear
  <2> QED BY <1>2, <2>1, <2>2
<1> DEFINE d == (s - t) % SeqMod
<1>4. seq_diff(s, t) = IF 2 * d < SeqMod THEN d ELSE d - SeqMod
  BY DEF seq_diff
<1>5. d = IF a < 0 THEN a + SeqMod ELSE a
  BY <1>3
<1> HIDE DEF d, x, y
<1>6. 2 * x < SeqMod /\ 2 * y < SeqMod
  BY DEF x, y
<1>7. seq_diff(s, t) = x - y
  BY <1>1, <1>4, <1>5, <1>6, FirstSeqIs
<1> QED BY <1>7 DEF x, y

\* The first number is at the first place, the one before it at none.
LEMMA FirstPosition ==
  /\ FirstSeq \in Uint16 /\ Position(FirstSeq) = 1
  /\ Plus(FirstSeq, -1) \in Uint16 /\ Position(Plus(FirstSeq, -1)) = 0
<1>1. FirstSeq \in Uint16
  BY FirstSeqIs DEF Uint16
<1>2. Position(FirstSeq) = 1
  BY <1>1, FirstSeqIs, PositionIs
<1>3. Plus(FirstSeq, -1) \in Uint16 /\ Position(Plus(FirstSeq, -1)) = 1 + -1
  <2>1. 0 <= 1 + -1 /\ 1 + -1 < SeqMod /\ -1 \in Int
    BY FirstSeqIs
  <2> QED BY <1>1, <1>2, <2>1, PositionPlus
<1> QED BY <1>1, <1>2, <1>3

-----------------------------------------------------------------------------
(* What is in flight, by the places of its numbers.                         *)

\* Fewer than half of the numbers are in use.
FewUsed(c) == 2 * Len(c.inflight) < SeqMod /\ 2 * Position(c.seq_nr) < SeqMod

\* What is in flight is in the order of the stream, and was sent.
Rising(c) ==
  /\ Position(c.seq_nr) > 0
  /\ \A i \in 1 .. Len(c.inflight) : /\ Position(c.inflight[i].seq) > 0
                                      /\ Position(c.inflight[i].seq) < Position(c.seq_nr)
  /\ \A i, j \in 1 .. Len(c.inflight) :
       i < j => Position(c.inflight[i].seq) < Position(c.inflight[j].seq)

\* No packet in flight, and no run of repeated acknowledgements, is at the threshold.
BelowThreshold(c) ==
  /\ c.dup_acks < DupAckThreshold
  /\ \A i \in 1 .. Len(c.inflight) : c.inflight[i].sacked_past < DupAckThreshold

\* Packet for packet, what d has in flight c had, as often sent.
From(c, d) ==
  \A k \in 1 .. Len(d.inflight) : \E j \in 1 .. Len(c.inflight) :
    /\ d.inflight[k].seq = c.inflight[j].seq
    /\ d.inflight[k].transmissions = c.inflight[j].transmissions

SameCut(c, d) == d.cut_seq = c.cut_seq /\ d.cut_valid = c.cut_valid /\ d.cuts = c.cuts
SameCounts(c, d) ==
  /\ d.seq_nr = c.seq_nr /\ d.dup_acks = c.dup_acks /\ d.last_ack_seen = c.last_ack_seen
  /\ d.out_frames = c.out_frames

\* Only packets leave.
Pruned(c, d) ==
  /\ Fits(d) /\ SameCounts(c, d) /\ SameCut(c, d) /\ Rising(d) /\ From(c, d)
  /\ Len(d.inflight) <= Len(c.inflight)
  /\ Len(d.inflight) = Len(c.inflight) => d.inflight = c.inflight

\* The packets of a connection.
LEMMA PacketsOf ==
  ASSUME NEW c, Fits(c)
  PROVE  /\ c \in Conn /\ c.inflight \in Seq(InflightPkt) /\ Len(c.inflight) \in Nat
         /\ DOMAIN c.inflight = 1 .. Len(c.inflight) /\ c.seq_nr \in Uint16
         /\ \A i \in 1 .. Len(c.inflight) :
              /\ c.inflight[i] \in InflightPkt /\ c.inflight[i].seq \in Uint16
              /\ c.inflight[i].sacked_past \in Nat /\ c.inflight[i].transmissions \in Nat \ {0}
<1>1. c \in Conn /\ c.inflight \in Seq(InflightPkt) /\ c.seq_nr \in Uint16
  BY DEF Fits, Conn
<1>2. Len(c.inflight) \in Nat /\ DOMAIN c.inflight = 1 .. Len(c.inflight)
  BY <1>1
<1>3. \A i \in 1 .. Len(c.inflight) : c.inflight[i] \in InflightPkt
  BY <1>1
<1> QED BY <1>1, <1>2, <1>3 DEF InflightPkt

\* With others of its packets, nothing else of a connection changes.
LEMMA OtherInflight ==
  ASSUME NEW c, Fits(c), NEW r \in Seq(InflightPkt), NEW d, d = [c EXCEPT !.inflight = r]
  PROVE  /\ d \in Conn /\ d.inflight = r /\ SameCounts(c, d) /\ SameCut(c, d)
         /\ d.cwnd = c.cwnd /\ Fits(d)
<1>1. c \in Conn
  BY DEF Fits
<1>2. d \in Conn /\ d.inflight = r /\ d.cwnd = c.cwnd /\ d.out_frames = c.out_frames
  BY <1>1 DEF Conn
<1>3. SameCounts(c, d) /\ SameCut(c, d)
  BY <1>1 DEF Conn, SameCounts, SameCut
<1> QED BY <1>2, <1>3 DEF Fits

\* The cumulative acknowledgement takes the packets up to its place.
LEMMA DropIs ==
  ASSUME NEW c, Fits(c), FewUsed(c), Rising(c), NEW pkt \in AckFrame,
         2 * Position(pkt.ack_nr) < SeqMod, NEW d, d = DropAcked(c, pkt)
  PROVE  \E m \in 0 .. Len(c.inflight) :
           /\ d = [c EXCEPT !.inflight = SubSeq(c.inflight, m + 1, Len(c.inflight))]
           /\ \A i \in 1 .. Len(c.inflight) : i <= m <=> Position(c.inflight[i].seq) <= Position(pkt.ack_nr)
<1> DEFINE q == c.inflight
           n == Len(q)
           a == Position(pkt.ack_nr)
           covered == {i \in DOMAIN q : \A j \in 1 .. i : seq_diff(q[j].seq, pkt.ack_nr) <= 0}
           m == Cardinality(covered)
<1>1. /\ n \in Nat /\ DOMAIN q = 1 .. n /\ pkt.ack_nr \in Uint16 /\ a \in Nat
      /\ \A i \in 1 .. n : q[i].seq \in Uint16 /\ Position(q[i].seq) \in Nat
  BY PacketsOf, PositionIs DEF AckFrame
<1>2. d = [c EXCEPT !.inflight = SubSeq(q, m + 1, n)]
  BY DEF DropAcked
<1>3. \A i \in 1 .. n : seq_diff(q[i].seq, pkt.ack_nr) <= 0 <=> Position(q[i].seq) <= a
  <2>1. SUFFICES ASSUME NEW i \in 1 .. n
                 PROVE  seq_diff(q[i].seq, pkt.ack_nr) <= 0 <=> Position(q[i].seq) <= a
    OBVIOUS
  <2>2. 2 * Position(q[i].seq) < SeqMod
    <3>1. Position(q[i].seq) < Position(c.seq_nr) /\ 2 * Position(c.seq_nr) < SeqMod
      BY DEF Rising, FewUsed
    <3>2. Position(c.seq_nr) \in Nat /\ Position(q[i].seq) \in Nat /\ SeqMod \in Nat
      BY <1>1, PacketsOf, PositionIs, FirstSeqIs
    <3> QED BY <3>1, <3>2
  <2>3. seq_diff(q[i].seq, pkt.ack_nr) = Position(q[i].seq) - a
    BY <1>1, <2>2, PositionDiff
  <2> HIDE DEF a, q, n
  <2> QED BY <1>1, <2>3
<1>4. \A i, j \in 1 .. n : i < j => Position(q[i].seq) < Position(q[j].seq)
  BY DEF Rising
<1>5. covered = {i \in 1 .. n : Position(q[i].seq) <= a}
  <2> HIDE DEF a, q, n
  <2>1. ASSUME NEW i \in 1 .. n, Position(q[i].seq) <= a, NEW j \in 1 .. i
        PROVE  seq_diff(q[j].seq, pkt.ack_nr) <= 0
    <3>1. j \in 1 .. n /\ (j = i \/ j < i)
      BY <1>1
    <3>2. Position(q[j].seq) <= a
      BY <1>1, <1>4, <2>1, <3>1
    <3> QED BY <1>3, <3>1, <3>2
  <2>2. ASSUME NEW i \in 1 .. n, \A j \in 1 .. i : seq_diff(q[j].seq, pkt.ack_nr) <= 0
        PROVE  Position(q[i].seq) <= a
    <3>1. i \in 1 .. i
      BY <1>1
    <3> QED BY <1>3, <2>2, <3>1
  <2> QED BY <1>1, <2>1, <2>2
<1> HIDE DEF covered, a, q, n
<1>6. m \in 0 .. n /\ covered = 1 .. m
  <2>1. covered \in SUBSET (1 .. n)
    BY <1>5
  <2>2. ASSUME NEW i \in covered, NEW j \in 1 .. i PROVE j \in covered
    <3>1. i \in 1 .. n /\ Position(q[i].seq) <= a /\ j \in 1 .. n /\ (j = i \/ j < i)
      BY <1>1, <1>5
    <3>2. Position(q[j].seq) <= a
      BY <1>1, <1>4, <3>1
    <3> QED BY <1>5, <3>1, <3>2
  <2> QED BY <1>1, <2>1, <2>2, PrefixCount
<1>7. \A i \in 1 .. n : i <= m <=> Position(q[i].seq) <= a
  <2> HIDE DEF m
  <2> QED BY <1>1, <1>5, <1>6
<1> HIDE DEF m
<1> QED BY <1>2, <1>6, <1>7 DEF q, n, a
\* The numbers in flight.
LEMMA SeqsAre ==
  ASSUME NEW c, Fits(c)
  PROVE  Seqs(c) = {c.inflight[i].seq : i \in 1 .. Len(c.inflight)}
<1>1. DOMAIN c.inflight = 1 .. Len(c.inflight)
  BY PacketsOf
<1> QED BY <1>1 DEF Seqs, Lists!ToSet

\* The end of a sequence.
LEMMA SuffixIs ==
  ASSUME NEW S, NEW q \in Seq(S), NEW m \in 0 .. Len(q), NEW r, r = SubSeq(q, m + 1, Len(q))
  PROVE  r \in Seq(S) /\ Len(r) = Len(q) - m /\ \A i \in 1 .. Len(q) - m : r[i] = q[m + i]
<1> DEFINE n == Len(q)
<1>1. n \in Nat /\ m \in Nat /\ m <= n
  OBVIOUS
<1>2. m + 1 \in 1 .. n + 1 /\ n \in (m + 1) - 1 .. n
  BY <1>1
<1>3. /\ r \in Seq(S) /\ Len(r) = IF m + 1 <= n THEN n - (m + 1) + 1 ELSE 0
      /\ \A i \in 1 .. n - (m + 1) + 1 : r[i] = q[(m + 1) + i - 1]
  BY <1>2, SubSeqProperties
<1> HIDE DEF n
<1>4. n - (m + 1) + 1 = n - m /\ n - m \in Nat
  BY <1>1
<1>5. Len(r) = n - m
  BY <1>1, <1>3
<1>6. ASSUME NEW i \in 1 .. n - m PROVE r[i] = q[m + i]
  <2>1. r[i] = q[(m + 1) + i - 1]
    BY <1>3, <1>4
  <2>2. (m + 1) + i - 1 = m + i
    BY <1>1
  <2> QED BY <2>1, <2>2
<1> QED BY <1>3, <1>5, <1>6 DEF n

\* Packet k of d is packet g[k] of c, in their order.
Part(c, d, g) ==
  /\ g \in [1 .. Len(d.inflight) -> 1 .. Len(c.inflight)]
  /\ \A k, l \in 1 .. Len(d.inflight) : k < l => g[k] < g[l]
  /\ \A k \in 1 .. Len(d.inflight) :
       /\ d.inflight[k].seq = c.inflight[g[k]].seq
       /\ d.inflight[k].transmissions = c.inflight[g[k]].transmissions

\* Some of the packets, in their order, with other counts.
LEMMA PartRises ==
  ASSUME NEW c, Rising(c), NEW d, d.seq_nr = c.seq_nr, NEW g, Part(c, d, g)
  PROVE  Rising(d) /\ From(c, d)
<1>1. /\ \A k \in 1 .. Len(d.inflight) : g[k] \in 1 .. Len(c.inflight)
      /\ \A k, l \in 1 .. Len(d.inflight) : k < l => g[k] < g[l]
      /\ \A k \in 1 .. Len(d.inflight) :
           /\ d.inflight[k].seq = c.inflight[g[k]].seq
           /\ d.inflight[k].transmissions = c.inflight[g[k]].transmissions
  BY DEF Part
<1>2. \A k, l \in 1 .. Len(d.inflight) :
        k < l => Position(d.inflight[k].seq) < Position(d.inflight[l].seq)
  BY <1>1 DEF Rising
<1>3. \A k \in 1 .. Len(d.inflight) : /\ Position(d.inflight[k].seq) > 0
                                      /\ Position(d.inflight[k].seq) < Position(d.seq_nr)
  BY <1>1 DEF Rising
<1>4. Position(d.seq_nr) > 0
  BY DEF Rising
<1>5. From(c, d)
  BY <1>1 DEF From
<1> QED BY <1>2, <1>3, <1>4, <1>5 DEF Rising

\* The cumulative acknowledgement: what it covers leaves, in front.
LEMMA DropPrunes ==
  ASSUME NEW c, Fits(c), FewUsed(c), Rising(c), NEW pkt \in AckFrame,
         2 * Position(pkt.ack_nr) < SeqMod, NEW d, d = DropAcked(c, pkt)
  PROVE  /\ Pruned(c, d)
         /\ \A s : s \in Seqs(d) <=> s \in Seqs(c) /\ Position(s) > Position(pkt.ack_nr)
         /\ d.inflight # <<>> /\ d.inflight[1].seq = c.inflight[1].seq => d.inflight = c.inflight
<1> DEFINE q == c.inflight
           n == Len(q)
           a == Position(pkt.ack_nr)
<1>1. PICK m \in 0 .. n :
        /\ d = [c EXCEPT !.inflight = SubSeq(q, m + 1, n)]
        /\ \A i \in 1 .. n : i <= m <=> Position(q[i].seq) <= a
  BY DropIs
<1> DEFINE r == SubSeq(q, m + 1, n)
<1>2. /\ c \in Conn /\ q \in Seq(InflightPkt) /\ n \in Nat /\ a \in Nat
      /\ \A i \in 1 .. n : q[i].seq \in Uint16 /\ Position(q[i].seq) \in Nat
  BY PacketsOf, PositionIs DEF AckFrame
<1>3. r \in Seq(InflightPkt) /\ Len(r) = n - m /\ \A i \in 1 .. n - m : r[i] = q[m + i]
  BY <1>2, SuffixIs
<1>4. d = [c EXCEPT !.inflight = r]
  BY <1>1
<1> HIDE DEF r
<1>5. d.inflight = r /\ SameCounts(c, d) /\ SameCut(c, d) /\ Fits(d)
  BY <1>3, <1>4, OtherInflight
<1> HIDE DEF q, n, a
<1>6. m \in Nat /\ m <= n /\ n - m \in Nat
  BY <1>2
<1> DEFINE g == [k \in 1 .. n - m |-> m + k]
<1>7. /\ g \in [1 .. n - m -> 1 .. n] /\ \A k, l \in 1 .. n - m : k < l => g[k] < g[l]
      /\ \A k \in 1 .. n - m : r[k] = q[g[k]]
  <2>1. \A k \in 1 .. n - m : m + k \in 1 .. n /\ g[k] = m + k
    BY <1>2, <1>6
  <2>2. g \in [1 .. n - m -> 1 .. n]
    BY <2>1
  <2>3. \A k, l \in 1 .. n - m : k < l => m + k < m + l
    BY <1>6
  <2> HIDE DEF g
  <2> QED BY <1>3, <2>1, <2>2, <2>3
<1> HIDE DEF g
<1>8. Rising(d) /\ From(c, d)
  <2>1. /\ Len(d.inflight) = n - m /\ d.seq_nr = c.seq_nr /\ n = Len(c.inflight)
        /\ \A k \in 1 .. n - m : d.inflight[k] = c.inflight[g[k]]
    BY <1>3, <1>5, <1>7 DEF q, n, SameCounts
  <2>2. g \in [1 .. Len(d.inflight) -> 1 .. Len(c.inflight)]
    BY <1>7, <2>1
  <2>3. \A k, l \in 1 .. Len(d.inflight) : k < l => g[k] < g[l]
    BY <1>7, <2>1
  <2>4. \A k \in 1 .. Len(d.inflight) :
           /\ d.inflight[k].seq = c.inflight[g[k]].seq
           /\ d.inflight[k].transmissions = c.inflight[g[k]].transmissions
    BY <2>1
  <2>5. Part(c, d, g)
    BY <2>2, <2>3, <2>4 DEF Part
  <2> QED BY <2>1, <2>5, PartRises
<1>9. CASE m = 0
  <2>1. r = q
    BY <1>2, <1>3, <1>9, SeqEqual DEF n
  <2>2. \A i \in 1 .. n : Position(q[i].seq) > a
    BY <1>1, <1>2, <1>9
  <2>3. \A s \in Seqs(c) : Position(s) > a
    BY <2>2, SeqsAre DEF q, n
  <2>4. Seqs(d) = Seqs(c)
    <3>1. d.inflight = c.inflight
      BY <1>5, <2>1 DEF q
    <3> QED BY <3>1 DEF Seqs
  <2> QED BY <1>3, <1>5, <1>8, <1>9, <2>1, <2>3, <2>4 DEF Pruned, q, n, a
<1>10. CASE m # 0
  <2>1. Len(r) < n
    BY <1>2, <1>3, <1>6, <1>10
  <2>2. ASSUME NEW s PROVE s \in Seqs(d) <=> s \in Seqs(c) /\ Position(s) > a
    <3>1. ASSUME s \in Seqs(d) PROVE s \in Seqs(c) /\ Position(s) > a
      <4>1. PICK k \in 1 .. n - m : s = r[k].seq
        BY <1>3, <1>5, <3>1, SeqsAre
      <4>2. m + k \in 1 .. n /\ ~(m + k <= m) /\ s = q[m + k].seq
        BY <1>2, <1>3, <1>6, <4>1, SMTT(30)
      <4>3. Position(s) > a
        BY <1>1, <1>2, <4>2
      <4> QED BY <4>2, <4>3, SeqsAre DEF q, n
    <3>2. ASSUME s \in Seqs(c), Position(s) > a PROVE s \in Seqs(d)
      <4>1. PICK i \in 1 .. n : s = q[i].seq
        BY <3>2, SeqsAre DEF q, n
      <4>2. ~(i <= m)
        BY <1>1, <1>2, <3>2, <4>1
      <4>3. i - m \in 1 .. n - m /\ m + (i - m) = i
        BY <1>2, <1>6, <4>2
      <4>4. r[i - m].seq = s
        BY <1>3, <4>1, <4>3
      <4> QED BY <1>3, <1>5, <4>3, <4>4, SeqsAre
    <3> QED BY <3>1, <3>2
  <2>3. ASSUME r # <<>> PROVE r[1].seq # q[1].seq
    <3>1. Len(r) # 0
      BY <1>3, <2>3, FirstIndex
    <3>2. 1 \in 1 .. n - m /\ 1 \in 1 .. n /\ m + 1 \in 1 .. n /\ 1 < m + 1
      BY <1>2, <1>3, <1>6, <1>10, <3>1
    <3>3. r[1] = q[m + 1]
      BY <1>3, <3>2
    <3>4. Position(q[1].seq) < Position(q[m + 1].seq)
      BY <3>2 DEF Rising, q, n
    <3> QED BY <1>2, <3>2, <3>3, <3>4
  <2> QED BY <1>2, <1>3, <1>5, <1>8, <2>1, <2>2, <2>3 DEF Pruned, q, n, a
<1> QED BY <1>9, <1>10

\* All indices in order are the identity.
LEMMA ListingAll ==
  ASSUME NEW n \in Nat, NEW k \in 1 .. n
  PROVE  Listing(1 .. n)[k] = k
<1> DEFINE I == 1 .. n
           Below(j) == {i \in I : i < j}
<1>1. IsFiniteSet(I) /\ Cardinality(I) = n
  BY FS_Interval
<1>2. ASSUME NEW j \in I PROVE Cardinality(Below(j)) = j - 1
  <2>1. Below(j) = 1 .. j - 1
    OBVIOUS
  <2>2. Cardinality(1 .. j - 1) = j - 1
    BY FS_Interval
  <2> QED BY <2>1, <2>2
<1> HIDE DEF Below
<1>3. (CHOOSE j \in I : Cardinality(Below(j)) = k - 1) = k
  <2>1. k \in I /\ Cardinality(Below(k)) = k - 1
    BY <1>2
  <2>2. ASSUME NEW j \in I, Cardinality(Below(j)) = k - 1 PROVE j = k
    BY <1>2, <2>2
  <2> DEFINE x == CHOOSE j \in I : Cardinality(Below(j)) = k - 1
  <2>3. x \in I /\ Cardinality(Below(x)) = k - 1
    BY <2>1
  <2> HIDE DEF x
  <2>4. x = k
    BY <2>2, <2>3
  <2> QED BY <2>4 DEF x
<1> QED BY <1>1, <1>3 DEF Listing, Below

\* A subsequence by the list of its indices.
LEMMA SubsequenceListed ==
  ASSUME NEW s, NEW I
  PROVE  /\ DOMAIN Subsequence(s, I) = 1 .. Cardinality(I)
         /\ \A k \in 1 .. Cardinality(I) : Subsequence(s, I)[k] = s[Listing(I)[k]]
<1>1. DOMAIN Subsequence(s, I) = 1 .. Cardinality(I)
  BY DEF Subsequence
<1>2. \A k \in 1 .. Cardinality(I) : Subsequence(s, I)[k] = s[Listing(I)[k]]
  BY DEF Subsequence, Listing
<1> QED BY <1>1, <1>2

\* The selective acknowledgement: what it names leaves; if something does and
\* the front stays, the front is acknowledged past.
LEMMA HolesPrunes ==
  ASSUME NEW c, Fits(c), Rising(c), NEW pkt \in AckFrame, NEW d, d = [c EXCEPT !.inflight = Holes(c, pkt)]
  PROVE  /\ Pruned(c, d)
         /\ \A s : s \in Seqs(d) <=> s \in Seqs(c) /\ s \notin pkt.sack
         /\ Len(d.inflight) # Len(c.inflight) /\ d.inflight # <<>> /\ d.inflight[1].seq = c.inflight[1].seq
              => d.inflight[1].sacked_past >= c.inflight[1].sacked_past + 1
<1> DEFINE q == c.inflight
           n == Len(q)
           sacked == {i \in DOMAIN q : q[i].seq \in pkt.sack}
           Past(i) == Cardinality({j \in sacked : i < j})
           Counted == [i \in DOMAIN q |-> [q[i] EXCEPT !.sacked_past = @ + Past(i)]]
           I == DOMAIN q \ sacked
           m == Cardinality(I)
           g == Listing(I)
           r == Holes(c, pkt)
<1>1. /\ q \in Seq(InflightPkt) /\ n \in Nat /\ DOMAIN q = 1 .. n
      /\ \A i \in 1 .. n : q[i] \in InflightPkt /\ q[i].seq \in Uint16 /\ q[i].sacked_past \in Nat
  BY PacketsOf
<1>2. r = Subsequence(Counted, I)
  BY DEF Holes
<1>3. r \in Seq(InflightPkt)
  BY HolesKept
<1>4. d.inflight = r /\ SameCounts(c, d) /\ SameCut(c, d) /\ Fits(d)
  BY <1>3, OtherInflight
<1> HIDE DEF r
<1>5. I \subseteq 1 .. n /\ sacked \subseteq 1 .. n /\ \A i \in 1 .. n : i \in I <=> i \notin sacked
  BY <1>1
<1>6. IsFiniteSet(1 .. n) /\ Cardinality(1 .. n) = n /\ IsFiniteSet(I) /\ m \in Nat /\ m <= n
      /\ (m = n => I = 1 .. n)
  <2>1. IsFiniteSet(1 .. n) /\ Cardinality(1 .. n) = n
    BY <1>1, FS_Interval, SMTT(30)
  <2> HIDE DEF I, n
  <2>2. I \in SUBSET (1 .. n)
    BY <1>5
  <2>3. IsFiniteSet(I) /\ Cardinality(I) <= Cardinality(1 .. n)
        /\ (Cardinality(1 .. n) = Cardinality(I) => 1 .. n = I)
    BY <2>1, <2>2, FS_Subset
  <2>4. Cardinality(I) \in Nat
    BY <2>3, FS_CardinalityType
  <2> QED BY <2>1, <2>3, <2>4
<1>7. \A i \in 1 .. n : Past(i) \in Nat /\ ((\E j \in sacked : i < j) => Past(i) >= 1) /\ (sacked = {} => Past(i) = 0)
  <2>1. SUFFICES ASSUME NEW i \in 1 .. n
                 PROVE  Past(i) \in Nat /\ ((\E j \in sacked : i < j) => Past(i) >= 1) /\ (sacked = {} => Past(i) = 0)
    OBVIOUS
  <2> DEFINE L == {j \in sacked : i < j}
  <2>2. L \subseteq 1 .. n
    BY <1>5
  <2>3. IsFiniteSet(L)
    BY <1>6, <2>2, FS_Subset
  <2>4. Cardinality(L) \in Nat /\ (Cardinality(L) = 0 <=> L = {})
    BY <2>3, FS_CardinalityType, FS_EmptySet
  <2>5. (\E j \in sacked : i < j) => L # {}
    OBVIOUS
  <2>6. sacked = {} => L = {}
    OBVIOUS
  <2> HIDE DEF sacked, L
  <2>7. Cardinality(L) \in Nat /\ ((\E j \in sacked : i < j) => Cardinality(L) >= 1) /\ (sacked = {} => Cardinality(L) = 0)
    BY <2>4, <2>5, <2>6
  <2> QED BY <2>7 DEF L
<1> HIDE DEF Past
<1>8. \A i \in 1 .. n : /\ Counted[i].seq = q[i].seq /\ Counted[i].transmissions = q[i].transmissions
                        /\ Counted[i].sacked_past = q[i].sacked_past + Past(i)
                        /\ (Past(i) = 0 => Counted[i] = q[i])
  <2>1. SUFFICES ASSUME NEW i \in 1 .. n
                 PROVE  /\ Counted[i].seq = q[i].seq /\ Counted[i].transmissions = q[i].transmissions
                        /\ Counted[i].sacked_past = q[i].sacked_past + Past(i)
                        /\ (Past(i) = 0 => Counted[i] = q[i])
    OBVIOUS
  <2> DEFINE e == q[i].sacked_past + Past(i)
  <2>2. q[i] \in InflightPkt /\ Counted[i] = [q[i] EXCEPT !.sacked_past = e]
    BY <1>1
  <2>3. Past(i) = 0 => e = q[i].sacked_past
    BY <1>1
  <2> HIDE DEF e, Counted, q
  <2>4. /\ Counted[i].seq = q[i].seq /\ Counted[i].transmissions = q[i].transmissions
        /\ Counted[i].sacked_past = e /\ (e = q[i].sacked_past => Counted[i] = q[i])
    BY <2>2 DEF InflightPkt
  <2> QED BY <2>3, <2>4 DEF e
<1> HIDE DEF Counted
<1>9. /\ g \in [1 .. m -> I]
      /\ \A k, l \in 1 .. m : k < l => g[k] < g[l]
      /\ \A j \in I : \E k \in 1 .. m : g[k] = j
  <2>1. I \subseteq Nat
    BY <1>1, <1>5
  <2> HIDE DEF I
  <2> QED BY <1>6, <2>1, ListingIs
<1>10. DOMAIN r = 1 .. m /\ \A k \in 1 .. m : r[k] = Counted[g[k]]
  BY <1>2, SubsequenceListed
<1>11. Len(r) = m /\ \A k \in 1 .. m : r[k] = Counted[g[k]] /\ g[k] \in I /\ g[k] \in 1 .. n
  <2> HIDE DEF I, m, g
  <2>2. Len(r) = m
    BY <1>3, <1>6, <1>10
  <2> QED BY <1>5, <1>9, <1>10, <2>2
<1> HIDE DEF m, g
<1>12. Rising(d) /\ From(c, d)
  <2> HIDE DEF I
  <2>1. Part(c, d, g)
    <3>1. g \in [1 .. m -> 1 .. n]
      BY <1>5, <1>9
    <3>2. \A k \in 1 .. m : r[k].seq = q[g[k]].seq /\ r[k].transmissions = q[g[k]].transmissions
      BY <1>8, <1>11
    <3> QED BY <1>4, <1>9, <1>11, <3>1, <3>2 DEF Part, q, n
  <2>2. d.seq_nr = c.seq_nr
    BY <1>4 DEF SameCounts
  <2> QED BY <2>1, <2>2, PartRises
<1>13. ASSUME m = n PROVE r = q
  <2>1. I = 1 .. n
    BY <1>6, <1>13
  <2>2. sacked = {}
    BY <1>5, <2>1
  <2>3. \A k \in 1 .. n : g[k] = k
    BY <1>1, <2>1, ListingAll DEF g
  <2>4. \A k \in 1 .. n : r[k] = q[k]
    BY <1>7, <1>8, <1>11, <1>13, <2>2, <2>3
  <2> QED BY <1>1, <1>3, <1>11, <1>13, <2>4, SeqEqual DEF n
<1>14. ASSUME NEW s PROVE s \in Seqs(d) <=> s \in Seqs(c) /\ s \notin pkt.sack
  <2>1. s \in Seqs(d) <=> \E k \in 1 .. m : s = r[k].seq
    <3>0. Fits(d)
      BY <1>4
    <3>1. Seqs(d) = {d.inflight[i].seq : i \in 1 .. Len(d.inflight)}
      BY ONLY <3>0, SeqsAre
    <3>2. d.inflight = r /\ Len(r) = m
      BY <1>4, <1>11
    <3> QED BY <3>1, <3>2
  <2>2. s \in Seqs(c) <=> \E i \in 1 .. n : s = q[i].seq
    BY SeqsAre DEF q, n
  <2>3. \A i \in 1 .. n : i \in sacked <=> q[i].seq \in pkt.sack
    BY <1>1
  <2>4. ASSUME NEW k \in 1 .. m, s = r[k].seq PROVE s \in Seqs(c) /\ s \notin pkt.sack
    <3>1. g[k] \in 1 .. n /\ g[k] \notin sacked /\ s = q[g[k]].seq
      BY <1>5, <1>8, <1>11, <2>4
    <3> QED BY <2>2, <2>3, <3>1
  <2>5. ASSUME NEW i \in 1 .. n, s = q[i].seq, s \notin pkt.sack PROVE s \in Seqs(d)
    <3>1. i \in I
      BY <1>5, <2>3, <2>5
    <3>2. PICK k \in 1 .. m : g[k] = i
      BY <1>9, <3>1
    <3>3. r[k].seq = s
      BY <1>8, <1>11, <2>5, <3>2
    <3> QED BY <2>1, <3>3
  <2> QED BY <2>1, <2>2, <2>4, <2>5
<1>15. ASSUME m # n, r # <<>>, r[1].seq = q[1].seq PROVE r[1].sacked_past >= q[1].sacked_past + 1
  <2>1. 1 \in 1 .. m /\ 1 \in 1 .. n
    <3>1. m # 0
      BY <1>3, <1>11, <1>15, FirstIndex
    <3> QED BY <1>1, <1>6, <3>1
  <2>2. g[1] = 1
    <3>1. g[1] \in 1 .. n /\ q[g[1]].seq = q[1].seq
      BY <1>8, <1>11, <1>15, <2>1
    <3>2. \A i, j \in 1 .. n : i < j => Position(q[i].seq) < Position(q[j].seq)
      BY DEF Rising, q, n
    <3>3. Position(q[1].seq) \in Nat
      BY <1>1, <2>1, PositionIs
    <3>4. ~(1 < g[1])
      BY <2>1, <3>1, <3>2, <3>3
    <3> QED BY <3>1, <3>4
  <2>3. 1 \notin sacked
    BY <1>5, <1>11, <2>1, <2>2
  <2>4. \E j \in sacked : 1 < j
    <3>1. I # 1 .. n
      BY <1>6, <1>15 DEF m
    <3>2. PICK j \in 1 .. n : j \in sacked
      BY <1>5, <3>1
    <3> QED BY <2>3, <3>2
  <2>5. Past(1) >= 1 /\ Past(1) \in Nat /\ q[1].sacked_past \in Nat
    BY <1>1, <1>7, <2>1, <2>4
  <2>6. r[1].sacked_past = q[1].sacked_past + Past(1)
    BY <1>8, <1>11, <2>1, <2>2
  <2> QED BY <2>5, <2>6
<1>16. Len(d.inflight) <= n /\ (Len(d.inflight) = n => d.inflight = q) /\ (Len(d.inflight) # n => m # n)
  BY <1>4, <1>6, <1>11, <1>13
<1>17. Pruned(c, d)
  BY <1>4, <1>12, <1>16 DEF Pruned, q, n
<1> QED BY <1>4, <1>14, <1>15, <1>16, <1>17 DEF q, n

-----------------------------------------------------------------------------
(* Cuts and retransmissions.                                                *)

\* The packets that d has in flight are those of c, number by number.
SameSeqs(c, d) ==
  /\ Len(d.inflight) = Len(c.inflight)
  /\ \A k \in 1 .. Len(c.inflight) : d.inflight[k].seq = c.inflight[k].seq

\* A loss cuts the window, unless a cut covers the front already.
Cut(c, d) ==
  IF AlreadyCut(c) THEN SameCut(c, d)
  ELSE d.cuts = c.cuts + 1 /\ d.cut_valid /\ d.cut_seq = Plus(c.seq_nr, -1)

LEMMA CutIs ==
  ASSUME NEW c, Fits(c), NEW d, d = cut_window(c)
  PROVE  Fits(d) /\ d.inflight = c.inflight /\ SameCounts(c, d) /\ Cut(c, d)
<1> DEFINE w == clamp_cwnd(c.cwnd \div 2)
           u == IF c.slow_start THEN w ELSE c.ssthres
           k == c.cuts + 1
           n == Plus(c.seq_nr, -1)
<1>1. Fits(d) /\ d.inflight = c.inflight
  BY CutKeeps DEF Kept
<1>2. CASE AlreadyCut(c)
  <2>1. d = c
    BY <1>2 DEF cut_window
  <2> QED BY <1>1, <1>2, <2>1 DEF SameCounts, Cut, SameCut
<1>3. CASE ~AlreadyCut(c)
  <2>1. d = [c EXCEPT !.cwnd = w, !.slow_start = FALSE, !.ssthres = u, !.cut_seq = n, !.cut_valid = TRUE, !.cuts = k]
    BY <1>3 DEF cut_window
  <2>2. c \in Conn
    BY DEF Fits
  <2> HIDE DEF w, u, k, n
  <2>3. /\ d.cuts = k /\ d.cut_valid /\ d.cut_seq = n
        /\ d.seq_nr = c.seq_nr /\ d.dup_acks = c.dup_acks /\ d.last_ack_seen = c.last_ack_seen
        /\ d.out_frames = c.out_frames
    BY <2>1, <2>2 DEF Conn
  <2> QED BY <1>1, <1>3, <2>3 DEF SameCounts, Cut, k, n
<1> QED BY <1>2, <1>3

\* What is sent again counts a transmission more, and nothing else changes.
LEMMA RetransmitIs ==
  ASSUME NEW c, Fits(c), NEW I \in SUBSET (1 .. Len(c.inflight)), NEW d, d = retransmit(c, I)
  PROVE  /\ Fits(d) /\ SameSeqs(c, d) /\ SameCut(c, d)
         /\ d.seq_nr = c.seq_nr /\ d.dup_acks = c.dup_acks /\ d.last_ack_seen = c.last_ack_seen
         /\ \A k \in 1 .. Len(c.inflight) :
              /\ d.inflight[k].sacked_past = c.inflight[k].sacked_past
              /\ d.inflight[k].transmissions = IF k \in I THEN c.inflight[k].transmissions + 1
                                               ELSE c.inflight[k].transmissions
         /\ \A f \in d.out_frames : f \in c.out_frames \/ f.seq \in Seqs(c)
<1> DEFINE q == c.inflight
           n == Len(q)
           Again(i) == [q[i] EXCEPT !.transmissions = @ + IF i \in I THEN 1 ELSE 0]
           r == [i \in DOMAIN q |-> Again(i)]
           F == c.out_frames \cup {[seq |-> q[i].seq, nth |-> q[i].transmissions + 1] : i \in I}
           t == IF I = {} THEN c.idle ELSE 0
<1>1. /\ c \in Conn /\ n \in Nat /\ DOMAIN q = 1 .. n
      /\ \A i \in 1 .. n : q[i] \in InflightPkt /\ q[i].transmissions \in Nat
  BY PacketsOf
<1>2. d = [c EXCEPT !.inflight = r, !.idle = t, !.out_frames = F]
  BY DEF retransmit
<1>3. \A i \in 1 .. n : /\ r[i].seq = q[i].seq /\ r[i].sacked_past = q[i].sacked_past
                        /\ r[i].transmissions = IF i \in I THEN q[i].transmissions + 1 ELSE q[i].transmissions
  <2>1. SUFFICES ASSUME NEW i \in 1 .. n
                 PROVE  /\ r[i].seq = q[i].seq /\ r[i].sacked_past = q[i].sacked_past
                        /\ r[i].transmissions = IF i \in I THEN q[i].transmissions + 1 ELSE q[i].transmissions
    OBVIOUS
  <2> DEFINE k == q[i].transmissions + IF i \in I THEN 1 ELSE 0
  <2>2. q[i] \in InflightPkt /\ r[i] = [q[i] EXCEPT !.transmissions = k]
        /\ k = IF i \in I THEN q[i].transmissions + 1 ELSE q[i].transmissions
    BY <1>1
  <2> HIDE DEF k, r, q
  <2> QED BY <2>2 DEF InflightPkt
<1>4. Fits(d) /\ Len(d.inflight) = n
  BY RetransmitKeeps DEF Kept
<1> HIDE DEF r, F, t, Again
<1>5. /\ d.inflight = r /\ d.out_frames = F /\ d.cut_seq = c.cut_seq /\ d.cut_valid = c.cut_valid /\ d.cuts = c.cuts
      /\ d.seq_nr = c.seq_nr /\ d.dup_acks = c.dup_acks /\ d.last_ack_seen = c.last_ack_seen
  BY <1>1, <1>2 DEF Conn
<1>6. SameSeqs(c, d)
  BY <1>3, <1>4, <1>5 DEF SameSeqs
<1>7. \A f \in F : f \in c.out_frames \/ f.seq \in Seqs(c)
  <2>1. \A i \in I : q[i].seq \in Seqs(c)
    BY SeqsAre
  <2> QED BY <2>1 DEF F
<1> QED BY <1>3, <1>4, <1>5, <1>6, <1>7 DEF SameCut

\* The handlers that send packets again: a cut, or nothing sent.
Resends(c, d) ==
  /\ Fits(d) /\ SameSeqs(c, d) /\ d.seq_nr = c.seq_nr /\ d.last_ack_seen = c.last_ack_seen
  /\ \/ c.inflight # <<>> /\ Cut(c, d)
     \/ /\ SameCut(c, d)
        /\ \A k \in 1 .. Len(c.inflight) : d.inflight[k].transmissions = c.inflight[k].transmissions
  /\ \A f \in d.out_frames : f \in c.out_frames \/ f.seq \in Seqs(c)

\* The packets taken for lost.
LEMMA ResendLostIs ==
  ASSUME NEW c, Fits(c), NEW d, d = ResendLost(c)
  PROVE  /\ Resends(c, d) /\ d.dup_acks = c.dup_acks
         /\ \A k \in 1 .. Len(c.inflight) :
              /\ d.inflight[k].sacked_past < DupAckThreshold
              /\ c.inflight[k].sacked_past < DupAckThreshold => d.inflight[k].sacked_past = c.inflight[k].sacked_past
              /\ c.inflight[k].sacked_past >= DupAckThreshold
                   => d.inflight[k].transmissions = c.inflight[k].transmissions + 1
         /\ (\A k \in 1 .. Len(c.inflight) : c.inflight[k].sacked_past < DupAckThreshold) => d = c
<1> DEFINE q == c.inflight
           n == Len(q)
           lost == {i \in DOMAIN q : q[i].sacked_past >= DupAckThreshold}
           Recount(i) == [q[i] EXCEPT !.sacked_past = IF i \in lost THEN 0 ELSE @]
           r == [i \in DOMAIN q |-> Recount(i)]
           b == cut_window(c)
           e == [b EXCEPT !.inflight = r]
<1>1. /\ c \in Conn /\ n \in Nat /\ DOMAIN q = 1 .. n
      /\ \A i \in 1 .. n : q[i] \in InflightPkt /\ q[i].transmissions \in Nat /\ q[i].sacked_past \in Nat
  BY PacketsOf
<1>2. DupAckThreshold \in Nat \ {0}
  BY WindowAssumption
<1>3. d = IF lost = {} THEN c ELSE retransmit(e, lost)
  BY DEF ResendLost
<1>4. lost \subseteq 1 .. n /\ \A i \in 1 .. n : i \in lost <=> ~(q[i].sacked_past < DupAckThreshold)
  BY <1>1, <1>2
<1> HIDE DEF lost
<1>5. Fits(b) /\ b.inflight = q /\ SameCounts(c, b) /\ Cut(c, b)
  BY CutIs
<1> HIDE DEF b
<1>6. \A i \in 1 .. n : /\ r[i] \in InflightPkt /\ r[i].seq = q[i].seq /\ r[i].transmissions = q[i].transmissions
                        /\ r[i].sacked_past = IF i \in lost THEN 0 ELSE q[i].sacked_past
  <2>1. SUFFICES ASSUME NEW i \in 1 .. n
                 PROVE  /\ r[i] \in InflightPkt /\ r[i].seq = q[i].seq /\ r[i].transmissions = q[i].transmissions
                        /\ r[i].sacked_past = IF i \in lost THEN 0 ELSE q[i].sacked_past
    OBVIOUS
  <2> DEFINE k == IF i \in lost THEN 0 ELSE q[i].sacked_past
  <2>2. q[i] \in InflightPkt /\ r[i] = [q[i] EXCEPT !.sacked_past = k] /\ k \in Nat
    BY <1>1
  <2>3. k = IF i \in lost THEN 0 ELSE q[i].sacked_past
    OBVIOUS
  <2> HIDE DEF k, r, q
  <2>4. r[i] \in InflightPkt /\ r[i].seq = q[i].seq /\ r[i].transmissions = q[i].transmissions /\ r[i].sacked_past = k
    BY <2>2 DEF InflightPkt
  <2> QED BY <2>3, <2>4
<1>7. r \in Seq(InflightPkt) /\ Len(r) = n
  <2>1. r \in [1 .. n -> InflightPkt]
    BY <1>1, <1>6
  <2> HIDE DEF r, n
  <2> QED BY <1>1, <2>1
<1> HIDE DEF r, Recount
<1>8. e.inflight = r /\ SameCounts(b, e) /\ SameCut(b, e) /\ Fits(e)
  BY <1>5, <1>7, OtherInflight
<1> HIDE DEF e
<1>9. CASE lost = {}
  <2>1. d = c /\ \A i \in 1 .. n : q[i].sacked_past < DupAckThreshold
    BY <1>3, <1>4, <1>9
  <2>2. Resends(c, d)
    BY <2>1 DEF Resends, SameSeqs, SameCut
  <2>3. \A k \in 1 .. n : ~(q[k].sacked_past >= DupAckThreshold)
    BY <1>1, <1>2, <2>1
  <2> HIDE DEF e, b
  <2> QED BY <2>1, <2>2, <2>3
<1>10. CASE lost # {}
  <2>1. d = retransmit(e, lost) /\ lost \in SUBSET (1 .. Len(e.inflight))
    BY <1>3, <1>4, <1>7, <1>8, <1>10
  <2>2. /\ Fits(d) /\ SameSeqs(e, d) /\ SameCut(e, d)
        /\ d.seq_nr = e.seq_nr /\ d.dup_acks = e.dup_acks /\ d.last_ack_seen = e.last_ack_seen
        /\ \A k \in 1 .. Len(e.inflight) :
             /\ d.inflight[k].sacked_past = e.inflight[k].sacked_past
             /\ d.inflight[k].transmissions = IF k \in lost THEN e.inflight[k].transmissions + 1
                                              ELSE e.inflight[k].transmissions
        /\ \A f \in d.out_frames : f \in e.out_frames \/ f.seq \in Seqs(e)
    BY <1>8, <2>1, RetransmitIs
  <2>3. /\ Len(d.inflight) = n /\ Len(e.inflight) = n
        /\ \A k \in 1 .. n : d.inflight[k].seq = q[k].seq
    BY <1>6, <1>7, <1>8, <2>2 DEF SameSeqs
  <2>4. \A k \in 1 .. n : /\ d.inflight[k].sacked_past = IF k \in lost THEN 0 ELSE q[k].sacked_past
                          /\ k \in lost => d.inflight[k].transmissions = q[k].transmissions + 1
    BY <1>6, <1>8, <2>2, <2>3
  <2>5. d.seq_nr = c.seq_nr /\ d.dup_acks = c.dup_acks /\ d.last_ack_seen = c.last_ack_seen
        /\ e.out_frames = c.out_frames
    BY <1>5, <1>8, <2>2 DEF SameCounts
  <2>6. Cut(c, d)
    BY <1>5, <1>8, <2>2 DEF Cut, SameCut
  <2>7. Seqs(e) = Seqs(c)
    <3>1. Seqs(e) = {e.inflight[i].seq : i \in 1 .. n}
      BY <1>8, <2>3, SeqsAre
    <3>2. Seqs(c) = {q[i].seq : i \in 1 .. n}
      BY SeqsAre
    <3>3. \A i \in 1 .. n : e.inflight[i].seq = q[i].seq
      BY <1>6, <1>8
    <3> QED BY <3>1, <3>2, <3>3
  <2>8. q # <<>>
    <3>1. PICK i \in 1 .. n : i \in lost
      BY <1>4, <1>10
    <3>2. n # 0
      BY <1>1, <3>1
    <3>3. q = <<>> => n = 0
      OBVIOUS
    <3> QED BY <3>2, <3>3
  <2>9. SameSeqs(c, d)
    BY <2>3 DEF SameSeqs
  <2>10. Resends(c, d)
    BY <2>2, <2>5, <2>6, <2>7, <2>8, <2>9 DEF Resends
  <2>11. \E k \in 1 .. n : ~(q[k].sacked_past < DupAckThreshold)
    BY <1>4, <1>10
  <2>12. \A k \in 1 .. n :
           /\ d.inflight[k].sacked_past < DupAckThreshold
           /\ q[k].sacked_past < DupAckThreshold => d.inflight[k].sacked_past = q[k].sacked_past
           /\ q[k].sacked_past >= DupAckThreshold => d.inflight[k].transmissions = q[k].transmissions + 1
    BY <1>1, <1>2, <1>4, <2>4
  <2> QED BY <2>5, <2>10, <2>11, <2>12
<1> QED BY <1>9, <1>10

\* A repeated acknowledgement is counted, or sends the front again.
LEMMA RepeatedIs ==
  ASSUME NEW c, Fits(c), c.inflight # <<>>, NEW d, d = Repeated(c)
  PROVE  /\ Resends(c, d) /\ d.dup_acks < DupAckThreshold
         /\ \A k \in 1 .. Len(c.inflight) : d.inflight[k].sacked_past = c.inflight[k].sacked_past
         /\ \/ d.dup_acks = c.dup_acks + 1
            \/ d.inflight[1].transmissions = c.inflight[1].transmissions + 1
<1> DEFINE u == [c EXCEPT !.dup_acks = c.dup_acks + 1]
           z == [c EXCEPT !.dup_acks = 0]
           b == cut_window(z)
<1>1. c \in Conn /\ c.inflight \in Seq(InflightPkt) /\ c.dup_acks \in Nat
  BY DEF Fits, Conn
<1>2. d = IF c.dup_acks + 1 < DupAckThreshold THEN u ELSE retransmit(b, {1})
  BY DEF Repeated
<1>3. /\ Fits(z) /\ z.inflight = c.inflight /\ SameCut(c, z) /\ z.dup_acks = 0
      /\ z.seq_nr = c.seq_nr /\ z.last_ack_seen = c.last_ack_seen /\ z.out_frames = c.out_frames
  <2>1. c.idle \in Nat /\ c.timeout \in Nat /\ c.last_ack_seen \in Uint16 /\ 0 \in Nat
    BY <1>1 DEF Conn
  <2>2. Fits(z)
    BY <2>1, OtherFields DEF Kept
  <2> QED BY <1>1, <2>2 DEF Conn, SameCut
<1>4. /\ Fits(u) /\ u.inflight = c.inflight /\ SameCut(c, u) /\ u.dup_acks = c.dup_acks + 1
      /\ u.seq_nr = c.seq_nr /\ u.last_ack_seen = c.last_ack_seen /\ u.out_frames = c.out_frames
  <2>1. c.idle \in Nat /\ c.timeout \in Nat /\ c.last_ack_seen \in Uint16 /\ c.dup_acks + 1 \in Nat
    BY <1>1 DEF Conn
  <2>2. Fits(u)
    BY <2>1, OtherFields DEF Kept
  <2> QED BY <1>1, <2>2 DEF Conn, SameCut
<1> HIDE DEF u, z
<1>5. Fits(b) /\ b.inflight = z.inflight /\ SameCounts(z, b) /\ Cut(z, b)
  BY <1>3, CutIs
<1>6. Cut(c, b)
  BY <1>3, <1>5 DEF Cut, SameCut, AlreadyCut
<1> HIDE DEF b
<1>7. CASE c.dup_acks + 1 < DupAckThreshold
  <2>1. d = u
    BY <1>2, <1>7
  <2>2. Resends(c, d)
    BY <1>4, <2>1 DEF Resends, SameSeqs
  <2> QED BY <1>4, <1>7, <2>1, <2>2
<1>8. CASE ~(c.dup_acks + 1 < DupAckThreshold)
  <2>1. b.inflight = c.inflight /\ b.seq_nr = c.seq_nr /\ b.dup_acks = 0 /\ b.last_ack_seen = c.last_ack_seen
        /\ b.out_frames = c.out_frames
    BY <1>3, <1>5 DEF SameCounts
  <2>2. 1 \in 1 .. Len(c.inflight) /\ {1} \in SUBSET (1 .. Len(b.inflight)) /\ d = retransmit(b, {1})
    BY <1>1, <1>2, <1>8, <2>1, FirstIndex
  <2>3. /\ Fits(d) /\ SameSeqs(b, d) /\ SameCut(b, d)
        /\ d.seq_nr = b.seq_nr /\ d.dup_acks = b.dup_acks /\ d.last_ack_seen = b.last_ack_seen
        /\ \A k \in 1 .. Len(b.inflight) :
             /\ d.inflight[k].sacked_past = b.inflight[k].sacked_past
             /\ d.inflight[k].transmissions = IF k \in {1} THEN b.inflight[k].transmissions + 1
                                              ELSE b.inflight[k].transmissions
        /\ \A f \in d.out_frames : f \in b.out_frames \/ f.seq \in Seqs(b)
    BY <1>5, <2>2, RetransmitIs
  <2>4. Seqs(b) = Seqs(c)
    BY <2>1 DEF Seqs
  <2>5. SameSeqs(c, d) /\ Cut(c, d)
    BY <1>6, <2>1, <2>3 DEF SameSeqs, Cut, SameCut
  <2>6. Resends(c, d)
    BY <2>1, <2>3, <2>4, <2>5 DEF Resends
  <2>7. 0 < DupAckThreshold
    BY WindowAssumption
  <2> QED BY <2>1, <2>2, <2>3, <2>6, <2>7
<1> QED BY <1>7, <1>8

\* An acknowledgement that takes nothing.
LEMMA NoProgressIs ==
  ASSUME NEW c, Fits(c), BelowThreshold(c), NEW pkt \in AckFrame, NEW d, d = NoProgress(c, pkt)
  PROVE  /\ Resends(c, d) /\ BelowThreshold(d)
         /\ \A k \in 1 .. Len(c.inflight) : d.inflight[k].sacked_past = c.inflight[k].sacked_past
         /\ c.inflight # <<>> /\ pkt.ack_nr = c.last_ack_seen =>
              \/ d.dup_acks = c.dup_acks + 1
              \/ d.inflight[1].transmissions = c.inflight[1].transmissions + 1
<1> DEFINE z == [c EXCEPT !.dup_acks = 0]
<1>1. CASE pkt.ack_nr = c.last_ack_seen /\ c.inflight # <<>>
  <2>1. d = Repeated(c)
    BY <1>1 DEF NoProgress
  <2>2. /\ Resends(c, d) /\ d.dup_acks < DupAckThreshold
        /\ \A k \in 1 .. Len(c.inflight) : d.inflight[k].sacked_past = c.inflight[k].sacked_past
        /\ \/ d.dup_acks = c.dup_acks + 1
           \/ d.inflight[1].transmissions = c.inflight[1].transmissions + 1
    BY <1>1, <2>1, RepeatedIs
  <2>3. BelowThreshold(d)
    BY <2>2 DEF BelowThreshold, Resends, SameSeqs
  <2> QED BY <2>2, <2>3
<1>2. CASE ~(pkt.ack_nr = c.last_ack_seen /\ c.inflight # <<>>)
  <2>1. d = z
    BY <1>2 DEF NoProgress
  <2>2. c \in Conn
    BY DEF Fits
  <2>3. /\ Fits(z) /\ z.inflight = c.inflight /\ SameCut(c, z) /\ z.dup_acks = 0
        /\ z.seq_nr = c.seq_nr /\ z.last_ack_seen = c.last_ack_seen /\ z.out_frames = c.out_frames
    <3>1. c.idle \in Nat /\ c.timeout \in Nat /\ c.last_ack_seen \in Uint16 /\ 0 \in Nat
      BY <2>2 DEF Conn
    <3>2. Fits(z)
      BY <3>1, OtherFields DEF Kept
    <3> QED BY <2>2, <3>2 DEF Conn, SameCut
  <2> HIDE DEF z
  <2>4. Resends(c, d)
    BY <2>1, <2>3 DEF Resends, SameSeqs
  <2>5. BelowThreshold(d)
    <3>1. 0 < DupAckThreshold
      BY WindowAssumption
    <3> QED BY <2>1, <2>3, <3>1 DEF BelowThreshold
  <2> QED BY <1>2, <2>1, <2>3, <2>4, <2>5
<1> QED BY <1>1, <1>2

-----------------------------------------------------------------------------
(* What a handler does to the numbers.                                      *)

\* Nothing but what was sent was in flight at the last cut.
CutKnown(c) == c.cut_valid => Position(c.cut_seq) < Position(c.seq_nr)

\* The window is cut, and nothing in flight was in flight at the cut before.
CutsNow(c, d) ==
  /\ d.cuts = c.cuts + 1 /\ d.cut_valid /\ d.cut_seq = Plus(c.seq_nr, -1)
  /\ c.cut_valid => \A s \in Seqs(d) : Position(s) > Position(c.cut_seq)

\* The front was in flight at the last cut.
StillCut(c, d) ==
  /\ c.cut_valid /\ d.inflight # <<>>
  /\ d.inflight[1].seq \in Seqs(c) /\ Position(d.inflight[1].seq) <= Position(c.cut_seq)

Resent(c, d) ==
  \E i \in 1 .. Len(c.inflight), j \in 1 .. Len(d.inflight) :
    /\ c.inflight[i].seq = d.inflight[j].seq
    /\ c.inflight[i].transmissions < d.inflight[j].transmissions

\* A step makes d of c.
Steps(c, d) ==
  /\ Rising(d) /\ Position(c.seq_nr) <= Position(d.seq_nr)
  /\ \A s \in Seqs(d) : s \in Seqs(c) \/ Position(s) >= Position(c.seq_nr)
  /\ SameCut(c, d) \/ CutsNow(c, d)
  /\ \A f \in d.out_frames : Position(f.seq) > 0 /\ Position(f.seq) < Position(d.seq_nr)

\* And nothing is sent again without a cut.
Handled(c, d) == Steps(c, d) /\ (Resent(c, d) => CutsNow(c, d) \/ StillCut(c, d))

\* Places are numbers.
LEMMA PlacesAre ==
  ASSUME NEW c, Fits(c)
  PROVE  /\ Position(c.seq_nr) \in Nat /\ Position(c.cut_seq) \in Nat
         /\ \A i \in 1 .. Len(c.inflight) : Position(c.inflight[i].seq) \in Nat
         /\ \A s \in Seqs(c) : s \in Uint16 /\ Position(s) \in Nat
<1>1. c.cut_seq \in Uint16 /\ c.seq_nr \in Uint16
  BY DEF Fits, Conn
<1>2. \A i \in 1 .. Len(c.inflight) : c.inflight[i].seq \in Uint16
  BY PacketsOf
<1>3. Seqs(c) \subseteq Uint16
  BY SeqsType
<1> QED BY <1>1, <1>2, <1>3, PositionIs

\* The packets in flight have different numbers, and the front the first.
LEMMA FrontFirst ==
  ASSUME NEW c, Fits(c), Rising(c)
  PROVE  /\ \A i, j \in 1 .. Len(c.inflight) : c.inflight[i].seq = c.inflight[j].seq => i = j
         /\ \A s \in Seqs(c) : /\ Position(s) > 0 /\ Position(s) < Position(c.seq_nr)
                               /\ Position(s) >= Position(c.inflight[1].seq)
<1> DEFINE q == c.inflight
           n == Len(q)
<1>1. \A i \in 1 .. n : Position(q[i].seq) \in Nat /\ Position(q[i].seq) > 0 /\ Position(q[i].seq) < Position(c.seq_nr)
  BY PlacesAre DEF Rising
<1>2. \A i, j \in 1 .. n : i < j => Position(q[i].seq) < Position(q[j].seq)
  BY DEF Rising
<1>3. n \in Nat /\ Seqs(c) = {q[i].seq : i \in 1 .. n}
  BY PacketsOf, SeqsAre
<1> HIDE DEF q, n
<1>4. \A i, j \in 1 .. n : q[i].seq = q[j].seq => i = j
  <2>1. SUFFICES ASSUME NEW i \in 1 .. n, NEW j \in 1 .. n, q[i].seq = q[j].seq PROVE i = j
    OBVIOUS
  <2>2. Position(q[i].seq) = Position(q[j].seq) /\ Position(q[i].seq) \in Nat
    BY <1>1, <2>1
  <2>3. ~(i < j) /\ ~(j < i)
    BY <1>2, <2>2
  <2> QED BY <2>3
<1>5. \A i \in 1 .. n : Position(q[i].seq) >= Position(q[1].seq)
  <2>1. SUFFICES ASSUME NEW i \in 1 .. n PROVE Position(q[i].seq) >= Position(q[1].seq)
    OBVIOUS
  <2>2. 1 \in 1 .. n /\ (i = 1 \/ 1 < i)
    BY <1>3
  <2> QED BY <1>1, <1>2, <2>2
<1> QED BY <1>1, <1>3, <1>4, <1>5 DEF q, n

LEMMA ResendsHandled ==
  ASSUME NEW c, Fits(c), FewUsed(c), Rising(c), CutKnown(c), c.out_frames = {},
         NEW d, Resends(c, d)
  PROVE  Handled(c, d) /\ Seqs(d) = Seqs(c)
<1> DEFINE q == c.inflight
           n == Len(q)
<1>1. /\ Fits(d) /\ d.seq_nr = c.seq_nr /\ Len(d.inflight) = n
      /\ \A k \in 1 .. n : d.inflight[k].seq = q[k].seq
  BY DEF Resends, SameSeqs
<1>2. Seqs(d) = Seqs(c)
  <2>1. Seqs(d) = {d.inflight[i].seq : i \in 1 .. n}
    BY <1>1, SeqsAre
  <2>2. Seqs(c) = {q[i].seq : i \in 1 .. n}
    BY SeqsAre
  <2> HIDE DEF q, n
  <2> QED BY <1>1, <2>1, <2>2
<1>3. Rising(d)
  BY <1>1 DEF Rising
<1>4. /\ \A i, j \in 1 .. n : q[i].seq = q[j].seq => i = j
      /\ \A s \in Seqs(c) : /\ Position(s) \in Nat /\ Position(s) > 0 /\ Position(s) < Position(c.seq_nr)
                            /\ Position(s) >= Position(q[1].seq)
  BY FrontFirst, PlacesAre
<1>5. \A f \in d.out_frames : Position(f.seq) > 0 /\ Position(f.seq) < Position(d.seq_nr)
  <2>1. \A f \in d.out_frames : f.seq \in Seqs(c)
    BY DEF Resends
  <2> QED BY <1>1, <1>4, <2>1
<1>6. Position(c.seq_nr) <= Position(d.seq_nr)
  <2>1. Position(c.seq_nr) \in Nat
    BY PlacesAre
  <2> QED BY <1>1, <2>1
<1>7. CASE q # <<>> /\ Cut(c, d)
  <2>1. q \in Seq(InflightPkt) /\ c.cut_seq \in Uint16
    BY DEF Fits, Conn
  <2>2. 1 \in 1 .. n /\ d.inflight # <<>>
    <3>1. 1 \in 1 .. n /\ n # 0
      BY <1>7, <2>1, FirstIndex
    <3>2. d.inflight = <<>> => Len(d.inflight) = 0
      OBVIOUS
    <3> QED BY <1>1, <3>1, <3>2
  <2> DEFINE x == q[1].seq
             y == c.cut_seq
  <2>3. x \in Seqs(c) /\ x \in Uint16 /\ d.inflight[1].seq = x
    BY <1>1, <2>2, SeqsAre, PacketsOf
  <2>4. Position(x) \in Nat /\ Position(y) \in Nat /\ Position(c.seq_nr) \in Nat
    BY <2>1, <2>3, PlacesAre
  <2> HIDE DEF x, y
  <2>5. c.cut_valid => seq_diff(y, x) = Position(y) - Position(x)
    <3>1. SUFFICES ASSUME c.cut_valid PROVE seq_diff(y, x) = Position(y) - Position(x)
      OBVIOUS
    <3>2. Position(y) < Position(c.seq_nr) /\ Position(x) < Position(c.seq_nr) /\ 2 * Position(c.seq_nr) < SeqMod
      BY <1>4, <2>3, <3>1 DEF CutKnown, FewUsed, y
    <3>3. 2 * Position(y) < SeqMod /\ 2 * Position(x) < SeqMod
      BY <2>4, <3>2, FirstSeqIs
    <3> QED BY <2>1, <2>3, <3>3, PositionDiff DEF y
  <2>6. CASE AlreadyCut(c)
    <3>1. c.cut_valid /\ seq_diff(y, x) >= 0 /\ SameCut(c, d)
      BY <1>7, <2>6 DEF AlreadyCut, Cut, x, y
    <3>2. Position(x) <= Position(y)
      BY <2>4, <2>5, <3>1
    <3>3. StillCut(c, d)
      BY <2>2, <2>3, <3>1, <3>2 DEF StillCut, y
    <3> QED BY <1>1, <1>2, <1>3, <1>5, <1>6, <3>1, <3>3 DEF Handled, Steps
  <2>7. CASE ~AlreadyCut(c)
    <3>1. /\ d.cuts = c.cuts + 1 /\ d.cut_valid /\ d.cut_seq = Plus(c.seq_nr, -1)
          /\ c.cut_valid => ~(seq_diff(y, x) >= 0)
      BY <1>7, <2>7 DEF AlreadyCut, Cut, x, y
    <3>2. c.cut_valid => Position(x) > Position(y)
      BY <2>4, <2>5, <3>1
    <3>3. c.cut_valid => \A s \in Seqs(d) : Position(s) > Position(y)
      <4>1. SUFFICES ASSUME c.cut_valid, NEW s \in Seqs(d) PROVE Position(s) > Position(y)
        OBVIOUS
      <4>2. Position(s) \in Nat /\ Position(s) >= Position(x)
        BY <1>2, <1>4 DEF x
      <4> QED BY <2>4, <3>2, <4>1, <4>2
    <3>4. CutsNow(c, d)
      BY <3>1, <3>3 DEF CutsNow, y
    <3> QED BY <1>1, <1>2, <1>3, <1>5, <1>6, <3>4 DEF Handled, Steps
  <2> QED BY <2>6, <2>7
<1>8. CASE /\ SameCut(c, d)
           /\ \A k \in 1 .. n : d.inflight[k].transmissions = q[k].transmissions
  <2>1. \A k \in 1 .. n : q[k].transmissions \in Nat
    BY PacketsOf
  <2>2. ~Resent(c, d)
    <3>1. SUFFICES ASSUME NEW i \in 1 .. n, NEW j \in 1 .. n, q[i].seq = d.inflight[j].seq,
                          q[i].transmissions < d.inflight[j].transmissions
                   PROVE  FALSE
      BY <1>1 DEF Resent
    <3>2. i = j
      BY <1>1, <1>4, <3>1
    <3> QED BY <1>8, <2>1, <3>1, <3>2
  <2> QED BY <1>1, <1>2, <1>3, <1>5, <1>6, <1>8, <2>2 DEF Handled, Steps
<1>9. \/ q # <<>> /\ Cut(c, d)
      \/ /\ SameCut(c, d)
         /\ \A k \in 1 .. n : d.inflight[k].transmissions = q[k].transmissions
  BY DEF Resends
<1> QED BY <1>2, <1>7, <1>8, <1>9

\* Nothing that the numbers depend on changes.
Quiet(c, d) ==
  d.inflight = c.inflight /\ d.seq_nr = c.seq_nr /\ d.out_frames = c.out_frames /\ SameCut(c, d)

\* What d sent after c is in flight.
Filled(c, d) ==
  \A s \in Uint16 : Position(c.seq_nr) <= Position(s) /\ Position(s) < Position(d.seq_nr) => s \in Seqs(d)

\* What packetize adds comes after what was sent.
Extends(c, d) ==
  /\ Rising(d) /\ SameCut(c, d) /\ Position(c.seq_nr) <= Position(d.seq_nr)
  /\ Len(c.inflight) <= Len(d.inflight)
  /\ \A k \in 1 .. Len(c.inflight) : d.inflight[k] = c.inflight[k]
  /\ \A k \in 1 .. Len(d.inflight) :
       k > Len(c.inflight) => Position(d.inflight[k].seq) >= Position(c.seq_nr) /\ d.inflight[k].sacked_past = 0
  /\ \A f \in d.out_frames : f \in c.out_frames \/ (Position(f.seq) >= Position(c.seq_nr)
                                                     /\ Position(f.seq) < Position(d.seq_nr))
  /\ d.dup_acks = c.dup_acks /\ d.last_ack_seen = c.last_ack_seen
  /\ Filled(c, d)

LEMMA PacketizeExtends ==
  ASSUME NEW s \in Seq(PayloadSizes), NEW c, Streams(c, s), Rising(c), 2 * Position(c.seq_nr) < SeqMod,
         NEW d, d = packetize(c), 2 * Len(d.inflight) < SeqMod
  PROVE  Extends(c, d)
<1> DEFINE b == Admitted(c)
           n == (b + Mtu - 1) \div Mtu
           ps == Packets(c)
           q == c.inflight
           x == Position(c.seq_nr)
<1>1. /\ Fits(c) /\ c \in Conn /\ WaitsFrom(c, s, Len(s) - Len(c.pending)) /\ q \in Seq(InflightPkt)
      /\ c.pending \in Seq(Waiting) /\ c.seq_nr \in Uint16 /\ x \in Nat
  BY PlacesAre DEF Streams, Fits, Conn, Waiting
<1>2. SeqMod \in Nat /\ 2 * x < SeqMod /\ x > 0 /\ 2 * Len(d.inflight) < SeqMod
  BY FirstSeqIs DEF Rising
<1>3. CASE b = 0
  <2>1. d = c
    BY <1>3 DEF packetize
  <2>2. Len(q) \in Nat
    BY <1>1
  <2>3. Filled(c, d)
    <3>1. \A t \in Uint16 : Position(t) \in Nat
      BY PositionIs
    <3> QED BY <1>1, <2>1, <3>1 DEF Filled
  <2> QED BY <1>1, <2>1, <2>2, <2>3 DEF Extends, SameCut
<1>4. CASE b # 0
  <2>1. Len(c.pending) \in 0 .. Len(c.pending)
    BY <1>1
  <2>2. b \in Nat \ {0}
    <3>1. WaitingUntil(c, Len(c.pending)) \in Nat
      BY <1>1, <2>1, WaitingIs
    <3>2. b \in 0 .. WaitingUntil(c, Len(c.pending))
      BY <1>1, AdmittedIs
    <3> HIDE DEF b
    <3> QED BY <1>4, <3>1, <3>2
  <2>3. n \in Nat \ {0}
    <3> HIDE DEF b
    <3> QED BY <2>2, CutsAre
  <2> DEFINE F == c.out_frames \cup {[seq |-> Plus(c.seq_nr, i - 1), nth |-> 1] : i \in 1 .. n}
  <2>4. d = [c EXCEPT !.pending = Remaining(c, b), !.inflight = q \o ps, !.seq_nr = Plus(c.seq_nr, n),
                      !.offset = c.offset + b, !.idle = 0, !.out_frames = F]
    BY <1>1, <1>4, PacketizeIs
  <2>5. ps \in Seq(InflightPkt)
    BY <1>1, <1>4, PacketsAre
  <2>6. /\ DOMAIN ps = 1 .. n
        /\ \A i \in 1 .. n : ps[i].seq = Plus(c.seq_nr, i - 1) /\ ps[i].sacked_past = 0
    BY DEF Packets
  <2> HIDE DEF b, n, ps, F
  <2>7. /\ d.inflight = q \o ps /\ d.seq_nr = Plus(c.seq_nr, n) /\ d.out_frames = F
        /\ d.cut_seq = c.cut_seq /\ d.cut_valid = c.cut_valid /\ d.cuts = c.cuts
        /\ d.dup_acks = c.dup_acks /\ d.last_ack_seen = c.last_ack_seen
    BY <1>1, <2>4 DEF Conn
  <2>8. Len(ps) = n
    BY <2>3, <2>5, <2>6
  <2>9. /\ Len(d.inflight) = Len(q) + n /\ Len(q) \in Nat
        /\ \A i \in 1 .. Len(q) + n : d.inflight[i] = IF i <= Len(q) THEN q[i] ELSE ps[i - Len(q)]
    <3>1. /\ Len(q \o ps) = Len(q) + Len(ps) /\ Len(q) \in Nat
          /\ \A i \in 1 .. Len(q) + Len(ps) : (q \o ps)[i] = IF i <= Len(q) THEN q[i] ELSE ps[i - Len(q)]
      BY <1>1, <2>5, ConcatIs
    <3> DEFINE r == q \o ps
    <3>2. d.inflight = r /\ Len(ps) = n
      BY <2>7, <2>8
    <3> HIDE DEF r, q
    <3> QED BY <3>1, <3>2 DEF r
  <2> DEFINE l == Len(q)
  <2> HIDE DEF q, l, x
  <2>10. x + n < SeqMod /\ l \in Nat /\ Len(d.inflight) = l + n
    <3>1. l \in Nat /\ Len(d.inflight) = l + n
      BY <2>9 DEF l
    <3> QED BY <1>1, <1>2, <2>3, <3>1
  <2>11. \A i \in 0 .. n : Plus(c.seq_nr, i) \in Uint16 /\ Position(Plus(c.seq_nr, i)) = x + i
    <3>1. SUFFICES ASSUME NEW i \in 0 .. n PROVE Plus(c.seq_nr, i) \in Uint16 /\ Position(Plus(c.seq_nr, i)) = x + i
      OBVIOUS
    <3>2. i \in Int /\ 0 <= x + i /\ x + i < SeqMod
      BY <1>1, <1>2, <2>3, <2>10
    <3> QED BY <1>1, <3>2, PositionPlus DEF x
  <2>12. Position(d.seq_nr) = x + n
    <3>1. n \in 0 .. n
      BY <2>3
    <3> QED BY <2>7, <2>11, <3>1
  <2>13. \A i \in 1 .. n : Position(ps[i].seq) = x + (i - 1)
    <3>1. \A i \in 1 .. n : i - 1 \in 0 .. n
      BY <2>3
    <3> QED BY <2>6, <2>11, <3>1
  <2>14. \A k \in 1 .. l : d.inflight[k] = q[k]
    <3>1. \A k \in 1 .. l : k \in 1 .. l + n /\ k <= l
      BY <2>3, <2>10
    <3> QED BY <2>9, <3>1 DEF l
  <2>15. \A k \in 1 .. l + n : k > l => /\ k - l \in 1 .. n /\ d.inflight[k] = ps[k - l]
                                        /\ Position(d.inflight[k].seq) = x + (k - l - 1)
                                        /\ d.inflight[k].sacked_past = 0
    <3>1. SUFFICES ASSUME NEW k \in 1 .. l + n, k > l
                   PROVE  /\ k - l \in 1 .. n /\ d.inflight[k] = ps[k - l]
                          /\ Position(d.inflight[k].seq) = x + (k - l - 1)
                          /\ d.inflight[k].sacked_past = 0
      OBVIOUS
    <3>2. k - l \in 1 .. n /\ ~(k <= l)
      BY <2>3, <2>10, <3>1
    <3>3. d.inflight[k] = ps[k - l]
      BY <2>9, <3>2 DEF l
    <3> QED BY <2>6, <2>13, <3>2, <3>3
  <2>16. /\ \A i \in 1 .. l : Position(q[i].seq) \in Nat /\ Position(q[i].seq) > 0 /\ Position(q[i].seq) < x
         /\ \A i, j \in 1 .. l : i < j => Position(q[i].seq) < Position(q[j].seq)
    BY <1>1, PlacesAre DEF Rising, l, q, x
  <2>17. Rising(d)
    <3>1. Position(d.seq_nr) > 0
      BY <1>1, <1>2, <2>3, <2>12
    <3>2. ASSUME NEW k \in 1 .. l + n
          PROVE  Position(d.inflight[k].seq) > 0 /\ Position(d.inflight[k].seq) < x + n
      <4>1. CASE k <= l
        <5> DEFINE y == Position(d.inflight[k].seq)
        <5>1. k \in 1 .. l
          BY <2>10, <4>1
        <5>2. y \in Nat /\ y > 0 /\ y < x
          BY <2>14, <2>16, <5>1
        <5> HIDE DEF y
        <5>3. y > 0 /\ y < x + n
          BY <1>1, <2>3, <5>2
        <5> QED BY <5>3 DEF y
      <4>2. CASE k > l
        <5> DEFINE y == Position(d.inflight[k].seq)
                   j == k - l
        <5>1. j \in 1 .. n /\ y = x + (j - 1)
          BY <2>15, <4>2
        <5> HIDE DEF y, j
        <5>2. y > 0 /\ y < x + n
          BY <1>1, <1>2, <2>3, <5>1
        <5> QED BY <5>2 DEF y
      <4> QED BY <2>3, <2>10, <4>1, <4>2
    <3>3. ASSUME NEW i \in 1 .. l + n, NEW j \in 1 .. l + n, i < j
          PROVE  Position(d.inflight[i].seq) < Position(d.inflight[j].seq)
      <4>1. CASE j <= l
        <5>1. i \in 1 .. l /\ j \in 1 .. l
          BY <2>10, <3>3, <4>1
        <5> QED BY <2>14, <2>16, <3>3, <5>1
      <4>2. CASE i <= l /\ j > l
        <5>1. i \in 1 .. l /\ j - l \in 1 .. n /\ Position(d.inflight[j].seq) = x + (j - l - 1)
          BY <2>10, <2>15, <4>2
        <5>2. Position(d.inflight[i].seq) \in Nat /\ Position(d.inflight[i].seq) < x
          BY <2>14, <2>16, <5>1
        <5> QED BY <1>1, <2>3, <2>10, <5>1, <5>2
      <4>3. CASE i > l
        <5>1. j > l
          BY <2>10, <3>3, <4>3
        <5>2. Position(d.inflight[i].seq) = x + (i - l - 1) /\ Position(d.inflight[j].seq) = x + (j - l - 1)
          BY <2>15, <4>3, <5>1
        <5> QED BY <1>1, <2>10, <3>3, <5>2
      <4> QED BY <2>10, <3>3, <4>1, <4>2, <4>3
    <3> QED BY <2>10, <2>12, <3>1, <3>2, <3>3 DEF Rising
  <2>18. \A k \in 1 .. l + n : k > l => Position(d.inflight[k].seq) >= x /\ d.inflight[k].sacked_past = 0
    <3>1. SUFFICES ASSUME NEW k \in 1 .. l + n, k > l
                   PROVE  Position(d.inflight[k].seq) >= x /\ d.inflight[k].sacked_past = 0
      OBVIOUS
    <3>2. k - l \in 1 .. n /\ Position(d.inflight[k].seq) = x + (k - l - 1) /\ d.inflight[k].sacked_past = 0
      BY <2>15, <3>1
    <3> QED BY <1>1, <2>10, <3>2
  <2>19. \A f \in F : f \in c.out_frames \/ (Position(f.seq) >= x /\ Position(f.seq) < x + n)
    <3>1. SUFFICES ASSUME NEW f \in F, f \notin c.out_frames
                   PROVE  Position(f.seq) >= x /\ Position(f.seq) < x + n
      OBVIOUS
    <3>2. PICK i \in 1 .. n : f = [seq |-> Plus(c.seq_nr, i - 1), nth |-> 1]
      BY <3>1 DEF F
    <3>3. i - 1 \in 0 .. n /\ f.seq = Plus(c.seq_nr, i - 1)
      BY <2>3, <3>2
    <3>4. Position(f.seq) = x + (i - 1)
      BY <2>11, <3>3
    <3> QED BY <1>1, <2>3, <3>2, <3>4
  <2>20. Filled(c, d)
    <3>1. SUFFICES ASSUME NEW t \in Uint16, x <= Position(t), Position(t) < x + n
                   PROVE  t \in Seqs(d)
      BY <2>12 DEF Filled, x
    <3> DEFINE y == Position(t)
               i == y - x
               k == l + i + 1
    <3>2. y \in Nat /\ x <= y /\ y < x + n
      BY <3>1, PositionIs
    <3> HIDE DEF y
    <3>3. i \in 0 .. n /\ i + 1 \in 1 .. n /\ (i + 1) - 1 = i /\ x + i = y
      BY <1>1, <2>3, <3>2
    <3> HIDE DEF i
    <3>9. k \in 1 .. l + n /\ k > l /\ k - l = i + 1
      BY <2>3, <2>10, <3>3
    <3> HIDE DEF k
    <3>4. Plus(c.seq_nr, i) \in Uint16 /\ Position(Plus(c.seq_nr, i)) = Position(t)
      BY <2>11, <3>3 DEF y
    <3>5. Plus(c.seq_nr, i) = t
      BY <3>4, PositionInjective
    <3>6. d.inflight[k].seq = t
      BY <2>6, <2>15, <3>3, <3>5, <3>9
    <3>7. q \o ps \in Seq(InflightPkt)
      BY <1>1, <2>5, ConcatIs
    <3>8. DOMAIN d.inflight = 1 .. l + n
      BY <2>7, <2>10, <3>7
    <3> QED BY <3>6, <3>8, <3>9 DEF Seqs, Lists!ToSet
  <2>21. SameCut(c, d) /\ x <= x + n /\ l <= l + n
    BY <1>1, <2>3, <2>7, <2>10 DEF SameCut
  <2> QED BY <2>7, <2>10, <2>12, <2>14, <2>17, <2>18, <2>19, <2>20, <2>21 DEF Extends, q, l, x
<1> QED BY <1>3, <1>4

\* Handlers in steps.
LEMMA PruneHandled ==
  ASSUME NEW c, Fits(c), Rising(c), NEW d, Pruned(c, d), NEW e, Fits(e), Handled(d, e)
  PROVE  Handled(c, e)
<1>1. /\ Fits(d) /\ d.seq_nr = c.seq_nr /\ SameCut(c, d) /\ From(c, d)
  BY DEF Pruned, SameCounts
<1>2. \A s \in Seqs(d) : s \in Seqs(c)
  <2>1. Seqs(d) = {d.inflight[i].seq : i \in 1 .. Len(d.inflight)}
    BY <1>1, SeqsAre
  <2>2. Seqs(c) = {c.inflight[i].seq : i \in 1 .. Len(c.inflight)}
    BY SeqsAre
  <2> QED BY <1>1, <2>1, <2>2 DEF From
<1>3. \A i, j \in 1 .. Len(c.inflight) : c.inflight[i].seq = c.inflight[j].seq => i = j
  BY FrontFirst
<1>4. \A s \in Seqs(e) : s \in Seqs(c) \/ Position(s) >= Position(c.seq_nr)
  BY <1>1, <1>2 DEF Handled, Steps
<1>5. CutsNow(d, e) => CutsNow(c, e)
  BY <1>1 DEF CutsNow, SameCut
<1>6. StillCut(d, e) => StillCut(c, e)
  BY <1>1, <1>2 DEF StillCut, SameCut
<1>7. Resent(c, e) => Resent(d, e)
  <2>1. SUFFICES ASSUME Resent(c, e) PROVE Resent(d, e)
    OBVIOUS
  <2>2. PICK i \in 1 .. Len(c.inflight), j \in 1 .. Len(e.inflight) :
          /\ c.inflight[i].seq = e.inflight[j].seq
          /\ c.inflight[i].transmissions < e.inflight[j].transmissions
    BY <2>1 DEF Resent
  <2> DEFINE s == c.inflight[i].seq
  <2>3. s \in Seqs(c) /\ Position(s) < Position(c.seq_nr) /\ Position(s) \in Nat /\ Position(c.seq_nr) \in Nat
    <3>1. s \in Seqs(c)
      BY SeqsAre
    <3> HIDE DEF s
    <3> QED BY <3>1, FrontFirst, PlacesAre
  <2>4. s \in Seqs(e)
    <3>1. Seqs(e) = {e.inflight[k].seq : k \in 1 .. Len(e.inflight)}
      BY SeqsAre
    <3> QED BY <2>2, <3>1
  <2>5. s \in Seqs(d)
    <3> HIDE DEF s
    <3>1. s \in Seqs(d) \/ Position(s) >= Position(c.seq_nr)
      BY <1>1, <2>4 DEF Handled, Steps
    <3> QED BY <2>3, <3>1
  <2>6. PICK k \in 1 .. Len(d.inflight) : d.inflight[k].seq = s
    BY <1>1, <2>5, SeqsAre
  <2>7. PICK l \in 1 .. Len(c.inflight) : /\ d.inflight[k].seq = c.inflight[l].seq
                                          /\ d.inflight[k].transmissions = c.inflight[l].transmissions
    BY <1>1, <2>6 DEF From
  <2>8. l = i
    BY <1>3, <2>6, <2>7
  <2> QED BY <2>2, <2>6, <2>7, <2>8 DEF Resent
<1> QED BY <1>1, <1>4, <1>5, <1>6, <1>7 DEF Handled, Steps, SameCut

LEMMA QuietFirst ==
  ASSUME NEW c, NEW d, Quiet(c, d), NEW e, Handled(d, e)
  PROVE  Handled(c, e)
<1>1. Seqs(d) = Seqs(c) /\ d.inflight = c.inflight /\ d.seq_nr = c.seq_nr /\ SameCut(c, d)
  BY DEF Quiet, Seqs
<1>2. /\ CutsNow(d, e) <=> CutsNow(c, e)
      /\ StillCut(d, e) <=> StillCut(c, e)
      /\ Resent(d, e) <=> Resent(c, e)
      /\ SameCut(d, e) <=> SameCut(c, e)
  BY <1>1 DEF CutsNow, StillCut, Resent, SameCut
<1> QED BY <1>1, <1>2 DEF Handled, Steps

LEMMA QuietLast ==
  ASSUME NEW c, NEW d, Handled(c, d), NEW e, Quiet(d, e)
  PROVE  Handled(c, e)
<1>1. Seqs(d) = Seqs(e) /\ d.inflight = e.inflight /\ d.seq_nr = e.seq_nr /\ SameCut(d, e)
      /\ d.out_frames = e.out_frames
  BY DEF Quiet, Seqs, SameCut
<1>2. /\ CutsNow(c, d) <=> CutsNow(c, e)
      /\ StillCut(c, d) <=> StillCut(c, e)
      /\ Resent(c, d) <=> Resent(c, e)
      /\ SameCut(c, d) <=> SameCut(c, e)
      /\ Rising(d) <=> Rising(e)
  BY <1>1 DEF CutsNow, StillCut, Resent, SameCut, Rising
<1> QED BY <1>1, <1>2 DEF Handled, Steps

\* What packetize adds is not sent again, and was not in flight at a cut.
LEMMA ExtendsHandled ==
  ASSUME NEW c, Fits(c), Rising(c), CutKnown(c), NEW d, Fits(d), Handled(c, d), NEW e, Fits(e), Extends(d, e)
  PROVE  Handled(c, e)
<1> DEFINE l == Len(d.inflight)
           n == Len(e.inflight)
           x == Position(c.seq_nr)
           y == Position(d.seq_nr)
           z == Position(e.seq_nr)
<1>1. /\ x \in Nat /\ y \in Nat /\ z \in Nat /\ l \in Nat /\ n \in Nat /\ l <= n /\ x <= y /\ y <= z
      /\ Position(c.cut_seq) \in Nat /\ (c.cut_valid => Position(c.cut_seq) < x)
  BY PlacesAre, PacketsOf DEF Extends, Handled, Steps, CutKnown
<1>2. /\ \A s \in Seqs(e) : Position(s) \in Nat
      /\ Seqs(d) = {d.inflight[i].seq : i \in 1 .. l} /\ Seqs(e) = {e.inflight[i].seq : i \in 1 .. n}
      /\ Seqs(c) = {c.inflight[i].seq : i \in 1 .. Len(c.inflight)}
  BY PlacesAre, SeqsAre
<1>3. \A k \in 1 .. n : /\ k <= l => k \in 1 .. l /\ e.inflight[k] = d.inflight[k]
                        /\ ~(k <= l) => Position(e.inflight[k].seq) >= y
  <2>1. SUFFICES ASSUME NEW k \in 1 .. n
                 PROVE  /\ k <= l => k \in 1 .. l /\ e.inflight[k] = d.inflight[k]
                        /\ ~(k <= l) => Position(e.inflight[k].seq) >= y
    OBVIOUS
  <2>2. k \in Nat /\ (k <= l => k \in 1 .. l) /\ (~(k <= l) => k > l)
    BY <1>1
  <2>3. k \in 1 .. Len(e.inflight)
    OBVIOUS
  <2>4. k > l => Position(e.inflight[k].seq) >= y
    BY <2>3 DEF Extends
  <2>5. k \in 1 .. l => e.inflight[k] = d.inflight[k]
    BY DEF Extends
  <2> QED BY <2>2, <2>4, <2>5
<1>4. ASSUME NEW s \in Seqs(e) PROVE s \in Seqs(d) \/ Position(s) >= y
  <2>1. PICK k \in 1 .. n : s = e.inflight[k].seq
    BY <1>2
  <2> QED BY <1>2, <1>3, <2>1
<1>5. \A s \in Seqs(e) : s \in Seqs(c) \/ Position(s) >= x
  <2>1. SUFFICES ASSUME NEW s \in Seqs(e) PROVE s \in Seqs(c) \/ Position(s) >= x
    OBVIOUS
  <2>2. CASE s \in Seqs(d)
    BY <2>2 DEF Handled, Steps
  <2>3. CASE Position(s) >= y
    <3>1. Position(s) \in Nat
      BY <1>2
    <3> QED BY <1>1, <2>3, <3>1
  <2> QED BY <1>4, <2>2, <2>3
<1>6. SameCut(d, e) /\ Rising(e)
  BY DEF Extends
<1>7. CutsNow(c, d) => CutsNow(c, e)
  <2>1. SUFFICES ASSUME CutsNow(c, d) PROVE CutsNow(c, e)
    OBVIOUS
  <2>2. ASSUME c.cut_valid, NEW s \in Seqs(e) PROVE Position(s) > Position(c.cut_seq)
    <3>1. CASE s \in Seqs(d)
      BY <2>1, <2>2, <3>1 DEF CutsNow
    <3>2. CASE Position(s) >= y
      <4>1. Position(s) \in Nat
        BY <1>2
      <4> QED BY <1>1, <2>2, <3>2, <4>1
    <3> QED BY <1>4, <3>1, <3>2
  <2> QED BY <1>6, <2>1, <2>2 DEF CutsNow, SameCut
<1>8. d.inflight # <<>> => e.inflight # <<>> /\ e.inflight[1] = d.inflight[1]
  <2>1. SUFFICES ASSUME d.inflight # <<>> PROVE e.inflight # <<>> /\ e.inflight[1] = d.inflight[1]
    OBVIOUS
  <2>2. d.inflight \in Seq(InflightPkt) /\ e.inflight \in Seq(InflightPkt)
    BY PacketsOf
  <2>3. 1 \in 1 .. l /\ l # 0
    BY <2>1, <2>2, FirstIndex
  <2>4. n # 0 /\ 1 \in 1 .. n /\ 1 <= l
    BY <1>1, <2>3
  <2> QED BY <1>3, <2>2, <2>4, FirstIndex
<1>9. StillCut(c, d) => StillCut(c, e)
  BY <1>8 DEF StillCut
<1>10. Resent(c, e) => Resent(c, d)
  <2>1. SUFFICES ASSUME Resent(c, e) PROVE Resent(c, d)
    OBVIOUS
  <2>2. PICK i \in 1 .. Len(c.inflight), j \in 1 .. n :
          /\ c.inflight[i].seq = e.inflight[j].seq
          /\ c.inflight[i].transmissions < e.inflight[j].transmissions
    BY <2>1 DEF Resent
  <2> DEFINE w == Position(c.inflight[i].seq)
  <2>3. w < x /\ w \in Nat
    BY PlacesAre DEF Rising
  <2> HIDE DEF x, y, l, n
  <2>4. j <= l
    <3>1. SUFFICES ASSUME ~(j <= l) PROVE FALSE
      OBVIOUS
    <3>2. Position(e.inflight[j].seq) >= y
      BY <1>3, <3>1
    <3>3. w >= y
      BY <2>2, <3>2
    <3> HIDE DEF w
    <3> QED BY <1>1, <2>3, <3>3
  <2>5. j \in 1 .. l /\ e.inflight[j] = d.inflight[j]
    BY <1>3, <2>4
  <2> QED BY <2>2, <2>5 DEF Resent, l
<1>11. \A f \in e.out_frames : Position(f.seq) > 0 /\ Position(f.seq) < z
  <2>1. Fits(e) /\ y > 0
    BY DEF Handled, Steps, Rising
  <2>2. \A f \in e.out_frames : f.seq \in Uint16
    BY <2>1 DEF Fits
  <2>3. SUFFICES ASSUME NEW f \in e.out_frames PROVE Position(f.seq) > 0 /\ Position(f.seq) < z
    OBVIOUS
  <2>4. Position(f.seq) \in Nat
    BY <2>2, PositionIs
  <2>5. CASE f \in d.out_frames
    <3>1. Position(f.seq) > 0 /\ Position(f.seq) < y
      BY <2>5 DEF Handled, Steps
    <3> QED BY <1>1, <2>4, <3>1
  <2>6. CASE Position(f.seq) >= y /\ Position(f.seq) < z
    BY <1>1, <2>1, <2>4, <2>6
  <2> QED BY <2>5, <2>6 DEF Extends
<1>12. SameCut(c, d) => SameCut(c, e)
  BY <1>6 DEF SameCut
<1>13. (SameCut(c, d) \/ CutsNow(c, d)) /\ (Resent(c, d) => CutsNow(c, d) \/ StillCut(c, d))
  BY DEF Handled, Steps
<1> QED BY <1>1, <1>5, <1>6, <1>7, <1>9, <1>10, <1>11, <1>12, <1>13 DEF Handled, Steps

-----------------------------------------------------------------------------
(* What acknowledgements leave.                                             *)

\* Nothing but the window, the timers and the counts of repetitions may differ.
LEMMA QuietIs ==
  ASSUME NEW c, NEW d, Quiet(c, d)
  PROVE  /\ Seqs(d) = Seqs(c)
         /\ Rising(c) <=> Rising(d)
         /\ FewUsed(c) <=> FewUsed(d)
         /\ CutKnown(c) <=> CutKnown(d)
  BY DEF Quiet, SameCut, Seqs, Rising, FewUsed, CutKnown

\* What left is of the packets when an acknowledgement has been applied.
LeftOf(c, left, pkt) ==
  /\ Handled(c, left) /\ BelowThreshold(left) /\ left.seq_nr = c.seq_nr
  /\ left.dup_acks = c.dup_acks /\ left.last_ack_seen = c.last_ack_seen
  /\ Len(left.inflight) <= Len(c.inflight)
  /\ Len(left.inflight) = Len(c.inflight) => Quiet(c, left)
  /\ \A s : s \in Seqs(left) <=> s \in Seqs(c) /\ Position(s) > Position(pkt.ack_nr) /\ s \notin pkt.sack
  /\ /\ Len(left.inflight) # Len(c.inflight) /\ left.inflight # <<>>
     /\ left.inflight[1].seq = c.inflight[1].seq
     /\ left.inflight[1].transmissions = c.inflight[1].transmissions
     => left.inflight[1].sacked_past >= c.inflight[1].sacked_past + 1

LEMMA SackLeaves ==
  ASSUME NEW c, Fits(c), FewUsed(c), Rising(c), CutKnown(c), BelowThreshold(c), c.out_frames = {},
         NEW pkt \in AckFrame, pkt.sack # {}, c.inflight # <<>>, NEW d, d = apply_sack(c, pkt)
  PROVE  /\ Handled(c, d) /\ BelowThreshold(d) /\ d.seq_nr = c.seq_nr
         /\ d.dup_acks = c.dup_acks /\ d.last_ack_seen = c.last_ack_seen
         /\ Len(d.inflight) <= Len(c.inflight)
         /\ Len(d.inflight) = Len(c.inflight) => Quiet(c, d)
         /\ \A s : s \in Seqs(d) <=> s \in Seqs(c) /\ s \notin pkt.sack
         /\ /\ Len(d.inflight) # Len(c.inflight) /\ d.inflight # <<>>
            /\ d.inflight[1].seq = c.inflight[1].seq
            /\ d.inflight[1].transmissions = c.inflight[1].transmissions
            => d.inflight[1].sacked_past >= c.inflight[1].sacked_past + 1
<1> DEFINE h == [c EXCEPT !.inflight = Holes(c, pkt)]
           n == Len(c.inflight)
           m == Len(h.inflight)
<1>1. d = ResendLost(h)
  BY DEF apply_sack
<1>2. /\ Pruned(c, h)
      /\ \A s : s \in Seqs(h) <=> s \in Seqs(c) /\ s \notin pkt.sack
      /\ Len(h.inflight) # Len(c.inflight) /\ h.inflight # <<>> /\ h.inflight[1].seq = c.inflight[1].seq
              => h.inflight[1].sacked_past >= c.inflight[1].sacked_past + 1
  BY HolesPrunes
<1> HIDE DEF h
<1>3. /\ Fits(h) /\ h.seq_nr = c.seq_nr /\ h.dup_acks = c.dup_acks /\ h.last_ack_seen = c.last_ack_seen
      /\ h.out_frames = {} /\ SameCut(c, h) /\ Rising(h) /\ From(c, h) /\ m <= n /\ (m = n => h.inflight = c.inflight)
  BY <1>2 DEF Pruned, SameCounts
<1>4. n \in Nat /\ m \in Nat /\ h.inflight \in Seq(InflightPkt) /\ c.inflight \in Seq(InflightPkt)
  BY <1>3, PacketsOf
<1>5. FewUsed(h) /\ CutKnown(h)
  <2>1. 2 * n < SeqMod
    BY DEF FewUsed
  <2>2. 2 * m < SeqMod
    <3> HIDE DEF m, n
    <3> QED BY <1>3, <1>4, <2>1, FirstSeqIs
  <2> QED BY <1>3, <2>2 DEF FewUsed, CutKnown, SameCut
<1>6. /\ Resends(h, d) /\ d.dup_acks = h.dup_acks
      /\ \A k \in 1 .. m :
           /\ d.inflight[k].sacked_past < DupAckThreshold
           /\ h.inflight[k].sacked_past < DupAckThreshold => d.inflight[k].sacked_past = h.inflight[k].sacked_past
           /\ h.inflight[k].sacked_past >= DupAckThreshold
                => d.inflight[k].transmissions = h.inflight[k].transmissions + 1
      /\ (\A k \in 1 .. m : h.inflight[k].sacked_past < DupAckThreshold) => d = h
  BY <1>1, <1>3, ResendLostIs
<1>7. /\ Fits(d) /\ Len(d.inflight) = m /\ d.seq_nr = c.seq_nr /\ d.last_ack_seen = c.last_ack_seen
      /\ d.dup_acks = c.dup_acks /\ \A k \in 1 .. m : d.inflight[k].seq = h.inflight[k].seq
  BY <1>3, <1>6 DEF Resends, SameSeqs
<1>8. Handled(h, d) /\ Seqs(d) = Seqs(h)
  BY <1>3, <1>5, <1>6, ResendsHandled
<1>9. Handled(c, d)
  BY <1>2, <1>7, <1>8, PruneHandled
<1>10. BelowThreshold(d)
  BY <1>6, <1>7 DEF BelowThreshold
<1>11. ASSUME m = n PROVE Quiet(c, d)
  <2>1. \A k \in 1 .. m : h.inflight[k].sacked_past < DupAckThreshold
    BY <1>3, <1>11 DEF BelowThreshold
  <2>2. d = h
    BY <1>6, <2>1
  <2> QED BY <1>3, <1>11, <2>2 DEF Quiet
<1>12. ASSUME m # n, d.inflight # <<>>, d.inflight[1].seq = c.inflight[1].seq,
              d.inflight[1].transmissions = c.inflight[1].transmissions
       PROVE  d.inflight[1].sacked_past >= c.inflight[1].sacked_past + 1
  <2>1. 1 \in 1 .. m /\ h.inflight # <<>> /\ 1 \in 1 .. n
    <3>1. d.inflight \in Seq(InflightPkt)
      BY <1>7, PacketsOf
    <3>2. 1 \in 1 .. m /\ m # 0
      BY <1>7, <1>12, <3>1, FirstIndex
    <3> HIDE DEF m, n
    <3>3. 1 \in 1 .. n
      BY <1>3, <1>4, <3>2
    <3> QED BY <1>4, <3>2, <3>3, FirstIndex DEF m
  <2>2. h.inflight[1].seq = c.inflight[1].seq
    BY <1>7, <1>12, <2>1
  <2>3. h.inflight[1].sacked_past >= c.inflight[1].sacked_past + 1
    BY <1>2, <1>12, <2>1, <2>2
  <2>4. h.inflight[1].transmissions = c.inflight[1].transmissions
    <3>1. PICK j \in 1 .. n : /\ h.inflight[1].seq = c.inflight[j].seq
                              /\ h.inflight[1].transmissions = c.inflight[j].transmissions
      BY <1>3, <2>1 DEF From
    <3>2. j = 1
      BY <2>1, <2>2, <3>1, FrontFirst
    <3> QED BY <3>1, <3>2
  <2>5. h.inflight[1].transmissions \in Nat /\ h.inflight[1].sacked_past \in Nat
    BY <1>3, <2>1, PacketsOf
  <2>6. ~(h.inflight[1].sacked_past >= DupAckThreshold)
    <3>1. SUFFICES ASSUME h.inflight[1].sacked_past >= DupAckThreshold PROVE FALSE
      OBVIOUS
    <3>2. d.inflight[1].transmissions = h.inflight[1].transmissions + 1
      BY <1>6, <2>1, <3>1
    <3> QED BY <1>12, <2>4, <2>5, <3>2
  <2>7. h.inflight[1].sacked_past < DupAckThreshold
    <3>1. DupAckThreshold \in Nat
      BY WindowAssumption
    <3> QED BY <2>5, <2>6, <3>1
  <2>8. d.inflight[1].sacked_past = h.inflight[1].sacked_past
    BY <1>6, <2>1, <2>7
  <2> QED BY <2>3, <2>8
<1> QED BY <1>2, <1>3, <1>7, <1>8, <1>9, <1>10, <1>11, <1>12

\* The cumulative and the selective acknowledgement.
LEMMA LeftIs ==
  ASSUME NEW c, Fits(c), FewUsed(c), Rising(c), CutKnown(c), BelowThreshold(c), c.out_frames = {},
         NEW pkt \in AckFrame, 2 * Position(pkt.ack_nr) < SeqMod,
         NEW left, left = apply_sack(DropAcked(c, pkt), pkt)
  PROVE  Fits(left) /\ LeftOf(c, left, pkt)
<1> DEFINE b == DropAcked(c, pkt)
           n == Len(c.inflight)
           m == Len(b.inflight)
           l == Len(left.inflight)
           a == Position(pkt.ack_nr)
<1>1. /\ Pruned(c, b)
      /\ \A s : s \in Seqs(b) <=> s \in Seqs(c) /\ Position(s) > a
      /\ b.inflight # <<>> /\ b.inflight[1].seq = c.inflight[1].seq => b.inflight = c.inflight
  BY DropPrunes
<1>2. left = apply_sack(b, pkt)
  OBVIOUS
<1>3. Fits(left)
  BY AckLeaves DEF Kept
<1> HIDE DEF b
<1>4. /\ Fits(b) /\ b.seq_nr = c.seq_nr /\ b.dup_acks = c.dup_acks /\ b.last_ack_seen = c.last_ack_seen
      /\ b.out_frames = {} /\ SameCut(c, b) /\ Rising(b) /\ From(c, b) /\ m <= n /\ (m = n => b.inflight = c.inflight)
  BY <1>1 DEF Pruned, SameCounts
<1>5. n \in Nat /\ m \in Nat /\ l \in Nat /\ b.inflight \in Seq(InflightPkt) /\ c.inflight \in Seq(InflightPkt)
      /\ left.inflight \in Seq(InflightPkt)
  BY <1>3, <1>4, PacketsOf
<1>6. FewUsed(b) /\ CutKnown(b)
  <2>1. 2 * n < SeqMod
    BY DEF FewUsed
  <2>2. 2 * m < SeqMod
    <3> HIDE DEF m, n
    <3> QED BY <1>4, <1>5, <2>1, FirstSeqIs
  <2> QED BY <1>4, <2>2 DEF FewUsed, CutKnown, SameCut
<1>7. m = n => Quiet(c, b)
  BY <1>4 DEF Quiet
<1>8. \A i \in 1 .. m : b.inflight[i].sacked_past < DupAckThreshold
  <2>1. SUFFICES ASSUME NEW i \in 1 .. m PROVE b.inflight[i].sacked_past < DupAckThreshold
    OBVIOUS
  <2>2. PICK k \in 0 .. n : b = [c EXCEPT !.inflight = SubSeq(c.inflight, k + 1, n)]
    BY DropIs DEF b
  <2>3. c \in Conn
    BY DEF Fits
  <2> DEFINE r == SubSeq(c.inflight, k + 1, n)
  <2>4. b.inflight = r
    BY <2>2, <2>3 DEF Conn
  <2>5. Len(r) = n - k /\ \A j \in 1 .. n - k : r[j] = c.inflight[k + j]
    BY <1>5, SuffixIs
  <2> HIDE DEF r, n
  <2>6. i \in 1 .. n - k
    BY <2>4, <2>5
  <2>7. k + i \in 1 .. n /\ b.inflight[i] = c.inflight[k + i]
    BY <1>5, <2>4, <2>5, <2>6
  <2> QED BY <2>7 DEF BelowThreshold, n
<1>9. BelowThreshold(b)
  BY <1>4, <1>8 DEF BelowThreshold
<1>10. CASE pkt.sack = {} \/ b.inflight = <<>>
  <2>1. left = b
    BY <1>2, <1>10 DEF apply_sack
  <2>2. Resends(b, b)
    BY <1>4 DEF Resends, SameSeqs, SameCut
  <2>3. Handled(c, left)
    <3>1. Handled(b, b)
      BY <1>4, <1>6, <2>2, ResendsHandled
    <3> QED BY <1>1, <1>4, <2>1, <3>1, PruneHandled
  <2>4. \A s : s \in Seqs(left) <=> s \in Seqs(c) /\ Position(s) > a /\ s \notin pkt.sack
    <3>1. b.inflight = <<>> => \A s : s \notin Seqs(b)
      <4>1. Seqs(b) = {b.inflight[i].seq : i \in 1 .. m}
        BY <1>4, SeqsAre
      <4>2. b.inflight = <<>> => m = 0
        OBVIOUS
      <4>3. m = 0 => 1 .. m = {}
        OBVIOUS
      <4> QED BY <4>1, <4>2, <4>3
    <3> QED BY <1>1, <1>10, <2>1, <3>1
  <2>5. l # n /\ left.inflight # <<>> => left.inflight[1].seq # c.inflight[1].seq
    BY <1>1, <2>1
  <2> QED BY <1>3, <1>4, <1>7, <1>9, <2>1, <2>3, <2>4, <2>5 DEF LeftOf
<1>11. CASE pkt.sack # {} /\ b.inflight # <<>>
  <2>1. /\ Handled(b, left) /\ BelowThreshold(left) /\ left.seq_nr = b.seq_nr
        /\ left.dup_acks = b.dup_acks /\ left.last_ack_seen = b.last_ack_seen
        /\ l <= m
        /\ l = m => Quiet(b, left)
        /\ \A s : s \in Seqs(left) <=> s \in Seqs(b) /\ s \notin pkt.sack
        /\ /\ l # m /\ left.inflight # <<>>
           /\ left.inflight[1].seq = b.inflight[1].seq
           /\ left.inflight[1].transmissions = b.inflight[1].transmissions
           => left.inflight[1].sacked_past >= b.inflight[1].sacked_past + 1
    BY <1>2, <1>4, <1>6, <1>9, <1>11, SackLeaves
  <2>2. Handled(c, left)
    BY <1>1, <1>3, <2>1, PruneHandled
  <2>3. \A s : s \in Seqs(left) <=> s \in Seqs(c) /\ Position(s) > a /\ s \notin pkt.sack
    BY <1>1, <2>1
  <2>4. l <= n /\ (l = n => m = n /\ l = m)
    <3>1. l <= m /\ m <= n
      BY <1>4, <2>1
    <3> HIDE DEF l, m, n
    <3> QED BY <1>5, <3>1
  <2>5. l = n => Quiet(c, left)
    BY <1>7, <2>1, <2>4 DEF Quiet, SameCut
  <2>6. ASSUME l # n, left.inflight # <<>>, left.inflight[1].seq = c.inflight[1].seq,
               left.inflight[1].transmissions = c.inflight[1].transmissions
        PROVE  left.inflight[1].sacked_past >= c.inflight[1].sacked_past + 1
    <3> DEFINE s == c.inflight[1].seq
               u == b.inflight[1].seq
    <3>1. s \in Seqs(left)
      <4>1. 1 \in 1 .. l
        BY <1>5, <2>6, FirstIndex
      <4>2. Seqs(left) = {left.inflight[i].seq : i \in 1 .. l}
        BY <1>3, SeqsAre
      <4> QED BY <2>6, <4>1, <4>2
    <3>2. s \in Seqs(b)
      BY <2>1, <3>1
    <3>3. u \in Seqs(b)
      <4>1. 1 \in 1 .. m
        BY <1>5, <1>11, FirstIndex
      <4>2. Seqs(b) = {b.inflight[i].seq : i \in 1 .. m}
        BY <1>4, SeqsAre
      <4> QED BY <4>1, <4>2
    <3>4. u \in Seqs(c)
      BY <1>1, <3>3
    <3>5. Position(s) >= Position(u)
      BY <1>4, <3>2, FrontFirst
    <3>6. Position(u) >= Position(s)
      BY <3>4, FrontFirst
    <3>7. s \in Uint16 /\ u \in Uint16 /\ Position(s) \in Nat /\ Position(u) \in Nat
      BY <1>4, <3>2, <3>3, PlacesAre
    <3> HIDE DEF s, u
    <3>8. s = u
      BY <3>5, <3>6, <3>7, PositionInjective
    <3>9. b.inflight = c.inflight
      BY <1>1, <1>11, <3>8 DEF s, u
    <3> QED BY <2>1, <2>6, <3>9
  <2>7. left.seq_nr = c.seq_nr /\ left.dup_acks = c.dup_acks /\ left.last_ack_seen = c.last_ack_seen
    BY <1>4, <2>1
  <2>8. BelowThreshold(left)
    BY <2>1
  <2> QED BY <1>3, <2>2, <2>3, <2>4, <2>5, <2>6, <2>7, <2>8 DEF LeftOf
<1> QED BY <1>10, <1>11

\* LEDBAT changes the window only.
LEMMA LedbatQuiet ==
  ASSUME NEW c, Fits(c), NEW acked, NEW before, NEW delay, NEW d, d = ledbat_update(c, acked, before, delay)
  PROVE  Quiet(c, d) /\ d.dup_acks = c.dup_acks /\ d.last_ack_seen = c.last_ack_seen
<1>1. c \in Conn
  BY DEF Fits
<1>2. CASE c.slow_start /\ delay < TargetDelay
  <2> DEFINE w == clamp_cwnd(c.cwnd + acked)
             b == c.ssthres = 0 \/ c.cwnd + acked <= c.ssthres
  <2>1. d = [c EXCEPT !.cwnd = w, !.slow_start = b]
    BY <1>2 DEF ledbat_update, SlowStart
  <2> HIDE DEF w, b
  <2> QED BY <1>1, <2>1 DEF Conn, Quiet, SameCut
<1>3. CASE ~(c.slow_start /\ delay < TargetDelay)
  <2> DEFINE w == clamp_cwnd(c.cwnd + (Gain * (TargetDelay - delay) * acked) \div (TargetDelay * before))
             u == IF c.slow_start THEN c.cwnd \div 2 ELSE c.ssthres
  <2>1. d = [c EXCEPT !.cwnd = w, !.slow_start = FALSE, !.ssthres = u]
    BY <1>3 DEF ledbat_update
  <2> HIDE DEF w, u
  <2> QED BY <1>1, <2>1 DEF Conn, Quiet, SameCut
<1> QED BY <1>2, <1>3

\* Acknowledged packets end a run of repetitions.
LEMMA ProgressQuiet ==
  ASSUME NEW c, NEW left, Fits(left), NEW delay, NEW rto \in RttTimeouts,
         NEW d, d = Progress(c, left, delay, rto)
  PROVE  Quiet(left, d) /\ d.dup_acks = 0
<1> DEFINE z == [left EXCEPT !.dup_acks = 0, !.timeout = rto]
           x == bytes_in_flight(c) - bytes_in_flight(left)
           y == bytes_in_flight(c)
<1>1. left \in Conn /\ rto \in Nat
  BY WindowAssumption DEF Fits
<1>2. Fits(z)
  <2>1. left.idle \in Nat /\ left.last_ack_seen \in Uint16 /\ 0 \in Nat
    BY <1>1 DEF Conn
  <2> QED BY <1>1, <2>1, OtherFields DEF Kept
<1>3. Quiet(left, z) /\ z.dup_acks = 0
  BY <1>1 DEF Conn, Quiet, SameCut
<1>4. d = ledbat_update(z, x, y, delay)
  BY DEF Progress
<1> HIDE DEF x, y, z
<1>5. Quiet(z, d) /\ d.dup_acks = z.dup_acks
  BY <1>2, <1>4, LedbatQuiet
<1> QED BY <1>3, <1>5 DEF Quiet, SameCut

\* Nothing happens.
LEMMA NothingHandled ==
  ASSUME NEW c, Fits(c), FewUsed(c), Rising(c), CutKnown(c), c.out_frames = {}
  PROVE  Handled(c, c)
<1>1. Resends(c, c)
  BY DEF Resends, SameSeqs, SameCut
<1> QED BY <1>1, ResendsHandled

\* What packetize adds is below the thresholds.
LEMMA ExtendsBelow ==
  ASSUME NEW c, Fits(c), BelowThreshold(c), NEW d, Fits(d), Extends(c, d)
  PROVE  BelowThreshold(d)
<1>1. Len(c.inflight) \in Nat /\ Len(d.inflight) \in Nat
  BY PacketsOf
<1>2. 0 < DupAckThreshold
  BY WindowAssumption
<1>3. ASSUME NEW k \in 1 .. Len(d.inflight) PROVE d.inflight[k].sacked_past < DupAckThreshold
  <2>1. CASE k \in 1 .. Len(c.inflight)
    BY <2>1 DEF Extends, BelowThreshold
  <2>2. CASE k > Len(c.inflight)
    BY <1>2, <2>2 DEF Extends
  <2> QED BY <1>1, <2>1, <2>2
<1>4. d.dup_acks < DupAckThreshold
  BY DEF Extends, BelowThreshold
<1> QED BY <1>3, <1>4 DEF BelowThreshold

\* What an acknowledgement does to the front, and what it leaves.
Acked(c, d, pkt) ==
  /\ d.last_ack_seen = pkt.ack_nr
  /\ \A s \in Seqs(c) : Position(s) > Position(pkt.ack_nr) /\ s \notin pkt.sack => s \in Seqs(d)
  /\ Filled(c, d)
  /\ /\ c.inflight # <<>> /\ d.inflight # <<>>
     /\ d.inflight[1].seq = c.inflight[1].seq /\ d.inflight[1].transmissions = c.inflight[1].transmissions
     => \/ d.inflight[1].sacked_past >= c.inflight[1].sacked_past + 1
        \/ /\ d.inflight[1].sacked_past = c.inflight[1].sacked_past
           /\ d.dup_acks = c.dup_acks + 1 \/ pkt.ack_nr # c.last_ack_seen
           /\ \A s \in Seqs(c) : Position(s) > Position(pkt.ack_nr)

\* An acknowledgement that takes something.
LEMMA MovedIs ==
  ASSUME NEW s \in Seq(PayloadSizes),
         NEW c, Streams(c, s), FewUsed(c), Rising(c), CutKnown(c), BelowThreshold(c), c.out_frames = {},
         NEW pkt \in AckFrame, 2 * Position(pkt.ack_nr) < SeqMod,
         NEW left, left = apply_sack(DropAcked(c, pkt), pkt), Len(left.inflight) # Len(c.inflight),
         NEW e, Quiet(left, e), e.dup_acks = 0, Streams(e, s),
         NEW f, f = packetize(e), Fits(f), 2 * Len(f.inflight) < SeqMod,
         NEW g, Fits(g), Quiet(f, g), g.dup_acks = f.dup_acks, g.last_ack_seen = pkt.ack_nr
  PROVE  Handled(c, g) /\ BelowThreshold(g) /\ Acked(c, g, pkt)
<1>1. Fits(c) /\ Fits(e)
  BY DEF Streams
<1>2. Fits(left) /\ LeftOf(c, left, pkt)
  BY <1>1, LeftIs
<1>3. Handled(c, e)
  BY <1>2, QuietLast DEF LeftOf
<1>4. Rising(e) /\ e.seq_nr = c.seq_nr /\ Seqs(e) = Seqs(left) /\ e.inflight = left.inflight
  BY <1>2, <1>3, QuietIs DEF Handled, Steps, LeftOf, Quiet
<1>5. 2 * Position(e.seq_nr) < SeqMod
  BY <1>4 DEF FewUsed
<1>6. Extends(e, f)
  BY <1>4, <1>5, PacketizeExtends
<1>7. Handled(c, f)
  BY <1>1, <1>3, <1>6, ExtendsHandled
<1>8. Handled(c, g)
  BY <1>7, QuietLast
<1>9. BelowThreshold(g)
  <2>1. BelowThreshold(e)
    <3>1. 0 < DupAckThreshold
      BY WindowAssumption
    <3> QED BY <1>2, <1>4, <3>1 DEF LeftOf, BelowThreshold
  <2>2. BelowThreshold(f)
    BY <1>1, <1>6, <2>1, ExtendsBelow
  <2> QED BY <2>2 DEF BelowThreshold, Quiet
<1>10. g.inflight = f.inflight /\ Seqs(g) = Seqs(f) /\ g.seq_nr = f.seq_nr
  BY QuietIs DEF Quiet
<1> DEFINE l == Len(left.inflight)
           n == Len(f.inflight)
<1>11. /\ l \in Nat /\ n \in Nat /\ left.inflight \in Seq(InflightPkt) /\ f.inflight \in Seq(InflightPkt)
       /\ l <= n /\ \A k \in 1 .. l : f.inflight[k] = left.inflight[k]
       /\ \A k \in 1 .. n : k > l => Position(f.inflight[k].seq) >= Position(c.seq_nr)
  BY <1>2, <1>4, <1>6, PacketsOf DEF Extends
<1>12. \A t \in Seqs(left) : t \in Seqs(g)
  <2>1. Seqs(left) = {left.inflight[i].seq : i \in 1 .. l}
    BY <1>2, SeqsAre
  <2>2. Seqs(g) = {f.inflight[i].seq : i \in 1 .. n}
    BY <1>10, SeqsAre
  <2> HIDE DEF l, n
  <2>3. \A k \in 1 .. l : k \in 1 .. n
    BY <1>11
  <2> QED BY <1>11, <2>1, <2>2, <2>3
<1>13. \A t \in Seqs(c) : Position(t) > Position(pkt.ack_nr) /\ t \notin pkt.sack => t \in Seqs(g)
  BY <1>2, <1>12 DEF LeftOf
<1>14. Filled(c, g)
  BY <1>4, <1>6, <1>10 DEF Extends, Filled
<1>15. ASSUME c.inflight # <<>>, g.inflight # <<>>, g.inflight[1].seq = c.inflight[1].seq,
              g.inflight[1].transmissions = c.inflight[1].transmissions
       PROVE  g.inflight[1].sacked_past >= c.inflight[1].sacked_past + 1
  <2>1. 1 \in 1 .. n /\ 1 \in 1 .. Len(c.inflight)
    <3>1. c.inflight \in Seq(InflightPkt)
      BY <1>1, PacketsOf
    <3> QED BY <1>10, <1>11, <1>15, <3>1, FirstIndex
  <2> DEFINE x == Position(c.inflight[1].seq)
             z == Position(c.seq_nr)
  <2>2. x < z /\ x \in Nat /\ z \in Nat
    BY <1>1, <2>1, PlacesAre DEF Rising
  <2>3. 1 \in 1 .. l
    <3>1. SUFFICES ASSUME ~(1 \in 1 .. l) PROVE FALSE
      OBVIOUS
    <3>2. 1 > l
      <4> HIDE DEF l
      <4> QED BY <1>11, <3>1
    <3>3. x >= z
      BY <1>10, <1>11, <1>15, <2>1, <3>2
    <3> HIDE DEF x, z
    <3> QED BY <2>2, <3>3
  <2>4. g.inflight[1] = left.inflight[1] /\ left.inflight # <<>>
    BY <1>10, <1>11, <2>3, FirstIndex
  <2> QED BY <1>2, <1>15, <2>4 DEF LeftOf
<1> QED BY <1>8, <1>9, <1>13, <1>14, <1>15 DEF Acked

\* One that takes nothing.
LEMMA StuckIs ==
  ASSUME NEW c, Fits(c), FewUsed(c), Rising(c), CutKnown(c), BelowThreshold(c), c.out_frames = {},
         NEW pkt \in AckFrame, 2 * Position(pkt.ack_nr) < SeqMod,
         NEW left, left = apply_sack(DropAcked(c, pkt), pkt), ~(Len(left.inflight) < Len(c.inflight)),
         NEW f, f = NoProgress(left, pkt),
         NEW g, Fits(g), Quiet(f, g), g.dup_acks = f.dup_acks, g.last_ack_seen = pkt.ack_nr
  PROVE  Handled(c, g) /\ BelowThreshold(g) /\ Acked(c, g, pkt)
<1>1. Fits(left) /\ LeftOf(c, left, pkt)
  BY LeftIs
<1>2. Len(left.inflight) = Len(c.inflight)
  <2>1. Len(left.inflight) \in Nat /\ Len(c.inflight) \in Nat /\ Len(left.inflight) <= Len(c.inflight)
    BY <1>1, PacketsOf DEF LeftOf
  <2> QED BY <2>1
<1>3. Quiet(c, left) /\ left.dup_acks = c.dup_acks /\ left.last_ack_seen = c.last_ack_seen /\ BelowThreshold(left)
  BY <1>1, <1>2 DEF LeftOf
<1>4. left.inflight = c.inflight /\ Seqs(left) = Seqs(c) /\ left.out_frames = {} /\ left.seq_nr = c.seq_nr
      /\ FewUsed(left) /\ Rising(left) /\ CutKnown(left)
  BY <1>3, QuietIs DEF Quiet
<1>5. /\ Resends(left, f) /\ BelowThreshold(f)
      /\ \A k \in 1 .. Len(left.inflight) : f.inflight[k].sacked_past = left.inflight[k].sacked_past
      /\ left.inflight # <<>> /\ pkt.ack_nr = left.last_ack_seen =>
           \/ f.dup_acks = left.dup_acks + 1
           \/ f.inflight[1].transmissions = left.inflight[1].transmissions + 1
  BY <1>1, <1>3, NoProgressIs
<1>6. Handled(left, f) /\ Seqs(f) = Seqs(left)
  BY <1>1, <1>4, <1>5, ResendsHandled
<1>7. Handled(c, g)
  BY <1>3, <1>6, QuietFirst, QuietLast
<1>8. g.inflight = f.inflight /\ Seqs(g) = Seqs(c) /\ g.seq_nr = c.seq_nr
  BY <1>4, <1>5, <1>6, QuietIs DEF Quiet, Resends
<1>9. BelowThreshold(g)
  BY <1>5 DEF BelowThreshold, Quiet
<1>10. \A t \in Seqs(c) : Position(t) > Position(pkt.ack_nr)
  BY <1>1, <1>4 DEF LeftOf
<1>11. ASSUME c.inflight # <<>>, g.inflight[1].transmissions = c.inflight[1].transmissions
       PROVE  /\ g.inflight[1].sacked_past = c.inflight[1].sacked_past
              /\ g.dup_acks = c.dup_acks + 1 \/ pkt.ack_nr # c.last_ack_seen
  <2>1. 1 \in 1 .. Len(c.inflight) /\ c.inflight[1].transmissions \in Nat
    <3>1. c.inflight \in Seq(InflightPkt)
      BY PacketsOf
    <3>2. 1 \in 1 .. Len(c.inflight)
      BY <1>11, <3>1, FirstIndex
    <3> QED BY <3>2, PacketsOf
  <2>2. g.inflight[1].sacked_past = c.inflight[1].sacked_past
    BY <1>4, <1>5, <1>8, <2>1
  <2>3. ASSUME pkt.ack_nr = c.last_ack_seen PROVE g.dup_acks = c.dup_acks + 1
    <3>1. g.dup_acks = c.dup_acks + 1 \/ g.inflight[1].transmissions = c.inflight[1].transmissions + 1
      BY <1>3, <1>4, <1>5, <1>8, <1>11, <2>3
    <3> QED BY <1>11, <2>1, <3>1
  <2> QED BY <2>2, <2>3
<1>12. Filled(c, g)
  <2>1. \A t \in Uint16 : Position(t) \in Nat
    BY PositionIs
  <2>2. Position(c.seq_nr) \in Nat
    BY PlacesAre
  <2> QED BY <1>8, <2>1, <2>2 DEF Filled
<1> QED BY <1>7, <1>8, <1>9, <1>10, <1>11, <1>12 DEF Acked

-----------------------------------------------------------------------------
(* The invariant of the numbers, while fewer than half of them are in use.  *)

Few == FewUsed(conn)

\* The history variable cut_flight is what cut_window tells by cut_seq.
CutFlight ==
  cut_flight = IF conn.cut_valid THEN {s \in Seqs(conn) : Position(s) <= Position(conn.cut_seq)} ELSE {}

Numbers == Rising(conn) /\ CutKnown(conn) /\ BelowThreshold(conn) /\ CutFlight

CutOnce == conn'.cuts > conn.cuts => \A p \in Lists!ToSet(conn'.inflight) : p.seq \notin cut_flight

CutForLoss == SentAgain => conn'.cuts > conn.cuts \/ conn'.inflight[1].seq \in cut_flight

\* Whose packets are in flight.
LEMMA ToSetSeqs ==
  ASSUME NEW c, Fits(c)
  PROVE  /\ \A p \in Lists!ToSet(c.inflight) : p.seq \in Seqs(c)
         /\ \A p \in Lists!ToSet(c.inflight) : \E i \in 1 .. Len(c.inflight) : p = c.inflight[i]
<1>1. DOMAIN c.inflight = 1 .. Len(c.inflight)
  BY PacketsOf
<1> QED BY <1>1 DEF Seqs, Lists!ToSet

\* The step of a handler: the numbers stay in order, and what was in flight at
\* the last cut is what cut_seq says.
LEMMA LeavesNumbers ==
  ASSUME Fits(conn), Numbers, NEW c, Fits(c), Steps(conn, c), BelowThreshold(c), NEW arrivals, Leaves(c, arrivals)
  PROVE  /\ Numbers' /\ CutOnce
         /\ Handled(conn, c) => CutForLoss
<1> DEFINE d == [c EXCEPT !.out_frames = {}]
<1>1. conn' = d
  BY DEF Leaves
<1>2. c \in Conn /\ conn \in Conn
  BY DEF Fits
<1>3. /\ d.inflight = c.inflight /\ d.seq_nr = c.seq_nr /\ SameCut(c, d) /\ d.dup_acks = c.dup_acks
      /\ Seqs(d) = Seqs(c)
  BY <1>2 DEF Conn, SameCut, Seqs
<1> HIDE DEF d
<1>4. Rising(d) /\ BelowThreshold(d)
  BY <1>3 DEF Steps, Rising, BelowThreshold
<1> DEFINE x == Position(conn.seq_nr)
           y == Position(c.seq_nr)
           w == Position(conn.cut_seq)
           F == IF conn.cut_valid THEN {s \in Seqs(conn) : Position(s) <= w} ELSE {}
<1>5. /\ x \in Nat /\ y \in Nat /\ w \in Nat /\ x <= y /\ x > 0 /\ conn.seq_nr \in Uint16
      /\ \A s \in Seqs(c) : Position(s) \in Nat
      /\ \A s \in Seqs(conn) : Position(s) \in Nat /\ Position(s) < x
  BY PlacesAre, PacketsOf, FrontFirst DEF Steps, Numbers, Rising
<1>6. cut_flight = F /\ (conn.cut_valid => w < x)
  BY DEF Numbers, CutFlight, CutKnown
<1>7. cut_flight' = (IF c.cuts > conn.cuts THEN Seqs(conn) ELSE cut_flight) \cap Seqs(d)
  BY <1>3 DEF Leaves
<1>8. conn.cuts \in Nat
  BY <1>2 DEF Conn
<1>9. ASSUME SameCut(conn, c) PROVE Numbers' /\ CutOnce
  <2>1. d.cut_seq = conn.cut_seq /\ d.cut_valid = conn.cut_valid /\ d.cuts = conn.cuts /\ c.cuts = conn.cuts
    BY <1>3, <1>9 DEF SameCut
  <2>2. ~(c.cuts > conn.cuts)
    BY <1>8, <2>1
  <2>3. cut_flight' = F \cap Seqs(d)
    BY <1>6, <1>7, <2>2
  <2>4. ASSUME NEW s \in Seqs(d), conn.cut_valid, Position(s) <= w PROVE s \in Seqs(conn)
    <3>1. s \in Seqs(conn) \/ Position(s) >= x
      BY <1>3 DEF Steps
    <3>2. Position(s) \in Nat
      BY <1>3, <1>5
    <3> HIDE DEF x, w
    <3> QED BY <1>5, <1>6, <2>4, <3>1, <3>2
  <2>5. cut_flight' = IF d.cut_valid THEN {s \in Seqs(d) : Position(s) <= Position(d.cut_seq)} ELSE {}
    BY <2>1, <2>3, <2>4
  <2>6. CutKnown(d)
    <3> HIDE DEF x, y, w
    <3>1. conn.cut_valid => w < y
      BY <1>5, <1>6
    <3> QED BY <1>3, <2>1, <3>1 DEF CutKnown, w, y
  <2>7. Numbers'
    BY <1>1, <1>4, <2>5, <2>6 DEF Numbers, CutFlight
  <2>8. ~(conn'.cuts > conn.cuts)
    BY <1>1, <1>8, <2>1
  <2> QED BY <2>7, <2>8 DEF CutOnce
<1>10. ASSUME CutsNow(conn, c) PROVE Numbers' /\ CutOnce
  <2>1. /\ c.cuts = conn.cuts + 1 /\ d.cut_valid /\ d.cut_seq = Plus(conn.seq_nr, -1)
        /\ conn.cut_valid => \A s \in Seqs(d) : Position(s) > w
    BY <1>3, <1>10 DEF CutsNow, SameCut
  <2>2. c.cuts > conn.cuts
    BY <1>8, <2>1
  <2>3. cut_flight' = Seqs(conn) \cap Seqs(d)
    BY <1>7, <2>2
  <2>4. Position(d.cut_seq) = x - 1
    <3>1. -1 \in Int /\ 0 <= x + -1 /\ x + -1 < SeqMod
      <4>1. x < SeqMod
        BY <1>5, PositionIs
      <4> HIDE DEF x
      <4> QED BY <1>5, <4>1, FirstSeqIs
    <3>2. Position(Plus(conn.seq_nr, -1)) = x + -1
      BY <1>5, <3>1, PositionPlus
    <3> HIDE DEF x
    <3> QED BY <1>5, <2>1, <3>2
  <2>5. ASSUME NEW s \in Seqs(d) PROVE s \in Seqs(conn) <=> Position(s) <= x - 1
    <3>1. s \in Seqs(conn) \/ Position(s) >= x
      BY <1>3 DEF Steps
    <3>2. Position(s) \in Nat /\ (s \in Seqs(conn) => Position(s) < x)
      BY <1>3, <1>5
    <3> HIDE DEF x
    <3> QED BY <1>5, <3>1, <3>2
  <2>6. cut_flight' = IF d.cut_valid THEN {s \in Seqs(d) : Position(s) <= Position(d.cut_seq)} ELSE {}
    BY <2>1, <2>3, <2>4, <2>5
  <2>7. CutKnown(d)
    <3> HIDE DEF x, y
    <3>1. x - 1 < y
      BY <1>5
    <3> QED BY <1>3, <2>4, <3>1 DEF CutKnown, y
  <2>8. Numbers'
    BY <1>1, <1>4, <2>6, <2>7 DEF Numbers, CutFlight
  <2>9. CutOnce
    <3>1. SUFFICES ASSUME NEW p \in Lists!ToSet(d.inflight) PROVE p.seq \notin cut_flight
      BY <1>1 DEF CutOnce
    <3>2. p.seq \in Seqs(d) /\ Position(p.seq) \in Nat
      <4>1. p.seq \in Seqs(c)
        BY <1>3, ToSetSeqs
      <4> QED BY <1>3, <1>5, <4>1
    <3>3. conn.cut_valid => Position(p.seq) > w
      BY <2>1, <3>2
    <3>4. conn.cut_valid => ~(Position(p.seq) <= w)
      <4> HIDE DEF w
      <4> QED BY <1>5, <3>2, <3>3
    <3> QED BY <1>6, <3>4
  <2> QED BY <2>8, <2>9
<1>11. ASSUME Handled(conn, c), SentAgain
       PROVE  conn'.cuts > conn.cuts \/ conn'.inflight[1].seq \in cut_flight
  <2>1. PICK p \in Lists!ToSet(conn.inflight), q \in Lists!ToSet(c.inflight) :
          p.seq = q.seq /\ p.transmissions < q.transmissions
    BY <1>1, <1>3, <1>11 DEF SentAgain
  <2>2. PICK i \in 1 .. Len(conn.inflight) : p = conn.inflight[i]
    BY ToSetSeqs
  <2>3. PICK j \in 1 .. Len(c.inflight) : q = c.inflight[j]
    BY ToSetSeqs
  <2>4. Resent(conn, c)
    BY <2>1, <2>2, <2>3 DEF Resent
  <2>5. CASE CutsNow(conn, c)
    <3>1. d.cuts = conn.cuts + 1
      BY <1>3, <2>5 DEF CutsNow, SameCut
    <3> QED BY <1>1, <1>8, <3>1
  <2>6. CASE StillCut(conn, c)
    <3>1. conn.cut_valid /\ c.inflight[1].seq \in Seqs(conn) /\ Position(c.inflight[1].seq) <= w
      BY <2>6 DEF StillCut
    <3> QED BY <1>1, <1>3, <1>6, <3>1
  <2> QED BY <1>11, <2>4, <2>5, <2>6 DEF Handled
<1>12. SameCut(conn, c) \/ CutsNow(conn, c)
  BY DEF Steps
<1> QED BY <1>9, <1>10, <1>11, <1>12 DEF CutForLoss

-----------------------------------------------------------------------------
(* What the handlers do to the numbers.                                     *)

\* A handler that no acknowledgement moves.
Grown(c, d) ==
  /\ BelowThreshold(d) /\ Filled(c, d)
  /\ \A s \in Seqs(c) : s \in Seqs(d)
  /\ d.dup_acks = c.dup_acks /\ d.last_ack_seen = c.last_ack_seen
  /\ c.inflight # <<>> => d.inflight # <<>> /\ d.inflight[1].sacked_past = c.inflight[1].sacked_past

\* The connection that a handler's step leaves has the packets of c.
LEMMA LeavesFew ==
  ASSUME NEW c, Fits(c), NEW arrivals, Leaves(c, arrivals), Few'
  PROVE  2 * Len(c.inflight) < SeqMod /\ 2 * Position(c.seq_nr) < SeqMod
<1>1. c \in Conn
  BY DEF Fits
<1>2. conn' = [c EXCEPT !.out_frames = {}]
  BY DEF Leaves
<1>3. conn'.inflight = c.inflight /\ conn'.seq_nr = c.seq_nr
  BY <1>1, <1>2 DEF Conn
<1> QED BY <1>3 DEF Few, FewUsed

LEMMA AppSendNumbers ==
  ASSUME SenderInv, Numbers, Few, Few', NEW size \in PayloadSizes, app_send(size)
  PROVE  \E c : Fits(c) /\ Handled(conn, c) /\ Grown(conn, c) /\ Leaves(c, 0)
<1> DEFINE d == [conn EXCEPT !.pending = Append(@, [payload |-> Len(Append(submitted, size)), remaining |-> size])]
           e == packetize(d)
           s == Append(submitted, size)
<1>1. submitted' = s /\ Len(submitted) < MaxPayloads /\ Leaves(e, 0)
  BY DEF app_send
<1>2. Streams(d, s) /\ s \in Seq(PayloadSizes)
  BY <1>1, AppendStreams DEF SenderInv
<1>3. Fits(conn) /\ conn.out_frames = {} /\ conn \in Conn
  BY DEF SenderInv, Streams, Fits
<1>4. Quiet(conn, d) /\ d.dup_acks = conn.dup_acks /\ d.last_ack_seen = conn.last_ack_seen
  BY <1>3 DEF Quiet, SameCut, Conn
<1> HIDE DEF d, s
<1>5. Streams(e, s)
  BY <1>2, PacketizeStreams
<1>6. Fits(d) /\ Fits(e)
  BY <1>2, <1>5 DEF Streams
<1>7. Handled(conn, d) /\ Rising(d) /\ Seqs(d) = Seqs(conn)
  <2>1. Handled(conn, conn)
    BY <1>3, NothingHandled DEF Numbers, Few
  <2>2. Handled(conn, d)
    BY <1>4, <2>1, QuietLast
  <2> QED BY <1>4, <2>2, QuietIs DEF Numbers
<1>8. Extends(d, e)
  <2>1. 2 * Len(e.inflight) < SeqMod
    BY <1>1, <1>6, LeavesFew
  <2>2. 2 * Position(d.seq_nr) < SeqMod
    BY <1>4 DEF Quiet, Few, FewUsed
  <2> HIDE DEF e
  <2>3. e = packetize(d)
    BY DEF e
  <2> QED BY <1>2, <1>7, <2>1, <2>2, <2>3, PacketizeExtends
<1> HIDE DEF e
<1>9. Handled(conn, e)
  BY <1>3, <1>6, <1>7, <1>8, ExtendsHandled DEF Numbers
<1>10. Grown(conn, e)
  <2>1. BelowThreshold(d)
    BY <1>4 DEF Quiet, BelowThreshold, Numbers
  <2>2. BelowThreshold(e)
    BY <1>6, <1>8, <2>1, ExtendsBelow
  <2>3. e.dup_acks = conn.dup_acks /\ e.last_ack_seen = conn.last_ack_seen
    BY <1>4, <1>8 DEF Extends
  <2>4. Filled(conn, e)
    BY <1>4, <1>8 DEF Extends, Filled, Quiet
  <2>5. /\ Len(d.inflight) \in Nat /\ Len(e.inflight) \in Nat /\ Len(d.inflight) <= Len(e.inflight)
        /\ \A k \in 1 .. Len(d.inflight) : e.inflight[k] = d.inflight[k]
    BY <1>6, <1>8, PacketsOf DEF Extends
  <2>6. \A x \in Seqs(conn) : x \in Seqs(e)
    <3>1. Seqs(d) = {d.inflight[i].seq : i \in 1 .. Len(d.inflight)}
      BY <1>6, SeqsAre
    <3>2. Seqs(e) = {e.inflight[i].seq : i \in 1 .. Len(e.inflight)}
      BY <1>6, SeqsAre
    <3>3. \A i \in 1 .. Len(d.inflight) : i \in 1 .. Len(e.inflight) /\ e.inflight[i].seq = d.inflight[i].seq
      BY <2>5
    <3> QED BY <1>7, <3>1, <3>2, <3>3
  <2>7. conn.inflight # <<>> => e.inflight # <<>> /\ e.inflight[1].sacked_past = conn.inflight[1].sacked_past
    <3>1. SUFFICES ASSUME conn.inflight # <<>> PROVE e.inflight # <<>> /\ e.inflight[1] = d.inflight[1] /\ d.inflight = conn.inflight
      OBVIOUS
    <3>2. d.inflight = conn.inflight /\ d.inflight \in Seq(InflightPkt) /\ e.inflight \in Seq(InflightPkt)
      BY <1>4, <1>6, PacketsOf DEF Quiet
    <3>3. 1 \in 1 .. Len(d.inflight)
      BY <3>1, <3>2, FirstIndex
    <3>4. 1 \in 1 .. Len(e.inflight)
      BY <2>5, <3>3
    <3> QED BY <2>5, <3>2, <3>3, <3>4, FirstIndex
  <2> QED BY <2>2, <2>3, <2>4, <2>6, <2>7 DEF Grown
<1> QED BY <1>1, <1>6, <1>9, <1>10 DEF e

\* The timer expires: the front is sent again.
LEMMA TimeoutNumbers ==
  ASSUME SenderInv, Numbers, Few, on_timeout
  PROVE  \E c : /\ Fits(c) /\ Steps(conn, c) /\ Grown(conn, c) /\ Leaves(c, 0)
                /\ c.inflight[1].transmissions # conn.inflight[1].transmissions
<1> DEFINE c == [conn EXCEPT !.timeout = 2 * conn.timeout, !.cwnd = MinPacket]
           d == retransmit(c, {1})
<1>1. conn.inflight # <<>> /\ Leaves(d, 0)
  BY DEF on_timeout
<1>2. Fits(conn) /\ conn \in Conn /\ conn.out_frames = {}
  BY DEF SenderInv, Streams, Fits
<1>3. Fits(c) /\ Quiet(conn, c) /\ c.dup_acks = conn.dup_acks /\ c.last_ack_seen = conn.last_ack_seen
  <2>1. /\ conn.idle \in Nat /\ 2 * conn.timeout \in Nat /\ conn.dup_acks \in Nat
        /\ conn.last_ack_seen \in Uint16
    BY <1>2 DEF Conn
  <2>2. Fits(c)
    BY <1>2, <2>1, OtherFields DEF Kept
  <2> QED BY <1>2, <2>2 DEF Conn, Quiet, SameCut
<1> HIDE DEF c
<1>4. 1 \in 1 .. Len(c.inflight) /\ c.inflight = conn.inflight /\ c.inflight \in Seq(InflightPkt)
  <2>1. c.inflight = conn.inflight /\ c.inflight \in Seq(InflightPkt)
    BY <1>3, PacketsOf DEF Quiet
  <2> QED BY <1>1, <2>1, FirstIndex
<1>5. /\ Fits(d) /\ SameSeqs(c, d) /\ SameCut(c, d)
      /\ d.seq_nr = c.seq_nr /\ d.dup_acks = c.dup_acks /\ d.last_ack_seen = c.last_ack_seen
      /\ \A k \in 1 .. Len(c.inflight) :
           /\ d.inflight[k].sacked_past = c.inflight[k].sacked_past
           /\ d.inflight[k].transmissions = IF k \in {1} THEN c.inflight[k].transmissions + 1
                                            ELSE c.inflight[k].transmissions
      /\ \A f \in d.out_frames : f \in c.out_frames \/ f.seq \in Seqs(c)
  <2>1. {1} \in SUBSET (1 .. Len(c.inflight))
    BY <1>4
  <2> HIDE DEF d
  <2>2. d = retransmit(c, {1})
    BY DEF d
  <2> QED BY <1>3, <2>1, <2>2, RetransmitIs
<1> HIDE DEF d
<1>6. /\ Len(d.inflight) = Len(c.inflight)
      /\ \A k \in 1 .. Len(c.inflight) : d.inflight[k].seq = c.inflight[k].seq
  BY <1>5 DEF SameSeqs
<1>7. Seqs(d) = Seqs(conn) /\ Seqs(c) = Seqs(conn)
  <2>1. Seqs(c) = {c.inflight[i].seq : i \in 1 .. Len(c.inflight)}
    BY <1>3, SeqsAre
  <2>2. Seqs(d) = {d.inflight[i].seq : i \in 1 .. Len(d.inflight)}
    BY <1>5, SeqsAre
  <2>3. Seqs(c) = Seqs(conn)
    BY <1>3, QuietIs
  <2> QED BY <1>6, <2>1, <2>2, <2>3
<1>8. Rising(c) /\ CutKnown(c) /\ BelowThreshold(c)
  BY <1>3, <1>4, QuietIs DEF Numbers, BelowThreshold
<1>9. Steps(conn, d)
  <2>1. Rising(d)
    BY <1>5, <1>6, <1>8 DEF Rising
  <2>2. SameCut(conn, d) /\ d.seq_nr = conn.seq_nr
    BY <1>3, <1>5 DEF Quiet, SameCut
  <2>3. Position(conn.seq_nr) \in Nat
    BY <1>2, PlacesAre
  <2>4. \A f \in d.out_frames : Position(f.seq) > 0 /\ Position(f.seq) < Position(d.seq_nr)
    <3>1. ASSUME NEW f \in d.out_frames PROVE f.seq \in Seqs(conn)
      BY <1>2, <1>3, <1>5, <1>7 DEF Quiet
    <3>2. \A x \in Seqs(conn) : Position(x) > 0 /\ Position(x) < Position(conn.seq_nr)
      BY <1>2, FrontFirst DEF Numbers
    <3> QED BY <2>2, <3>1, <3>2
  <2> QED BY <1>7, <2>1, <2>2, <2>3, <2>4 DEF Steps
<1>10. Grown(conn, d)
  <2>1. BelowThreshold(d)
    BY <1>5, <1>6, <1>8 DEF BelowThreshold
  <2>2. Filled(conn, d)
    <3>1. Position(conn.seq_nr) \in Nat /\ d.seq_nr = conn.seq_nr
      BY <1>2, <1>3, <1>5, PlacesAre DEF Quiet
    <3>2. \A x \in Uint16 : Position(x) \in Nat
      BY PositionIs
    <3> QED BY <3>1, <3>2 DEF Filled
  <2>3. d.inflight # <<>> /\ d.inflight[1].sacked_past = conn.inflight[1].sacked_past
    <3>1. d.inflight \in Seq(InflightPkt)
      BY <1>5, PacketsOf
    <3> QED BY <1>4, <1>5, <1>6, <3>1, FirstIndex
  <2> QED BY <1>3, <1>5, <1>7, <2>1, <2>2, <2>3 DEF Grown
<1>11. d.inflight[1].transmissions # conn.inflight[1].transmissions
  <2>1. c.inflight[1].transmissions \in Nat
    BY <1>3, <1>4, PacketsOf
  <2> QED BY <1>4, <1>5, <2>1
<1> QED BY <1>1, <1>5, <1>9, <1>10, <1>11 DEF d

\* An acknowledgement arrives.
LEMMA AckNumbers ==
  ASSUME SenderInv, NetworkType, Numbers, Few, Few', ReceiveAck, 2 * Position(acks[1].ack_nr) < SeqMod
  PROVE  /\ acks # <<>> /\ acks' = Tail(acks)
         /\ \E g : /\ Fits(g) /\ Handled(conn, g) /\ BelowThreshold(g) /\ Acked(conn, g, acks[1])
                   /\ Leaves(g, 1)
<1> DEFINE c == [conn EXCEPT !.idle = 0]
           pkt == Head(acks)
           left == apply_sack(DropAcked(c, pkt), pkt)
           Seen(d) == [d EXCEPT !.last_ack_seen = pkt.ack_nr]
           Moved == /\ Len(left.inflight) < Len(c.inflight)
                    /\ \E delay \in Delays, rto \in RttTimeouts :
                         Leaves(Seen(packetize(Progress(c, left, delay, rto))), 1)
           Stuck == /\ ~(Len(left.inflight) < Len(c.inflight))
                    /\ Leaves(Seen(NoProgress(left, pkt)), 1)
<1>1. acks # <<>> /\ acks \in Seq(AckFrame) /\ acks' = Tail(acks) /\ process_acks(c, pkt)
  BY DEF ReceiveAck, NetworkType, AckFrame
<1>2. pkt = acks[1] /\ pkt \in AckFrame
  BY <1>1
<1>3. Moved \/ Stuck
  BY <1>1 DEF process_acks
<1>4. Fits(conn) /\ conn \in Conn /\ conn.out_frames = {} /\ Streams(conn, submitted) /\ submitted \in Seq(PayloadSizes)
  BY DEF SenderInv, Streams, Fits
<1>5. Kept(conn, c) /\ Quiet(conn, c) /\ c.dup_acks = conn.dup_acks /\ c.last_ack_seen = conn.last_ack_seen
  <2>1. 0 \in Nat /\ conn.timeout \in Nat /\ conn.dup_acks \in Nat /\ conn.last_ack_seen \in Uint16
    BY <1>4 DEF Conn
  <2>2. Kept(conn, c)
    BY <1>4, <2>1, OtherFields
  <2> QED BY <1>4, <2>2 DEF Conn, Quiet, SameCut
<1> HIDE DEF c, pkt
<1>6. Streams(c, submitted) /\ Fits(c)
  <2>1. Streams(c, submitted)
    BY <1>4, <1>5, KeptStreams
  <2> QED BY <2>1 DEF Streams
<1>7. FewUsed(c) /\ Rising(c) /\ CutKnown(c) /\ BelowThreshold(c) /\ c.out_frames = {} /\ Seqs(c) = Seqs(conn)
  <2>1. BelowThreshold(c)
    BY <1>5 DEF Quiet, BelowThreshold, Numbers
  <2>2. c.out_frames = {}
    BY <1>4, <1>5 DEF Quiet
  <2> QED BY <1>5, <2>1, <2>2, QuietIs DEF Numbers, Few
<1>8. 2 * Position(pkt.ack_nr) < SeqMod
  BY <1>2
<1>9. Kept(c, left) /\ Fits(left)
  <2>1. Kept(c, left)
    BY <1>2, <1>6, AckLeaves
  <2> QED BY <2>1 DEF Kept
<1>10. ASSUME NEW f, Fits(f) PROVE /\ Fits(Seen(f)) /\ Quiet(f, Seen(f)) /\ Seen(f).dup_acks = f.dup_acks
                                   /\ Seen(f).last_ack_seen = pkt.ack_nr
  <2>1. f \in Conn
    BY <1>10 DEF Fits
  <2>2. f.idle \in Nat /\ f.timeout \in Nat /\ f.dup_acks \in Nat /\ pkt.ack_nr \in Uint16
    BY <1>2, <2>1 DEF Conn, AckFrame
  <2>3. Fits(Seen(f))
    BY <1>10, <2>2, OtherFields DEF Kept
  <2> QED BY <2>1, <2>3 DEF Conn, Quiet, SameCut
<1>11. ASSUME NEW g, Fits(g), Handled(c, g), BelowThreshold(g), Acked(c, g, pkt), Leaves(g, 1)
       PROVE  Fits(g) /\ Handled(conn, g) /\ BelowThreshold(g) /\ Acked(conn, g, pkt) /\ Leaves(g, 1)
  <2>1. Handled(conn, g)
    BY <1>5, <1>11, QuietFirst
  <2>2. c.seq_nr = conn.seq_nr /\ c.inflight = conn.inflight
    BY <1>5 DEF Quiet
  <2>3. Filled(c, g) <=> Filled(conn, g)
    BY <2>2 DEF Filled
  <2>4. Acked(conn, g, pkt)
    BY <1>5, <1>7, <1>11, <2>2, <2>3 DEF Acked
  <2> QED BY <1>11, <2>1, <2>4
<1>12. CASE Moved
  <2>1. PICK delay \in Delays, rto \in RttTimeouts :
          Leaves(Seen(packetize(Progress(c, left, delay, rto))), 1)
    BY <1>12
  <2> DEFINE e == Progress(c, left, delay, rto)
             f == packetize(e)
             g == Seen(f)
  <2>2. Len(left.inflight) < Len(c.inflight) /\ Len(left.inflight) \in Nat /\ Len(c.inflight) \in Nat
    BY <1>6, <1>9, <1>12, PacketsOf
  <2>3. c.inflight # <<>>
    <3>1. c.inflight = <<>> => Len(c.inflight) = 0
      OBVIOUS
    <3> HIDE DEF Moved, left
    <3> QED BY <2>2, <3>1
  <2>4. Streams(e, submitted)
    <3>1. Kept(c, e)
      BY <1>6, <1>9, <2>3, ProgressKeeps
    <3> HIDE DEF e
    <3> QED BY <1>4, <1>6, <3>1, KeptStreams
  <2>5. Quiet(left, e) /\ e.dup_acks = 0
    <3> HIDE DEF left, e
    <3>1. e = Progress(c, left, delay, rto)
      BY DEF e
    <3> QED BY <1>9, <3>1, ProgressQuiet
  <2>6. Leaves(g, 1)
    BY <2>1
  <2> HIDE DEF e, left, Moved, Stuck
  <2>7. Streams(f, submitted)
    BY <1>4, <2>4, PacketizeStreams
  <2> HIDE DEF f
  <2>8. Fits(f) /\ Fits(g) /\ Quiet(f, g) /\ g.dup_acks = f.dup_acks /\ g.last_ack_seen = pkt.ack_nr
    BY <1>10, <2>7 DEF Streams
  <2> HIDE DEF g
  <2>9. 2 * Len(f.inflight) < SeqMod
    <3>1. 2 * Len(g.inflight) < SeqMod
      BY <2>6, <2>8, LeavesFew
    <3> QED BY <2>8, <3>1 DEF Quiet
  <2>10. left = apply_sack(DropAcked(c, pkt), pkt) /\ f = packetize(e) /\ Len(left.inflight) # Len(c.inflight)
    BY <2>2 DEF left, f
  <2>11. Handled(c, g) /\ BelowThreshold(g) /\ Acked(c, g, pkt)
    BY <1>2, <1>4, <1>6, <1>7, <1>8, <2>4, <2>5, <2>8, <2>9, <2>10, MovedIs
  <2> QED BY <1>1, <1>2, <1>11, <2>6, <2>8, <2>11
<1>13. CASE Stuck
  <2> DEFINE f == NoProgress(left, pkt)
             g == Seen(f)
  <2>1. ~(Len(left.inflight) < Len(c.inflight)) /\ Leaves(g, 1)
    BY <1>13
  <2>2. Fits(f)
    BY <1>2, <1>9, NoProgressKeeps DEF Kept
  <2> HIDE DEF f, Moved, Stuck, left
  <2>3. Fits(g) /\ Quiet(f, g) /\ g.dup_acks = f.dup_acks /\ g.last_ack_seen = pkt.ack_nr
    BY <1>10, <2>2
  <2> HIDE DEF g
  <2>4. left = apply_sack(DropAcked(c, pkt), pkt) /\ f = NoProgress(left, pkt)
    BY DEF left, f
  <2>5. Handled(c, g) /\ BelowThreshold(g) /\ Acked(c, g, pkt)
    BY <1>2, <1>6, <1>7, <1>8, <2>1, <2>3, <2>4, StuckIs
  <2> QED BY <1>1, <1>2, <1>11, <2>1, <2>3, <2>5
<1> HIDE DEF Moved, Stuck
<1> QED BY <1>3, <1>12, <1>13

-----------------------------------------------------------------------------
(* The numbers that the other end has, and those that it tells.             *)

Awaited(c) == Seqs(c) \cup {c.seq_nr}

\* p has received, of what c sent, all but what is in flight, and the packets in
\* F were sent.
ReceivedOf(p, F, c) ==
  /\ Position(p.ack_nr) < Position(c.seq_nr)
  /\ \A s \in p.ooo : Position(s) > Position(p.ack_nr) + 1 /\ Position(s) < Position(c.seq_nr)
  /\ \A f \in F : Position(f.seq) > 0 /\ Position(f.seq) < Position(c.seq_nr)
  /\ \A s \in Uint16 : /\ Position(p.ack_nr) < Position(s) /\ Position(s) < Position(c.seq_nr)
                       /\ s \notin p.ooo
                       => s \in Seqs(c)

\* What an acknowledgement says has been received, and the next is awaited.
Tells(a, p, c) ==
  /\ Position(a.ack_nr) <= Position(p.ack_nr) /\ Plus(a.ack_nr, 1) \in Awaited(c)
  /\ \A s \in a.sack : s \in p.ooo \/ Position(s) <= Position(p.ack_nr)

\* An acknowledgement and one sent later.
InOrder(a, b) == Position(a.ack_nr) <= Position(b.ack_nr) /\ Plus(b.ack_nr, 1) \notin a.sack

ToldOf(q, p, c) ==
  /\ \A i \in 1 .. Len(q) : Tells(q[i], p, c)
  /\ \A i, j \in 1 .. Len(q) : i <= j => InOrder(q[i], q[j])

\* Packets received since the front was sent are counted at it.
HeardOf(h, q, p, c) ==
  h > 0 =>
    /\ c.inflight # <<>> /\ Plus(c.last_ack_seen, 1) \in Awaited(c)
    /\ Position(c.last_ack_seen) <= Position(p.ack_nr)
    /\ \A i \in 1 .. Len(q) : Position(c.last_ack_seen) <= Position(q[i].ack_nr)
    /\ h <= c.inflight[1].sacked_past * DupAckThreshold + c.dup_acks + 1

\* The types of what these are about.
Peers == [ack_nr : Uint16, ooo : SUBSET Uint16]

\* What a type says of the places of a connection awaiting a number.
LEMMA AwaitedIs ==
  ASSUME NEW c, Fits(c)
  PROVE  Awaited(c) \subseteq Uint16
<1>1. c.seq_nr \in Uint16 /\ Seqs(c) \subseteq Uint16
  BY PacketsOf, SeqsType
<1> QED BY <1>1 DEF Awaited

\* The next number is at the next place.
LEMMA NextPlace ==
  ASSUME NEW c, Fits(c), 2 * Position(c.seq_nr) < SeqMod, NEW s \in Uint16, Position(s) < Position(c.seq_nr)
  PROVE  /\ Plus(s, 1) \in Uint16 /\ Position(Plus(s, 1)) = Position(s) + 1 /\ Position(s) \in Nat
         /\ 2 * Position(s) < SeqMod /\ Position(c.seq_nr) \in Nat
<1>1. Position(s) \in Nat /\ Position(c.seq_nr) \in Nat
  BY PositionIs, PlacesAre
<1>2. 0 <= Position(s) + 1 /\ Position(s) + 1 < SeqMod /\ 1 \in Int
  BY <1>1, FirstSeqIs
<1>3. Plus(s, 1) \in Uint16 /\ Position(Plus(s, 1)) = Position(s) + 1
  BY <1>2, PositionPlus
<1>4. 2 * Position(s) < SeqMod
  BY <1>1, FirstSeqIs
<1> QED BY <1>1, <1>3, <1>4

\* The receiver awaits what is in flight, or what is sent next.
LEMMA NextAwaited ==
  ASSUME NEW c, Fits(c), 2 * Position(c.seq_nr) < SeqMod, NEW p \in Peers, NEW F, ReceivedOf(p, F, c)
  PROVE  Plus(p.ack_nr, 1) \in Awaited(c)
<1> DEFINE t == Plus(p.ack_nr, 1)
<1>1. p.ack_nr \in Uint16 /\ Position(p.ack_nr) < Position(c.seq_nr) /\ c.seq_nr \in Uint16
  BY PacketsOf DEF Peers, ReceivedOf
<1>2. /\ t \in Uint16 /\ Position(t) = Position(p.ack_nr) + 1 /\ Position(p.ack_nr) \in Nat
      /\ Position(c.seq_nr) \in Nat
  BY <1>1, NextPlace
<1> HIDE DEF t
<1>3. CASE Position(t) = Position(c.seq_nr)
  BY <1>1, <1>2, <1>3, PositionInjective DEF Awaited, t
<1>4. CASE Position(t) # Position(c.seq_nr)
  <2>1. Position(t) < Position(c.seq_nr) /\ Position(p.ack_nr) < Position(t)
    BY <1>1, <1>2, <1>4
  <2>2. t \notin p.ooo
    BY <1>2, <2>1 DEF ReceivedOf
  <2> QED BY <1>2, <2>1, <2>2 DEF ReceivedOf, Awaited, t
<1> QED BY <1>3, <1>4

\* A number stays awaited if it stays in flight.
LEMMA StillAwaited ==
  ASSUME NEW c, Fits(c), NEW d, Fits(d), Filled(c, d), Position(c.seq_nr) <= Position(d.seq_nr),
         NEW s \in Awaited(c), s \in Seqs(c) => s \in Seqs(d)
  PROVE  s \in Awaited(d)
<1>1. CASE s \in Seqs(c)
  BY <1>1 DEF Awaited
<1>2. CASE s = c.seq_nr
  <2>1. s \in Uint16 /\ d.seq_nr \in Uint16 /\ Position(s) \in Nat /\ Position(d.seq_nr) \in Nat
    BY <1>2, PacketsOf, PlacesAre
  <2>2. CASE Position(s) = Position(d.seq_nr)
    BY <2>1, <2>2, PositionInjective DEF Awaited
  <2>3. CASE Position(s) # Position(d.seq_nr)
    <3>1. Position(c.seq_nr) <= Position(s) /\ Position(s) < Position(d.seq_nr)
      BY <1>2, <2>1, <2>3
    <3> QED BY <2>1, <3>1 DEF Filled, Awaited
  <2> QED BY <2>2, <2>3
<1> QED BY <1>1, <1>2 DEF Awaited

\* A handler's step, by what stays in flight.
LEMMA ReceivedOn ==
  ASSUME NEW c, Fits(c), NEW d, Fits(d), Filled(c, d), Position(c.seq_nr) <= Position(d.seq_nr),
         NEW p \in Peers, NEW F, ReceivedOf(p, F, c), NEW G,
         \A f \in F : f.seq \in Uint16,
         \A f \in G : Position(f.seq) > 0 /\ Position(f.seq) < Position(d.seq_nr),
         \A s \in Seqs(c) : Position(p.ack_nr) < Position(s) /\ s \notin p.ooo => s \in Seqs(d)
  PROVE  ReceivedOf(p, F \cup G, d)
<1> DEFINE x == Position(c.seq_nr)
           y == Position(d.seq_nr)
           a == Position(p.ack_nr)
<1>1. x \in Nat /\ y \in Nat /\ a \in Nat /\ x <= y /\ a < x /\ p.ooo \subseteq Uint16
  BY PlacesAre, PositionIs DEF Peers, ReceivedOf
<1> HIDE DEF x, y, a
<1>2. \A s \in Uint16 : Position(s) \in Nat
  BY PositionIs
<1>3. ASSUME NEW s \in p.ooo PROVE Position(s) > a + 1 /\ Position(s) < y
  <2>1. Position(s) > a + 1 /\ Position(s) < x /\ Position(s) \in Nat
    BY <1>1, <1>2 DEF ReceivedOf, x, a
  <2> QED BY <1>1, <2>1
<1>4. ASSUME NEW f \in F \cup G PROVE Position(f.seq) > 0 /\ Position(f.seq) < y
  <2>1. CASE f \in F
    <3>1. Position(f.seq) > 0 /\ Position(f.seq) < x /\ Position(f.seq) \in Nat
      BY <1>2, <2>1 DEF ReceivedOf, x
    <3> QED BY <1>1, <3>1
  <2>2. CASE f \in G
    BY <2>2 DEF y
  <2> QED BY <2>1, <2>2
<1>5. ASSUME NEW s \in Uint16, a < Position(s), Position(s) < y, s \notin p.ooo PROVE s \in Seqs(d)
  <2>1. CASE Position(s) < x
    <3>1. s \in Seqs(c)
      BY <1>5, <2>1 DEF ReceivedOf, x, a
    <3> QED BY <1>5, <3>1 DEF a
  <2>2. CASE ~(Position(s) < x)
    <3>1. x <= Position(s)
      BY <1>1, <1>2, <2>2
    <3> QED BY <1>5, <3>1 DEF Filled, x, y
  <2> QED BY <2>1, <2>2
<1>6. a < y
  BY <1>1
<1> QED BY <1>3, <1>4, <1>5, <1>6 DEF ReceivedOf, y, a

LEMMA ToldOn ==
  ASSUME NEW c, Fits(c), NEW d, Fits(d), Filled(c, d), Position(c.seq_nr) <= Position(d.seq_nr),
         NEW p, NEW q, ToldOf(q, p, c),
         \A i \in 1 .. Len(q) : Plus(q[i].ack_nr, 1) \in Seqs(c) => Plus(q[i].ack_nr, 1) \in Seqs(d)
  PROVE  ToldOf(q, p, d)
<1>1. ASSUME NEW i \in 1 .. Len(q) PROVE Tells(q[i], p, d)
  <2>1. Tells(q[i], p, c)
    BY DEF ToldOf
  <2>2. Plus(q[i].ack_nr, 1) \in Awaited(d)
    <3> DEFINE t == Plus(q[i].ack_nr, 1)
    <3>1. t \in Awaited(c) /\ (t \in Seqs(c) => t \in Seqs(d))
      BY <2>1 DEF Tells
    <3> HIDE DEF t
    <3> QED BY <3>1, StillAwaited DEF t
  <2> QED BY <2>1, <2>2 DEF Tells
<1> QED BY <1>1 DEF ToldOf

\* r has some of q, in the order of q.
Picked(q, r) ==
  \E f \in [1 .. Len(r) -> 1 .. Len(q)] :
    /\ \A k \in 1 .. Len(r) : r[k] = q[f[k]]
    /\ \A k, l \in 1 .. Len(r) : k <= l => f[k] <= f[l]

LEMMA ToldSome ==
  ASSUME NEW p, NEW c, NEW q, ToldOf(q, p, c), NEW r, Picked(q, r)
  PROVE  ToldOf(r, p, c) /\ \A k \in 1 .. Len(r) : \E i \in 1 .. Len(q) : r[k] = q[i]
<1>1. PICK f \in [1 .. Len(r) -> 1 .. Len(q)] :
        /\ \A k \in 1 .. Len(r) : r[k] = q[f[k]]
        /\ \A k, l \in 1 .. Len(r) : k <= l => f[k] <= f[l]
  BY DEF Picked
<1>2. \A k \in 1 .. Len(r) : f[k] \in 1 .. Len(q)
  BY <1>1
<1> QED BY <1>1, <1>2 DEF ToldOf

LEMMA TailPicked ==
  ASSUME NEW S, NEW q \in Seq(S), q # <<>>
  PROVE  Picked(q, Tail(q))
<1> DEFINE r == Tail(q)
           f == [k \in 1 .. Len(r) |-> k + 1]
<1>1. /\ Len(r) = Len(q) - 1 /\ Len(q) \in Nat /\ Len(r) \in Nat
      /\ \A k \in 1 .. Len(r) : r[k] = q[k + 1]
  OBVIOUS
<1> HIDE DEF r
<1>2. f \in [1 .. Len(r) -> 1 .. Len(q)]
  BY <1>1
<1>3. /\ \A k \in 1 .. Len(r) : r[k] = q[f[k]]
      /\ \A k, l \in 1 .. Len(r) : k <= l => f[k] <= f[l]
  BY <1>1
<1> QED BY <1>2, <1>3 DEF Picked, r

LEMMA RemovedPicked ==
  ASSUME NEW S, NEW q \in Seq(S), NEW i \in DOMAIN q
  PROVE  Picked(q, Lists!RemoveAt(q, i))
<1> DEFINE a == SubSeq(q, 1, i - 1)
           b == SubSeq(q, i + 1, Len(q))
           r == a \o b
           f == [k \in 1 .. Len(r) |-> IF k < i THEN k ELSE k + 1]
<1>1. Len(q) \in Nat /\ i \in 1 .. Len(q)
  OBVIOUS
<1>2. /\ 1 \in 1 .. Len(q) + 1 /\ i - 1 \in 1 - 1 .. Len(q)
      /\ i + 1 \in 1 .. Len(q) + 1 /\ Len(q) \in (i + 1) - 1 .. Len(q)
  BY <1>1
<1>3. /\ a \in Seq(S) /\ Len(a) = i - 1 /\ \A k \in 1 .. i - 1 : a[k] = q[k]
      /\ b \in Seq(S) /\ Len(b) = Len(q) - i /\ \A k \in 1 .. Len(q) - i : b[k] = q[i + k]
  OBVIOUS
<1> HIDE DEF a, b
<1>4. /\ Len(r) = Len(q) - 1
      /\ \A k \in 1 .. Len(q) - 1 : r[k] = IF k <= i - 1 THEN a[k] ELSE b[k - (i - 1)]
  <2>1. Len(r) = Len(a) + Len(b) /\ \A k \in 1 .. Len(a) + Len(b) : r[k] = IF k <= Len(a) THEN a[k] ELSE b[k - Len(a)]
    BY <1>3, ConcatIs
  <2>2. Len(a) + Len(b) = Len(q) - 1
    BY <1>1, <1>3
  <2> HIDE DEF r
  <2> QED BY <1>3, <2>1, <2>2
<1> HIDE DEF r
<1>5. f \in [1 .. Len(r) -> 1 .. Len(q)]
  BY <1>1, <1>4
<1>6. ASSUME NEW k \in 1 .. Len(r) PROVE r[k] = q[f[k]]
  <2>1. k \in 1 .. Len(q) - 1
    BY <1>4
  <2>2. CASE k < i
    <3>1. k <= i - 1 /\ k \in 1 .. i - 1
      BY <1>1, <2>1, <2>2
    <3>2. r[k] = q[k]
      BY <1>3, <1>4, <2>1, <3>1
    <3> QED BY <2>2, <3>2
  <2>3. CASE ~(k < i)
    <3>1. ~(k <= i - 1) /\ k - (i - 1) \in 1 .. Len(q) - i /\ i + (k - (i - 1)) = k + 1
      BY <1>1, <2>1, <2>3
    <3>2. r[k] = q[k + 1]
      BY <1>3, <1>4, <2>1, <3>1
    <3> QED BY <2>3, <3>2
  <2> QED BY <2>2, <2>3
<1>7. \A k, l \in 1 .. Len(r) : k <= l => f[k] <= f[l]
  BY <1>1, <1>4
<1>8. Picked(q, r)
  <2> HIDE DEF f
  <2> QED BY <1>5, <1>6, <1>7 DEF Picked
<1> QED BY <1>8 DEF r, a, b, Lists!RemoveAt

\* r is the other end when it has received more than p.
Later(p, r) ==
  /\ Position(p.ack_nr) <= Position(r.ack_nr)
  /\ \A s \in p.ooo : s \in r.ooo \/ Position(s) <= Position(r.ack_nr)

\* What an acknowledgement tells, it tells of any later state.
LEMMA ToldLater ==
  ASSUME NEW c, NEW p \in Peers, NEW r \in Peers, Later(p, r), NEW a \in AckFrame, Tells(a, p, c)
  PROVE  Tells(a, r, c)
<1>1. /\ Position(a.ack_nr) \in Nat /\ Position(p.ack_nr) \in Nat /\ Position(r.ack_nr) \in Nat
      /\ a.sack \subseteq Uint16
  BY PositionIs DEF Peers, AckFrame
<1>2. Position(a.ack_nr) <= Position(r.ack_nr)
  BY <1>1 DEF Tells, Later
<1>3. ASSUME NEW s \in a.sack PROVE s \in r.ooo \/ Position(s) <= Position(r.ack_nr)
  <2>1. Position(s) \in Nat /\ (s \in p.ooo \/ Position(s) <= Position(p.ack_nr))
    BY <1>1, PositionIs DEF Tells
  <2> QED BY <1>1, <2>1 DEF Later
<1> QED BY <1>2, <1>3 DEF Tells

\* A new acknowledgement follows those under way.
LEMMA ToldMore ==
  ASSUME NEW c, Fits(c), 2 * Position(c.seq_nr) < SeqMod, NEW p \in Peers, NEW r \in Peers, Later(p, r),
         NEW F, ReceivedOf(r, F, c), NEW q \in Seq(AckFrame), ToldOf(q, p, c),
         NEW b \in AckFrame, b.ack_nr = r.ack_nr, b.sack \subseteq r.ooo
  PROVE  ToldOf(Append(q, b), r, c)
<1> DEFINE t == Append(q, b)
           n == Len(q)
           x == Position(r.ack_nr)
           next == Plus(r.ack_nr, 1)
<1>1. n \in Nat /\ Len(t) = n + 1 /\ t[n + 1] = b /\ \A i \in 1 .. n : t[i] = q[i] /\ q[i] \in AckFrame
  OBVIOUS
<1>2. r.ack_nr \in Uint16 /\ Position(r.ack_nr) < Position(c.seq_nr)
  BY DEF Peers, ReceivedOf
<1>3. next \in Uint16 /\ Position(next) = x + 1 /\ x \in Nat
  BY <1>2, NextPlace
<1>4. next \notin r.ooo
  <2>1. \A s \in r.ooo : Position(s) > x + 1
    BY DEF ReceivedOf
  <2> QED BY <1>3, <2>1
<1>5. next \in Awaited(c)
  BY NextAwaited
<1> HIDE DEF t, n, x, next
<1>6. Tells(b, r, c) /\ InOrder(b, b)
  <2>1. Position(b.ack_nr) <= Position(r.ack_nr)
    BY <1>3 DEF x
  <2> QED BY <1>4, <1>5, <2>1 DEF Tells, InOrder, next
<1>7. ASSUME NEW i \in 1 .. n PROVE Tells(q[i], r, c) /\ InOrder(q[i], b)
  <2>1. Tells(q[i], p, c) /\ q[i] \in AckFrame
    BY <1>1 DEF ToldOf, n
  <2>2. Tells(q[i], r, c)
    BY <2>1, ToldLater
  <2>3. next \notin q[i].sack
    <3>1. ~(next \in r.ooo \/ Position(next) <= Position(r.ack_nr))
      BY <1>3, <1>4 DEF x
    <3> QED BY <2>2, <3>1 DEF Tells
  <2> QED BY <2>2, <2>3 DEF Tells, InOrder, next
<1>8. ASSUME NEW i \in 1 .. n + 1 PROVE Tells(t[i], r, c)
  <2>1. i \in 1 .. n \/ i = n + 1
    BY <1>1
  <2> QED BY <1>1, <1>6, <1>7, <2>1
<1>9. ASSUME NEW i \in 1 .. n + 1, NEW j \in 1 .. n + 1, i <= j PROVE InOrder(t[i], t[j])
  <2>1. CASE j \in 1 .. n
    <3>1. i \in 1 .. n
      BY <1>1, <1>9, <2>1
    <3>2. InOrder(q[i], q[j])
      BY <1>9, <2>1, <3>1 DEF ToldOf, n
    <3> QED BY <1>1, <2>1, <3>1, <3>2
  <2>2. CASE j = n + 1 /\ i \in 1 .. n
    BY <1>1, <1>7, <2>2
  <2>3. CASE j = n + 1 /\ i = n + 1
    BY <1>1, <1>6, <2>3
  <2>4. (i \in 1 .. n \/ i = n + 1) /\ (j \in 1 .. n \/ j = n + 1)
    BY <1>1
  <2> QED BY <2>1, <2>2, <2>3, <2>4
<1>10. ToldOf(t, r, c)
  BY <1>1, <1>8, <1>9 DEF ToldOf
<1> QED BY <1>10 DEF t

\* How many numbers after s were received before it, without a gap.
Run(s, O) == {k \in 1 .. SeqMod - 1 : \A j \in 1 .. k : Plus(s, j) \in O}

LEMMA RunIs ==
  ASSUME NEW s \in Uint16, NEW O \in SUBSET Uint16, NEW n \in Nat, 0 < Position(s), Position(s) < n, n < SeqMod,
         \A t \in O : Position(t) < n,
         NEW run, run = Run(s, O)
  PROVE  \E m \in Nat : /\ Cardinality(run) = m /\ run = 1 .. m /\ Position(s) + m < n
                        /\ Plus(s, m + 1) \notin O
<1> DEFINE x == Position(s)
           N == n - x
           L == SeqMod - 1
<1>1. x \in Nat /\ N \in Nat /\ N >= 1 /\ x + N = n /\ L \in Nat /\ N <= L /\ SeqMod \in Nat
  BY PositionIs, FirstSeqIs
<1>2. \A k \in 0 .. N : Plus(s, k) \in Uint16 /\ Position(Plus(s, k)) = x + k
  <2>1. SUFFICES ASSUME NEW k \in 0 .. N PROVE Plus(s, k) \in Uint16 /\ Position(Plus(s, k)) = x + k
    OBVIOUS
  <2>2. k \in Int /\ 0 <= x + k /\ x + k < SeqMod
    BY <1>1
  <2> QED BY <2>2, PositionPlus
<1>3. run \in SUBSET (1 .. L) /\ \A i \in run : \A j \in 1 .. i : j \in run
  <2>1. run \in SUBSET (1 .. L)
    BY DEF Run
  <2>2. ASSUME NEW i \in run, NEW j \in 1 .. i PROVE j \in run
    <3>1. i \in 1 .. L /\ j \in 1 .. L /\ \A k \in 1 .. j : k \in 1 .. i
      BY <1>1, <2>1
    <3> QED BY <3>1 DEF Run
  <2> QED BY <2>1, <2>2
<1> DEFINE m == Cardinality(run)
<1>4. m \in 0 .. L /\ run = 1 .. m
  BY <1>1, <1>3, PrefixCount
<1>5. \A k \in run : Plus(s, k) \in O
  <2>1. \A k \in run : k \in 1 .. k
    BY <1>3
  <2> QED BY <2>1 DEF Run
<1> HIDE DEF m, x, N, L
<1>6. m < N
  <2>1. SUFFICES ASSUME N <= m PROVE FALSE
    BY <1>1, <1>4
  <2>2. N \in run
    <3>1. m \in Nat
      BY <1>1, <1>4
    <3>2. N \in 1 .. m
      BY <1>1, <2>1, <3>1
    <3> QED BY <1>4, <3>2
  <2>3. Plus(s, N) \in O /\ Position(Plus(s, N)) = x + N
    BY <1>1, <1>2, <1>5, <2>2
  <2> QED BY <1>1, <2>3
<1>7. Plus(s, m + 1) \notin O
  <2>1. SUFFICES ASSUME Plus(s, m + 1) \in O PROVE FALSE
    OBVIOUS
  <2>2. m + 1 \in 1 .. L /\ m + 1 \notin run
    <3>1. m \in Nat
      BY <1>1, <1>4
    <3>2. m + 1 \in 1 .. L /\ m + 1 \notin 1 .. m
      BY <1>1, <1>6, <3>1
    <3> QED BY <1>4, <3>2
  <2>3. PICK j \in 1 .. m + 1 : Plus(s, j) \notin O
    <3>1. run = {k \in 1 .. L : \A j \in 1 .. k : Plus(s, j) \in O}
      BY DEF L, Run
    <3> QED BY <2>2, <3>1
  <2>4. j \in 1 .. m \/ j = m + 1
    BY <1>4
  <2> QED BY <1>4, <1>5, <2>1, <2>3, <2>4
<1>8. x + m < n /\ m \in Nat
  BY <1>1, <1>4, <1>6
<1> QED BY <1>4, <1>7, <1>8 DEF m, x

\* receive_data: what the other end has when a packet has arrived.
After(p, s) ==
  LET rel == seq_diff(s, p.ack_nr)
      run == Run(s, p.ooo)
  IN  IF rel <= 0 THEN p
      ELSE IF rel = 1
           THEN [ack_nr |-> Plus(s, Cardinality(run)), ooo |-> p.ooo \ {Plus(s, k) : k \in run}]
      ELSE [p EXCEPT !.ooo = @ \cup {s}]

LEMMA AfterIs ==
  ASSUME NEW c, Fits(c), 2 * Position(c.seq_nr) < SeqMod, NEW p \in Peers, NEW F, ReceivedOf(p, F, c),
         NEW s \in Uint16, 0 < Position(s), Position(s) < Position(c.seq_nr), NEW G, G \subseteq F,
         NEW r, r = After(p, s)
  PROVE  r \in Peers /\ Later(p, r) /\ ReceivedOf(r, G, c)
<1> DEFINE n == Position(c.seq_nr)
           a == Position(p.ack_nr)
           x == Position(s)
           run == Run(s, p.ooo)
<1>1. /\ n \in Nat /\ a \in Nat /\ x \in Nat /\ a < n /\ 2 * n < SeqMod /\ 2 * a < SeqMod /\ 2 * x < SeqMod
      /\ n < SeqMod /\ 0 < x /\ x < n
      /\ p.ack_nr \in Uint16 /\ p.ooo \subseteq Uint16
  <2>1. n \in Nat /\ a \in Nat /\ x \in Nat /\ a < n /\ p.ack_nr \in Uint16 /\ p.ooo \subseteq Uint16
    BY PlacesAre, PositionIs DEF Peers, ReceivedOf
  <2> QED BY <2>1, FirstSeqIs
<1>2. /\ \A t \in p.ooo : Position(t) > a + 1 /\ Position(t) < n /\ Position(t) \in Nat /\ t \in Uint16
      /\ \A f \in G : Position(f.seq) > 0 /\ Position(f.seq) < n
      /\ \A t \in Uint16 : a < Position(t) /\ Position(t) < n /\ t \notin p.ooo => t \in Seqs(c)
  BY <1>1, PositionIs DEF ReceivedOf
<1>3. seq_diff(s, p.ack_nr) = x - a
  BY <1>1, PositionDiff
<1>4. r = IF x - a <= 0 THEN p
          ELSE IF x - a = 1
               THEN [ack_nr |-> Plus(s, Cardinality(run)), ooo |-> p.ooo \ {Plus(s, k) : k \in run}]
          ELSE [p EXCEPT !.ooo = @ \cup {s}]
  BY <1>3 DEF After
<1>5. CASE x - a <= 0
  <2>1. r = p
    BY <1>4, <1>5
  <2>2. ReceivedOf(r, G, c)
    BY <1>1, <1>2, <2>1 DEF ReceivedOf
  <2> QED BY <1>1, <2>1, <2>2 DEF Later
<1>6. CASE x - a > 1
  <2>1. r = [p EXCEPT !.ooo = @ \cup {s}]
    BY <1>1, <1>4, <1>6
  <2>2. r \in Peers /\ r.ack_nr = p.ack_nr /\ r.ooo = p.ooo \cup {s}
    BY <1>1, <2>1 DEF Peers
  <2>3. \A t \in r.ooo : Position(t) > a + 1 /\ Position(t) < n
    BY <1>1, <1>2, <1>6, <2>2
  <2>4. ReceivedOf(r, G, c)
    BY <1>1, <1>2, <2>2, <2>3 DEF ReceivedOf
  <2> QED BY <1>1, <2>2, <2>4 DEF Later
<1>7. CASE x - a = 1
  <2>1. r = [ack_nr |-> Plus(s, Cardinality(run)), ooo |-> p.ooo \ {Plus(s, k) : k \in run}]
    BY <1>1, <1>4, <1>7
  <2>2. \E m \in Nat : /\ Cardinality(run) = m /\ run = 1 .. m /\ Position(s) + m < n
                       /\ Plus(s, m + 1) \notin p.ooo
    <3>1. /\ s \in Uint16 /\ p.ooo \in SUBSET Uint16 /\ n \in Nat /\ 0 < Position(s) /\ Position(s) < n
          /\ n < SeqMod
      BY <1>1
    <3>2. \A t \in p.ooo : Position(t) < n
      BY <1>2
    <3> HIDE DEF n
    <3> QED BY <3>1, <3>2, RunIs
  <2>3. PICK m \in Nat : /\ Cardinality(run) = m /\ run = 1 .. m /\ x + m < n
                         /\ Plus(s, m + 1) \notin p.ooo
    BY <2>2
  <2> HIDE DEF run, n, a, x
  <2>4. \A k \in 0 .. m + 1 : Plus(s, k) \in Uint16 /\ Position(Plus(s, k)) = x + k
    <3>1. SUFFICES ASSUME NEW k \in 0 .. m + 1 PROVE Plus(s, k) \in Uint16 /\ Position(Plus(s, k)) = x + k
      OBVIOUS
    <3>2. k \in Int /\ 0 <= k /\ k <= m + 1
      BY <2>3
    <3>3. 0 <= x + k /\ x + k < SeqMod
      BY <1>1, <2>3, <3>2, FirstSeqIs
    <3> QED BY <3>2, <3>3, PositionPlus DEF x
  <2>5. /\ r.ack_nr = Plus(s, m) /\ r.ooo = p.ooo \ {Plus(s, k) : k \in 1 .. m}
        /\ r.ack_nr \in Uint16 /\ Position(r.ack_nr) = x + m
    BY <2>1, <2>3, <2>4
  <2>6. r \in Peers
    <3>1. r = [ack_nr |-> Plus(s, m), ooo |-> p.ooo \ {Plus(s, k) : k \in 1 .. m}]
      BY <2>1, <2>3
    <3> QED BY <1>1, <2>5, <3>1 DEF Peers
  <2>7. ASSUME NEW t \in Uint16, x < Position(t), Position(t) <= x + m + 1
        PROVE  \E k \in 1 .. m + 1 : t = Plus(s, k)
    <3> DEFINE k == Position(t) - x
    <3>1. Position(t) \in Nat
      BY PositionIs
    <3>2. k \in 1 .. m + 1 /\ k \in 0 .. m + 1 /\ x + k = Position(t)
      BY <1>1, <2>7, <3>1
    <3>3. Plus(s, k) \in Uint16 /\ Position(Plus(s, k)) = Position(t)
      BY <2>4, <3>2
    <3> HIDE DEF k
    <3>4. t = Plus(s, k)
      BY <3>3, PositionInjective
    <3> QED BY <3>2, <3>4
  <2>8. ASSUME NEW t \in r.ooo PROVE Position(t) > x + m + 1 /\ Position(t) < n
    <3>1. t \in p.ooo /\ t \notin {Plus(s, k) : k \in 1 .. m}
      BY <2>5
    <3>2. Position(t) > x /\ Position(t) < n /\ Position(t) \in Nat /\ t \in Uint16
      BY <1>1, <1>2, <1>7, <3>1
    <3>3. ASSUME Position(t) <= x + m + 1 PROVE FALSE
      <4>1. PICK k \in 1 .. m + 1 : t = Plus(s, k)
        BY <2>7, <3>2, <3>3
      <4>2. k \in 1 .. m \/ k = m + 1
        BY <2>3
      <4> QED BY <2>3, <3>1, <4>1, <4>2
    <3> QED BY <1>1, <3>2, <3>3
  <2>9. ASSUME NEW t \in p.ooo PROVE t \in r.ooo \/ Position(t) <= x + m
    <3>1. CASE t \in {Plus(s, k) : k \in 1 .. m}
      <4>1. PICK k \in 1 .. m : t = Plus(s, k)
        BY <3>1
      <4>2. k \in 0 .. m + 1 /\ k <= m
        OBVIOUS
      <4> QED BY <1>1, <2>4, <4>1, <4>2
    <3>2. CASE t \notin {Plus(s, k) : k \in 1 .. m}
      BY <2>5, <3>2
    <3> QED BY <3>1, <3>2
  <2>10. Later(p, r)
    <3>1. a <= x + m
      BY <1>1, <1>7
    <3> QED BY <2>5, <2>9, <3>1 DEF Later, a
  <2>11. ASSUME NEW t \in Uint16, x + m < Position(t), Position(t) < n, t \notin r.ooo PROVE t \in Seqs(c)
    <3>1. Position(t) \in Nat
      BY PositionIs
    <3>2. t \notin p.ooo
      BY <1>1, <2>9, <2>11, <3>1
    <3>3. a < Position(t)
      BY <1>1, <1>7, <2>11, <3>1
    <3> QED BY <1>2, <2>11, <3>2, <3>3
  <2>12. ReceivedOf(r, G, c)
    <3>1. \A t \in r.ooo : Position(t) > Position(r.ack_nr) + 1 /\ Position(t) < n
      BY <2>5, <2>8
    <3> QED BY <1>2, <2>3, <2>5, <2>11, <3>1 DEF ReceivedOf, n
  <2> QED BY <2>6, <2>10, <2>12
<1> QED BY <1>1, <1>5, <1>6, <1>7

-----------------------------------------------------------------------------
(* The whole network, while fewer than half of the numbers are in use.      *)

NetNumbers == ReceivedOf(peer, flying, conn) /\ ToldOf(acks, peer, conn) /\ HeardOf(heard, acks, peer, conn)

NumbersInv == Numbers /\ NetNumbers

\* These say the same of connections that differ in other fields.
LEMMA SameNumbers ==
  ASSUME NEW c, NEW d, d.inflight = c.inflight, d.seq_nr = c.seq_nr, d.dup_acks = c.dup_acks,
         d.last_ack_seen = c.last_ack_seen
  PROVE  /\ Seqs(d) = Seqs(c)
         /\ \A p, F : ReceivedOf(p, F, c) => ReceivedOf(p, F, d)
         /\ \A q, p : ToldOf(q, p, c) => ToldOf(q, p, d)
         /\ \A h, q, p : HeardOf(h, q, p, c) => HeardOf(h, q, p, d)
<1>1. Seqs(d) = Seqs(c)
  BY DEF Seqs
<1>2. Awaited(d) = Awaited(c)
  BY <1>1 DEF Awaited
<1>3. \A a, p : Tells(a, p, c) => Tells(a, p, d)
  BY <1>2 DEF Tells
<1>4. \A p, F : ReceivedOf(p, F, c) => ReceivedOf(p, F, d)
  BY <1>1 DEF ReceivedOf
<1>5. \A q, p : ToldOf(q, p, c) => ToldOf(q, p, d)
  BY <1>3 DEF ToldOf
<1>6. \A h, q, p : HeardOf(h, q, p, c) => HeardOf(h, q, p, d)
  BY <1>2 DEF HeardOf
<1> QED BY <1>1, <1>4, <1>5, <1>6

\* The step of a handler, as far as the network sees it.
LEMMA LeavesNet ==
  ASSUME NEW c, Fits(c), NEW arrivals, Leaves(c, arrivals), peer' = peer,
         ReceivedOf(peer, flying \cup c.out_frames, c), ToldOf(acks', peer, c), HeardOf(heard', acks', peer, c)
  PROVE  NetNumbers'
<1> DEFINE d == [c EXCEPT !.out_frames = {}]
<1>1. conn' = d /\ flying' = flying \cup c.out_frames
  BY DEF Leaves
<1>2. d.inflight = c.inflight /\ d.seq_nr = c.seq_nr /\ d.dup_acks = c.dup_acks /\ d.last_ack_seen = c.last_ack_seen
  BY DEF Fits, Conn
<1> HIDE DEF d
<1>3. ReceivedOf(peer, flying \cup c.out_frames, d) /\ ToldOf(acks', peer, d) /\ HeardOf(heard', acks', peer, d)
  BY <1>2, SameNumbers
<1>4. ReceivedOf(peer', flying', conn') /\ ToldOf(acks', peer', conn') /\ HeardOf(heard', acks', peer', conn')
  BY <1>1, <1>3
<1>5. NetNumbers' <=> ReceivedOf(peer', flying', conn') /\ ToldOf(acks', peer', conn')
                      /\ HeardOf(heard', acks', peer', conn')
  BY DEF NetNumbers, ReceivedOf, ToldOf, Tells, InOrder, HeardOf, Awaited, Seqs
<1> QED BY <1>4, <1>5

\* What the network's types say.
LEMMA NetTypes ==
  ASSUME SenderInv, NetworkType
  PROVE  /\ Fits(conn) /\ conn \in Conn /\ peer \in Peers /\ acks \in Seq(AckFrame) /\ heard \in Nat
         /\ \A f \in flying : f.seq \in Uint16
         /\ \A i \in 1 .. Len(acks) : acks[i] \in AckFrame
<1>1. Fits(conn) /\ conn \in Conn /\ peer \in Peers /\ acks \in Seq(AckFrame) /\ heard \in Nat
  BY DEF SenderInv, NetworkType, Streams, Fits, Peers, AckFrame
<1>2. \A f \in flying : f.seq \in Uint16
  BY DEF SenderInv
<1> QED BY <1>1, <1>2

\* A payload is submitted, or the timer expires.
LEMMA GrownNet ==
  ASSUME SenderInv, NetworkType, NetNumbers, NEW c, Fits(c), Steps(conn, c), Grown(conn, c), Leaves(c, 0),
         UNCHANGED <<peer, acks>>
  PROVE  NetNumbers'
<1>1. /\ Fits(conn) /\ conn \in Conn /\ peer \in Peers /\ acks \in Seq(AckFrame) /\ heard \in Nat
      /\ \A f \in flying : f.seq \in Uint16
  BY NetTypes
<1>2. /\ Filled(conn, c) /\ Position(conn.seq_nr) <= Position(c.seq_nr)
      /\ \A s \in Seqs(conn) : s \in Seqs(c)
      /\ \A f \in c.out_frames : Position(f.seq) > 0 /\ Position(f.seq) < Position(c.seq_nr)
  BY DEF Steps, Grown
<1>3. ReceivedOf(peer, flying \cup c.out_frames, c)
  BY <1>1, <1>2, ReceivedOn DEF NetNumbers
<1>4. ToldOf(acks, peer, c)
  BY <1>1, <1>2, ToldOn DEF NetNumbers
<1>5. HeardOf(heard', acks, peer, c)
  <2>1. SUFFICES ASSUME heard' > 0 PROVE HeardOf(heard, acks, peer, c)
    <3>1. heard' = heard + 0 \/ heard' = 0
      BY DEF Leaves
    <3>2. ~(heard' > 0) => HeardOf(heard', acks, peer, c)
      BY DEF HeardOf
    <3>3. heard' > 0 => heard' = heard
      BY <1>1, <3>1
    <3> QED BY <3>2, <3>3
  <2>2. conn.inflight # <<>>
    BY <2>1 DEF Leaves
  <2>3. c.inflight # <<>> /\ c.inflight[1].sacked_past = conn.inflight[1].sacked_past
        /\ c.dup_acks = conn.dup_acks /\ c.last_ack_seen = conn.last_ack_seen
    BY <2>2 DEF Grown
  <2>4. SUFFICES ASSUME heard > 0 PROVE Plus(c.last_ack_seen, 1) \in Awaited(c)
    BY <2>3 DEF NetNumbers, HeardOf
  <2>5. Plus(c.last_ack_seen, 1) \in Awaited(conn)
    BY <2>3, <2>4 DEF NetNumbers, HeardOf
  <2> QED BY <1>1, <1>2, <2>5, StillAwaited
<1>6. acks' = acks /\ peer' = peer
  OBVIOUS
<1> QED BY <1>3, <1>4, <1>5, <1>6, LeavesNet

\* A product grows with its factors.
LEMMA TimesGrows ==
  ASSUME NEW m \in Nat, NEW n \in Nat, NEW k \in Nat, m <= n
  PROVE  m * k <= n * k /\ m * k \in Nat /\ n * k \in Nat /\ (m + 1) * k = m * k + k
  OBVIOUS

\* The count of an acknowledgement that leaves the front where it is.
LEMMA HeardAcked ==
  ASSUME SenderInv, NetworkType, Numbers, NetNumbers, Few, acks # <<>>,
         NEW g, Fits(g), Handled(conn, g), Acked(conn, g, acks[1]), g.inflight # <<>>, conn.inflight # <<>>,
         g.inflight[1].seq = conn.inflight[1].seq, g.inflight[1].transmissions = conn.inflight[1].transmissions
  PROVE  heard + 1 <= g.inflight[1].sacked_past * DupAckThreshold + g.dup_acks + 1
<1> DEFINE pkt == acks[1]
           last == conn.last_ack_seen
           sp == conn.inflight[1].sacked_past
           up == g.inflight[1].sacked_past
           D == DupAckThreshold
<1>1. /\ Fits(conn) /\ conn \in Conn /\ peer \in Peers /\ acks \in Seq(AckFrame) /\ heard \in Nat
      /\ 1 \in 1 .. Len(acks) /\ pkt \in AckFrame
  BY NetTypes
<1>2. /\ sp \in Nat /\ up \in Nat /\ conn.dup_acks \in Nat /\ g.dup_acks \in Nat /\ D \in Nat /\ conn.dup_acks < D
      /\ last \in Uint16 /\ pkt.ack_nr \in Uint16
  <2>1. 1 \in 1 .. Len(conn.inflight) /\ 1 \in 1 .. Len(g.inflight)
    BY <1>1, PacketsOf, FirstIndex
  <2>2. sp \in Nat /\ up \in Nat
    BY <1>1, <2>1, PacketsOf
  <2>3. g \in Conn /\ D \in Nat
    BY WindowAssumption DEF Fits
  <2> QED BY <1>1, <2>2, <2>3 DEF Conn, AckFrame, Numbers, BelowThreshold
<1>3. heard > 0 => heard <= sp * D + conn.dup_acks + 1
  BY DEF NetNumbers, HeardOf
<1>4. \/ up >= sp + 1
      \/ /\ up = sp
         /\ g.dup_acks = conn.dup_acks + 1 \/ pkt.ack_nr # last
         /\ \A s \in Seqs(conn) : Position(s) > Position(pkt.ack_nr)
  BY DEF Acked
<1>5. ASSUME pkt.ack_nr # last, \A s \in Seqs(conn) : Position(s) > Position(pkt.ack_nr), heard > 0 PROVE FALSE
  <2>1. /\ Plus(last, 1) \in Awaited(conn) /\ Position(last) <= Position(peer.ack_nr)
        /\ Position(last) <= Position(pkt.ack_nr)
    BY <1>1, <1>5 DEF NetNumbers, HeardOf
  <2>2. Position(pkt.ack_nr) <= Position(peer.ack_nr)
    BY <1>1 DEF NetNumbers, ToldOf, Tells
  <2>3. Position(peer.ack_nr) < Position(conn.seq_nr)
    BY DEF NetNumbers, ReceivedOf
  <2>4. /\ Position(last) \in Nat /\ Position(pkt.ack_nr) \in Nat /\ Position(peer.ack_nr) \in Nat
        /\ Position(conn.seq_nr) \in Nat
    BY <1>1, <1>2, PositionIs, PlacesAre DEF Peers
  <2>5. Position(last) # Position(pkt.ack_nr)
    BY <1>2, <1>5, PositionInjective
  <2>6. Position(last) < Position(conn.seq_nr)
    BY <2>1, <2>3, <2>4
  <2>7. Position(Plus(last, 1)) = Position(last) + 1
    BY <1>1, <1>2, <2>6, NextPlace DEF Few, FewUsed
  <2>8. CASE Plus(last, 1) \in Seqs(conn)
    BY <1>5, <2>1, <2>4, <2>5, <2>7, <2>8
  <2>9. CASE Plus(last, 1) = conn.seq_nr
    BY <2>1, <2>2, <2>3, <2>4, <2>5, <2>7, <2>9
  <2> QED BY <2>1, <2>8, <2>9 DEF Awaited
<1> HIDE DEF pkt, last, sp, up, D
<1>6. sp * D \in Nat /\ up * D \in Nat
  BY <1>2, TimesGrows
<1>7. CASE up >= sp + 1
  <2>1. sp + 1 \in Nat /\ sp + 1 <= up
    BY <1>2, <1>7
  <2>2. (sp + 1) * D <= up * D /\ (sp + 1) * D = sp * D + D
    BY <1>2, <2>1, TimesGrows
  <2>3. heard <= sp * D + conn.dup_acks + 1
    BY <1>1, <1>2, <1>3, <1>6
  <2> DEFINE x == sp * D
             y == up * D
  <2>4. x \in Nat /\ y \in Nat /\ x + D <= y /\ heard <= x + conn.dup_acks + 1
    BY <1>6, <2>2, <2>3
  <2> HIDE DEF x, y
  <2>5. heard + 1 <= y + g.dup_acks + 1
    BY <1>1, <1>2, <2>4
  <2> QED BY <2>5 DEF y, up, D
<1>8. CASE ~(up >= sp + 1)
  <2>1. up = sp /\ (g.dup_acks = conn.dup_acks + 1 \/ ~(heard > 0))
    BY <1>4, <1>5, <1>8
  <2> DEFINE x == sp * D
  <2>2. x \in Nat /\ up * D = x /\ (heard > 0 => heard <= x + conn.dup_acks + 1)
    BY <1>3, <1>6, <2>1
  <2> HIDE DEF x
  <2>3. heard + 1 <= x + g.dup_acks + 1
    BY <1>1, <1>2, <2>1, <2>2, SMTT(30)
  <2> QED BY <2>2, <2>3 DEF up, D
<1> QED BY <1>7, <1>8

\* An acknowledgement arrives.
LEMMA AckNet ==
  ASSUME SenderInv, NetworkType, Numbers, NetNumbers, Few, acks # <<>>, acks' = Tail(acks), peer' = peer,
         NEW g, Fits(g), Handled(conn, g), Acked(conn, g, acks[1]), Leaves(g, 1)
  PROVE  NetNumbers'
<1> DEFINE pkt == acks[1]
           r == Tail(acks)
<1>1. /\ Fits(conn) /\ conn \in Conn /\ peer \in Peers /\ acks \in Seq(AckFrame) /\ heard \in Nat
      /\ \A f \in flying : f.seq \in Uint16
      /\ \A i \in 1 .. Len(acks) : acks[i] \in AckFrame
  BY NetTypes
<1>2. 1 \in 1 .. Len(acks) /\ Len(acks) \in Nat /\ pkt \in AckFrame /\ Picked(acks, r)
  BY <1>1, TailPicked
<1>3. /\ Filled(conn, g) /\ Position(conn.seq_nr) <= Position(g.seq_nr) /\ g.last_ack_seen = pkt.ack_nr
      /\ \A s \in Seqs(conn) : Position(s) > Position(pkt.ack_nr) /\ s \notin pkt.sack => s \in Seqs(g)
      /\ \A f \in g.out_frames : Position(f.seq) > 0 /\ Position(f.seq) < Position(g.seq_nr)
  BY DEF Handled, Steps, Acked
<1> HIDE DEF r
<1>4. /\ ToldOf(acks, peer, conn) /\ ReceivedOf(peer, flying, conn) /\ HeardOf(heard, acks, peer, conn)
      /\ \A i \in 1 .. Len(acks) : Tells(acks[i], peer, conn) /\ InOrder(pkt, acks[i]) /\ acks[i].ack_nr \in Uint16
  <2>1. \A i \in 1 .. Len(acks) : 1 <= i
    OBVIOUS
  <2> QED BY <1>1, <1>2, <2>1 DEF NetNumbers, ToldOf, AckFrame
<1>5. /\ Position(pkt.ack_nr) \in Nat /\ Position(peer.ack_nr) \in Nat
      /\ Position(pkt.ack_nr) <= Position(peer.ack_nr) /\ Position(peer.ack_nr) < Position(conn.seq_nr)
      /\ pkt.ack_nr \in Uint16 /\ pkt.sack \subseteq Uint16
      /\ \A s \in Uint16 : Position(s) \in Nat
  BY <1>1, <1>2, <1>4, PositionIs DEF Peers, AckFrame, Tells, ReceivedOf
<1>6. ReceivedOf(peer, flying \cup g.out_frames, g)
  <2>1. ASSUME NEW s \in Seqs(conn), Position(peer.ack_nr) < Position(s), s \notin peer.ooo PROVE s \in Seqs(g)
    <3>1. s \in Uint16
      BY <1>1, SeqsType
    <3>2. Position(s) > Position(pkt.ack_nr)
      BY <1>5, <2>1, <3>1
    <3>3. s \notin pkt.sack
      <4>1. ~(s \in peer.ooo \/ Position(s) <= Position(peer.ack_nr))
        BY <1>5, <2>1, <3>1
      <4> QED BY <1>2, <1>4, <4>1 DEF Tells
    <3> QED BY <1>3, <3>2, <3>3
  <2> HIDE DEF pkt
  <2> QED BY <1>1, <1>3, <1>4, <2>1, ReceivedOn
<1>7. \A i \in 1 .. Len(acks) : Plus(acks[i].ack_nr, 1) \in Seqs(conn) => Plus(acks[i].ack_nr, 1) \in Seqs(g)
  <2>1. SUFFICES ASSUME NEW i \in 1 .. Len(acks), Plus(acks[i].ack_nr, 1) \in Seqs(conn)
                 PROVE  Plus(acks[i].ack_nr, 1) \in Seqs(g)
    OBVIOUS
  <2> DEFINE a == acks[i].ack_nr
  <2>2. a \in Uint16 /\ Position(a) \in Nat /\ Position(pkt.ack_nr) <= Position(a) /\ Plus(a, 1) \notin pkt.sack
        /\ Position(a) <= Position(peer.ack_nr)
    BY <1>4, <1>5 DEF InOrder, Tells
  <2> HIDE DEF a
  <2>3. Position(a) < Position(conn.seq_nr)
    BY <1>1, <1>5, <2>2, PlacesAre
  <2>4. Position(Plus(a, 1)) = Position(a) + 1
    BY <1>1, <2>2, <2>3, NextPlace DEF Few, FewUsed
  <2>5. Position(Plus(a, 1)) > Position(pkt.ack_nr)
    BY <1>5, <2>2, <2>4
  <2>6. Plus(a, 1) \in Seqs(conn)
    BY <2>1 DEF a
  <2>7. Plus(a, 1) \in Seqs(g)
    BY <1>3, <2>2, <2>5, <2>6
  <2> QED BY <2>7 DEF a
<1>8. ToldOf(acks, peer, g)
  BY <1>1, <1>3, <1>4, <1>7, ToldOn
<1>9. ToldOf(r, peer, g) /\ \A k \in 1 .. Len(r) : \E i \in 1 .. Len(acks) : r[k] = acks[i]
  BY <1>2, <1>8, ToldSome
<1>10. HeardOf(heard', r, peer, g)
  <2>1. SUFFICES ASSUME heard' > 0
                 PROVE  /\ g.inflight # <<>> /\ Plus(g.last_ack_seen, 1) \in Awaited(g)
                        /\ Position(g.last_ack_seen) <= Position(peer.ack_nr)
                        /\ \A i \in 1 .. Len(r) : Position(g.last_ack_seen) <= Position(r[i].ack_nr)
                        /\ heard' <= g.inflight[1].sacked_past * DupAckThreshold + g.dup_acks + 1
    BY DEF HeardOf
  <2>2. /\ conn.inflight # <<>> /\ g.inflight # <<>> /\ g.inflight[1].seq = conn.inflight[1].seq
        /\ g.inflight[1].transmissions = conn.inflight[1].transmissions
        /\ heard' = heard + 1
    BY <2>1 DEF Leaves
  <2>3. Plus(g.last_ack_seen, 1) \in Awaited(g) /\ Position(g.last_ack_seen) <= Position(peer.ack_nr)
    BY <1>2, <1>3, <1>8 DEF ToldOf, Tells
  <2>4. \A i \in 1 .. Len(r) : Position(g.last_ack_seen) <= Position(r[i].ack_nr)
    BY <1>3, <1>4, <1>9 DEF InOrder
  <2>5. heard + 1 <= g.inflight[1].sacked_past * DupAckThreshold + g.dup_acks + 1
    BY <2>2, HeardAcked
  <2> QED BY <2>2, <2>3, <2>4, <2>5
<1>11. acks' = r
  BY DEF r
<1> QED BY <1>6, <1>9, <1>10, <1>11, LeavesNet

\* A packet arrives at the other end.
LEMMA DeliverNet ==
  ASSUME SenderInv, NetworkType, NetNumbers, Few, NEW pkt \in flying, Deliver(pkt)
  PROVE  NetNumbers'
<1> DEFINE s == pkt.seq
           r == After(peer, s)
           b == [ack_nr |-> r.ack_nr, sack |-> r.ooo]
<1>1. /\ Fits(conn) /\ conn \in Conn /\ peer \in Peers /\ acks \in Seq(AckFrame) /\ heard \in Nat
      /\ s \in Uint16 /\ \A i \in 1 .. Len(acks) : acks[i] \in AckFrame
  BY NetTypes
<1>2. flying' = flying \ {pkt} /\ peer' = r /\ acks' = Append(acks, b) /\ conn' = conn /\ heard' = heard
  BY DEF Deliver, After, Run
<1>3. /\ ToldOf(acks, peer, conn) /\ ReceivedOf(peer, flying, conn) /\ HeardOf(heard, acks, peer, conn)
      /\ 2 * Position(conn.seq_nr) < SeqMod
      /\ Position(s) > 0 /\ Position(s) < Position(conn.seq_nr)
  BY DEF NetNumbers, ReceivedOf, Few, FewUsed
<1> DEFINE G == flying \ {pkt}
<1>4. r \in Peers /\ Later(peer, r) /\ ReceivedOf(r, G, conn)
  <2>1. G \subseteq flying
    OBVIOUS
  <2> HIDE DEF r, G, s
  <2>2. r = After(peer, s)
    BY DEF r
  <2>3. 0 < Position(s)
    BY <1>1, <1>3, PositionIs
  <2> QED BY <1>1, <1>3, <2>1, <2>2, <2>3, AfterIs
<1> HIDE DEF r
<1>5. b \in AckFrame /\ b.ack_nr = r.ack_nr /\ b.sack = r.ooo
  BY <1>4 DEF Peers, AckFrame
<1> HIDE DEF b, G
<1>6. ToldOf(Append(acks, b), r, conn)
  BY <1>1, <1>3, <1>4, <1>5, ToldMore
<1>7. HeardOf(heard, Append(acks, b), r, conn)
  <2> DEFINE t == Append(acks, b)
             n == Len(acks)
  <2>1. n \in Nat /\ Len(t) = n + 1 /\ t[n + 1] = b /\ \A i \in 1 .. n : t[i] = acks[i]
    BY <1>1, <1>5
  <2> HIDE DEF t
  <2>2. ASSUME heard > 0
        PROVE  /\ Position(conn.last_ack_seen) <= Position(r.ack_nr)
               /\ \A i \in 1 .. n + 1 : Position(conn.last_ack_seen) <= Position(t[i].ack_nr)
    <3>1. /\ Position(conn.last_ack_seen) <= Position(peer.ack_nr)
          /\ \A i \in 1 .. n : Position(conn.last_ack_seen) <= Position(acks[i].ack_nr)
      BY <1>3, <2>2 DEF HeardOf
    <3>2. conn.last_ack_seen \in Uint16 /\ peer.ack_nr \in Uint16 /\ r.ack_nr \in Uint16
      BY <1>1, <1>4 DEF Conn, Peers
    <3>3. Position(conn.last_ack_seen) \in Nat /\ Position(peer.ack_nr) \in Nat /\ Position(r.ack_nr) \in Nat
      BY <3>2, PositionIs
    <3>4. Position(conn.last_ack_seen) <= Position(r.ack_nr)
      BY <1>4, <3>1, <3>3 DEF Later
    <3>5. ASSUME NEW i \in 1 .. n + 1 PROVE Position(conn.last_ack_seen) <= Position(t[i].ack_nr)
      <4>1. i \in 1 .. n \/ i = n + 1
        BY <2>1
      <4> QED BY <1>5, <2>1, <3>1, <3>4, <4>1
    <3> QED BY <3>4, <3>5
  <2>3. HeardOf(heard, t, r, conn)
    BY <1>3, <2>1, <2>2 DEF HeardOf
  <2> QED BY <2>3 DEF t
<1>8. ReceivedOf(peer', flying', conn') /\ ToldOf(acks', peer', conn') /\ HeardOf(heard', acks', peer', conn')
  BY <1>2, <1>4, <1>6, <1>7 DEF G
<1>9. NetNumbers' <=> ReceivedOf(peer', flying', conn') /\ ToldOf(acks', peer', conn')
                      /\ HeardOf(heard', acks', peer', conn')
  BY DEF NetNumbers, ReceivedOf, ToldOf, Tells, InOrder, HeardOf, Awaited, Seqs
<1> QED BY <1>8, <1>9

\* The other end sends data.
LEMMA PeerSendsNet ==
  ASSUME SenderInv, NetworkType, NetNumbers, Few, PeerSends
  PROVE  NetNumbers'
<1> DEFINE b == [ack_nr |-> peer.ack_nr, sack |-> {}]
<1>1. /\ Fits(conn) /\ conn \in Conn /\ peer \in Peers /\ acks \in Seq(AckFrame) /\ heard \in Nat
  BY NetTypes
<1>2. acks' = Append(acks, b) /\ acks = <<>> /\ UNCHANGED <<conn, flying, peer, heard>>
  BY DEF PeerSends
<1>3. b \in AckFrame /\ b.ack_nr = peer.ack_nr /\ b.sack = {}
  BY <1>1 DEF Peers, AckFrame
<1> HIDE DEF b
<1>4. /\ ToldOf(acks, peer, conn) /\ ReceivedOf(peer, flying, conn) /\ HeardOf(heard, acks, peer, conn)
      /\ 2 * Position(conn.seq_nr) < SeqMod
  BY DEF NetNumbers, Few, FewUsed
<1>5. Later(peer, peer)
  BY <1>1, PositionIs DEF Later, Peers
<1>6. ToldOf(Append(acks, b), peer, conn)
  <2>1. b.sack \subseteq peer.ooo
    BY <1>3
  <2> QED BY <1>1, <1>3, <1>4, <1>5, <2>1, ToldMore
<1>7. HeardOf(heard, Append(acks, b), peer, conn)
  <2>1. Len(Append(acks, b)) = 1 /\ Append(acks, b)[1] = b
    BY <1>2, <1>3
  <2> QED BY <1>3, <1>4, <2>1 DEF HeardOf
<1>8. ReceivedOf(peer', flying', conn') /\ ToldOf(acks', peer', conn') /\ HeardOf(heard', acks', peer', conn')
  BY <1>2, <1>4, <1>6, <1>7
<1>9. NetNumbers' <=> ReceivedOf(peer', flying', conn') /\ ToldOf(acks', peer', conn')
                      /\ HeardOf(heard', acks', peer', conn')
  BY DEF NetNumbers, ReceivedOf, ToldOf, Tells, InOrder, HeardOf, Awaited, Seqs
<1> QED BY <1>8, <1>9

\* Something is lost.
LEMMA LoseNet ==
  ASSUME SenderInv, NetworkType, NetNumbers, Lose
  PROVE  NetNumbers'
<1>1. /\ acks \in Seq(AckFrame) /\ UNCHANGED <<conn, peer, heard>>
  BY NetTypes DEF Lose
<1>2. /\ flying' \subseteq flying
      /\ acks' = acks \/ \E i \in DOMAIN acks : acks' = Lists!RemoveAt(acks, i)
  BY DEF Lose
<1>3. /\ ToldOf(acks, peer, conn) /\ ReceivedOf(peer, flying, conn) /\ HeardOf(heard, acks, peer, conn)
  BY DEF NetNumbers
<1>4. ReceivedOf(peer, flying', conn)
  BY <1>2, <1>3 DEF ReceivedOf
<1>5. ToldOf(acks', peer, conn) /\ HeardOf(heard, acks', peer, conn)
  <2>1. CASE acks' = acks
    BY <1>3, <2>1
  <2>2. CASE \E i \in DOMAIN acks : acks' = Lists!RemoveAt(acks, i)
    <3>1. Picked(acks, acks')
      BY <1>1, <2>2, RemovedPicked
    <3>2. ToldOf(acks', peer, conn) /\ \A k \in 1 .. Len(acks') : \E i \in 1 .. Len(acks) : acks'[k] = acks[i]
      BY <1>3, <3>1, ToldSome
    <3>3. HeardOf(heard, acks', peer, conn)
      BY <1>3, <3>2 DEF HeardOf
    <3> QED BY <3>2, <3>3
  <2> QED BY <1>2, <2>1, <2>2
<1>6. ReceivedOf(peer', flying', conn') /\ ToldOf(acks', peer', conn') /\ HeardOf(heard', acks', peer', conn')
  BY <1>1, <1>4, <1>5
<1>7. NetNumbers' <=> ReceivedOf(peer', flying', conn') /\ ToldOf(acks', peer', conn')
                      /\ HeardOf(heard', acks', peer', conn')
  BY DEF NetNumbers, ReceivedOf, ToldOf, Tells, InOrder, HeardOf, Awaited, Seqs
<1> QED BY <1>6, <1>7

\* Time passes.
LEMMA ElapseNumbers ==
  ASSUME SenderInv, NetworkType, NumbersInv, Elapse
  PROVE  NumbersInv' /\ conn'.inflight = conn.inflight /\ conn'.cuts = conn.cuts
<1>1. conn \in Conn
  BY NetTypes
<1>2. /\ conn'.inflight = conn.inflight /\ conn'.seq_nr = conn.seq_nr /\ conn'.dup_acks = conn.dup_acks
      /\ conn'.last_ack_seen = conn.last_ack_seen /\ conn'.cut_seq = conn.cut_seq
      /\ conn'.cut_valid = conn.cut_valid /\ conn'.cuts = conn.cuts
      /\ UNCHANGED <<flying, peer, acks, heard, cut_flight>>
  BY <1>1 DEF Elapse, Conn
<1>3. Numbers'
  BY <1>2 DEF NumbersInv, Numbers, Rising, CutKnown, BelowThreshold, CutFlight, Seqs
<1>4. NetNumbers'
  <2>1. ReceivedOf(peer, flying, conn') /\ ToldOf(acks, peer, conn') /\ HeardOf(heard, acks, peer, conn')
    BY <1>2, SameNumbers DEF NumbersInv, NetNumbers
  <2>2. ReceivedOf(peer', flying', conn') /\ ToldOf(acks', peer', conn') /\ HeardOf(heard', acks', peer', conn')
    BY <1>2, <2>1
  <2>3. NetNumbers' <=> ReceivedOf(peer', flying', conn') /\ ToldOf(acks', peer', conn')
                        /\ HeardOf(heard', acks', peer', conn')
    BY DEF NetNumbers, ReceivedOf, ToldOf, Tells, InOrder, HeardOf, Awaited, Seqs
  <2> QED BY <2>2, <2>3
<1> QED BY <1>2, <1>3, <1>4 DEF NumbersInv

LEMMA InitNumbers == Init => NumbersInv
<1>1. SUFFICES ASSUME Init PROVE NumbersInv
  OBVIOUS
<1>2. /\ conn.inflight = <<>> /\ conn.seq_nr = FirstSeq /\ conn.dup_acks = 0 /\ conn.cut_valid = FALSE
      /\ flying = {} /\ peer.ack_nr = Plus(FirstSeq, -1) /\ peer.ooo = {} /\ acks = <<>> /\ heard = 0
      /\ cut_flight = {}
  BY <1>1 DEF Init
<1>3. Position(conn.seq_nr) = 1 /\ Position(peer.ack_nr) = 0
  BY <1>2, FirstPosition
<1>4. Len(conn.inflight) = 0 /\ Len(acks) = 0 /\ 1 .. 0 = {}
  BY <1>2
<1>5. DupAckThreshold \in Nat \ {0}
  BY WindowAssumption
<1>6. Rising(conn) /\ CutKnown(conn) /\ BelowThreshold(conn) /\ CutFlight
  BY <1>2, <1>3, <1>4, <1>5 DEF Rising, CutKnown, BelowThreshold, CutFlight
<1>7. ReceivedOf(peer, flying, conn)
  <2>1. \A s \in Uint16 : ~(0 < Position(s) /\ Position(s) < 1)
    BY PositionIs
  <2> QED BY <1>2, <1>3, <2>1 DEF ReceivedOf
<1>8. ToldOf(acks, peer, conn) /\ HeardOf(heard, acks, peer, conn)
  BY <1>2, <1>4 DEF ToldOf, HeardOf
<1> QED BY <1>6, <1>7, <1>8 DEF NumbersInv, Numbers, NetNumbers

\* Steps that leave the packets in flight alone send nothing again.
LEMMA NotSentAgain ==
  ASSUME Fits(conn), Numbers, conn'.inflight = conn.inflight, conn'.cuts = conn.cuts
  PROVE  CutOnce /\ CutForLoss
<1>1. ~SentAgain
  <2>1. SUFFICES ASSUME NEW p \in Lists!ToSet(conn.inflight), NEW r \in Lists!ToSet(conn.inflight),
                        p.seq = r.seq, p.transmissions < r.transmissions
                 PROVE  FALSE
    BY DEF SentAgain
  <2>2. PICK i \in 1 .. Len(conn.inflight) : p = conn.inflight[i]
    BY ToSetSeqs
  <2>3. PICK j \in 1 .. Len(conn.inflight) : r = conn.inflight[j]
    BY ToSetSeqs
  <2>4. i = j
    BY <2>1, <2>2, <2>3, FrontFirst DEF Numbers
  <2>5. p.transmissions \in Nat
    BY <2>2, PacketsOf
  <2> QED BY <2>1, <2>2, <2>3, <2>4, <2>5
<1>2. ~(conn'.cuts > conn.cuts)
  BY DEF Fits, Conn
<1> QED BY <1>1, <1>2 DEF CutOnce, CutForLoss

\* Steps that leave the connection alone.
LEMMA OthersNumbers ==
  ASSUME SenderInv, NetworkType, Numbers, UNCHANGED <<conn, cut_flight>>
  PROVE  Numbers' /\ CutOnce /\ CutForLoss
<1>1. Fits(conn)
  BY NetTypes
<1>2. Numbers'
  BY DEF Numbers, Rising, CutKnown, BelowThreshold, CutFlight, Seqs
<1> QED BY <1>1, <1>2, NotSentAgain

\* An acknowledgement is of something sent.
LEMMA AckWithinHalf ==
  ASSUME SenderInv, NetworkType, NetNumbers, Few, ReceiveAck
  PROVE  2 * Position(acks[1].ack_nr) < SeqMod
<1>1. acks # <<>> /\ acks \in Seq(AckFrame) /\ peer \in Peers /\ Fits(conn)
  BY NetTypes DEF ReceiveAck
<1>2. 1 \in 1 .. Len(acks) /\ acks[1] \in AckFrame
  BY <1>1
<1>3. /\ Position(acks[1].ack_nr) <= Position(peer.ack_nr) /\ Position(peer.ack_nr) < Position(conn.seq_nr)
      /\ 2 * Position(conn.seq_nr) < SeqMod
  BY <1>2 DEF NetNumbers, ToldOf, Tells, ReceivedOf, Few, FewUsed
<1>4. Position(acks[1].ack_nr) \in Nat /\ Position(peer.ack_nr) \in Nat /\ Position(conn.seq_nr) \in Nat
  BY <1>1, <1>2, PositionIs, PlacesAre DEF AckFrame, Peers
<1> QED BY <1>3, <1>4, FirstSeqIs

LEMMA NextNumbers ==
  ASSUME StreamInv, NumbersInv, Few, Few', [Next]_vars
  PROVE  NumbersInv' /\ CutOnce /\ (timeouts' = timeouts => CutForLoss)
<1>1. SenderInv /\ NetworkType /\ Numbers /\ NetNumbers /\ Fits(conn)
  BY InvParts, NetTypes DEF NumbersInv
<1>2. CASE \E size \in PayloadSizes : app_send(size)
  <2>1. PICK size \in PayloadSizes : app_send(size)
    BY <1>2
  <2>2. PICK c : Fits(c) /\ Handled(conn, c) /\ Grown(conn, c) /\ Leaves(c, 0)
    BY <1>1, <2>1, AppSendNumbers
  <2>3. Steps(conn, c) /\ BelowThreshold(c) /\ UNCHANGED <<peer, acks>>
    BY <2>1, <2>2 DEF Handled, Grown, app_send
  <2>4. Numbers' /\ CutOnce /\ CutForLoss
    BY <1>1, <2>2, <2>3, LeavesNumbers
  <2>5. NetNumbers'
    BY <1>1, <2>2, <2>3, GrownNet
  <2> QED BY <2>4, <2>5 DEF NumbersInv
<1>3. CASE ReceiveAck
  <2>1. 2 * Position(acks[1].ack_nr) < SeqMod
    BY <1>1, <1>3, AckWithinHalf
  <2>2. /\ acks # <<>> /\ acks' = Tail(acks)
        /\ \E g : /\ Fits(g) /\ Handled(conn, g) /\ BelowThreshold(g) /\ Acked(conn, g, acks[1])
                  /\ Leaves(g, 1)
    BY <1>1, <1>3, <2>1, AckNumbers
  <2>3. PICK g : /\ Fits(g) /\ Handled(conn, g) /\ BelowThreshold(g) /\ Acked(conn, g, acks[1])
                 /\ Leaves(g, 1)
    BY <2>2
  <2>4. Steps(conn, g) /\ peer' = peer
    BY <1>3, <2>3 DEF Handled, ReceiveAck
  <2>5. Numbers' /\ CutOnce /\ CutForLoss
    BY <1>1, <2>3, <2>4, LeavesNumbers
  <2>6. NetNumbers'
    BY <1>1, <2>2, <2>3, <2>4, AckNet
  <2> QED BY <2>5, <2>6 DEF NumbersInv
<1>4. CASE on_timeout
  <2>1. PICK c : /\ Fits(c) /\ Steps(conn, c) /\ Grown(conn, c) /\ Leaves(c, 0)
                 /\ c.inflight[1].transmissions # conn.inflight[1].transmissions
    BY <1>1, <1>4, TimeoutNumbers
  <2>2. BelowThreshold(c) /\ UNCHANGED <<peer, acks>> /\ timeouts' = timeouts + 1
    BY <1>4, <2>1 DEF Grown, on_timeout
  <2>3. Numbers' /\ CutOnce
    BY <1>1, <2>1, <2>2, LeavesNumbers
  <2>4. NetNumbers'
    BY <1>1, <2>1, <2>2, GrownNet
  <2>5. timeouts' # timeouts
    BY <1>1, <2>2, WindowAssumption DEF NetworkType
  <2> QED BY <2>3, <2>4, <2>5 DEF NumbersInv
<1>5. CASE Elapse
  <2>1. NumbersInv' /\ conn'.inflight = conn.inflight /\ conn'.cuts = conn.cuts
    BY <1>1, <1>5, ElapseNumbers
  <2> QED BY <1>1, <2>1, NotSentAgain
<1>6. CASE \E pkt \in flying : Deliver(pkt)
  <2>1. PICK pkt \in flying : Deliver(pkt)
    BY <1>6
  <2>2. UNCHANGED <<conn, cut_flight>>
    BY <2>1 DEF Deliver
  <2>3. NetNumbers'
    BY <1>1, <2>1, DeliverNet
  <2> QED BY <1>1, <2>2, <2>3, OthersNumbers DEF NumbersInv
<1>7. CASE PeerSends
  <2>1. UNCHANGED <<conn, cut_flight>>
    BY <1>7 DEF PeerSends
  <2>2. NetNumbers'
    BY <1>1, <1>7, PeerSendsNet
  <2> QED BY <1>1, <2>1, <2>2, OthersNumbers DEF NumbersInv
<1>8. CASE Lose
  <2>1. UNCHANGED <<conn, cut_flight>>
    BY <1>8 DEF Lose
  <2>2. NetNumbers'
    BY <1>1, <1>8, LoseNet
  <2> QED BY <1>1, <2>1, <2>2, OthersNumbers DEF NumbersInv
<1>9. CASE UNCHANGED vars
  <2>1. UNCHANGED <<conn, cut_flight>>
    BY <1>9 DEF vars
  <2>2. NetNumbers'
    BY <1>1, <1>9 DEF vars, NetNumbers, ReceivedOf, ToldOf, Tells, InOrder, HeardOf, Awaited, Seqs
  <2> QED BY <1>1, <2>1, <2>2, OthersNumbers DEF NumbersInv
<1> QED BY <1>2, <1>3, <1>4, <1>5, <1>6, <1>7, <1>8, <1>9 DEF Next

LEMMA NumbersHold == Spec /\ []Few => [](StreamInv /\ NumbersInv /\ Few)
<1>1. Init => NumbersInv
  BY InitNumbers
<1>2. StreamInv /\ NumbersInv /\ Few /\ Few' /\ [Next]_vars => NumbersInv'
  BY NextNumbers
<1> QED BY <1>1, <1>2, Inductive, PTL DEF Spec

\* While fewer than half of the numbers are in use, the window is cut only when
\* nothing is in flight that was at the cut before (cut_window).
THEOREM CutsOncePerWindow == Spec /\ []Few => OneCutPerWindow
<1>1. StreamInv /\ NumbersInv /\ Few /\ Few' /\ [Next]_vars => [CutOnce]_vars
  BY NextNumbers
<1>2. [CutOnce]_vars <=> [conn'.cuts > conn.cuts => \A p \in Lists!ToSet(conn'.inflight) : p.seq \notin cut_flight]_vars
  BY DEF CutOnce
<1> QED BY <1>1, <1>2, NumbersHold, PTL DEF Spec, OneCutPerWindow

\* And then an acknowledgement that makes packets leave again cuts the window,
\* unless the front was in flight at the cut before (apply_sack, process_acks).
THEOREM CutsForLoss == Spec /\ []Few => LossIsCut
<1>1. StreamInv /\ NumbersInv /\ Few /\ Few' /\ [Next]_vars
      => [timeouts' = timeouts /\ SentAgain => conn'.cuts > conn.cuts \/ conn'.inflight[1].seq \in cut_flight]_vars
  BY NextNumbers DEF CutForLoss
<1> QED BY <1>1, NumbersHold, PTL DEF Spec, LossIsCut

\* And then the packets that arrive, which restart the timer, send the front
\* again before more than the square of the threshold have (process_acks).
THEOREM FrontNotPostponed == Spec /\ []Few => []NotPostponed
<1>1. StreamInv /\ NumbersInv /\ Few => NotPostponed
  <2>1. SUFFICES ASSUME StreamInv, NumbersInv, conn.inflight # <<>>
                 PROVE  heard <= DupAckThreshold * DupAckThreshold
    BY DEF NotPostponed
  <2> DEFINE D == DupAckThreshold
             sp == conn.inflight[1].sacked_past
  <2>2. SenderInv /\ NetworkType /\ Fits(conn) /\ heard \in Nat /\ conn \in Conn
    BY <2>1, InvParts, NetTypes
  <2>3. D \in Nat /\ D > 0 /\ conn.dup_acks \in Nat /\ conn.dup_acks < D /\ sp \in Nat /\ sp < D
    <3>1. 1 \in 1 .. Len(conn.inflight)
      BY <2>1, <2>2, PacketsOf, FirstIndex
    <3>2. sp \in Nat
      BY <2>2, <3>1, PacketsOf
    <3>3. conn.dup_acks \in Nat
      BY <2>2 DEF Conn
    <3>5. D \in Nat /\ D > 0
      BY WindowAssumption
    <3>4. conn.dup_acks < D /\ sp < D
      BY <2>1, <3>1 DEF NumbersInv, Numbers, BelowThreshold
    <3> QED BY <3>2, <3>3, <3>4, <3>5
  <2>4. heard > 0 => heard <= sp * D + conn.dup_acks + 1
    BY <2>1 DEF NumbersInv, NetNumbers, HeardOf
  <2> HIDE DEF D, sp
  <2>5. (sp + 1) * D <= D * D /\ (sp + 1) * D = sp * D + D /\ sp * D \in Nat /\ D * D \in Nat
    <3>1. sp + 1 \in Nat /\ sp + 1 <= D
      BY <2>3
    <3>2. (sp + 1) * D <= D * D /\ D * D \in Nat
      BY <2>3, <3>1, TimesGrows
    <3> QED BY <2>3, <3>2, TimesGrows
  <2> DEFINE x == sp * D
             y == D * D
  <2>6. x \in Nat /\ y \in Nat /\ x + D <= y /\ (heard > 0 => heard <= x + conn.dup_acks + 1)
    BY <2>4, <2>5
  <2> HIDE DEF x, y
  <2>7. heard <= y
    BY <2>2, <2>3, <2>6
  <2> QED BY <2>7 DEF y, D
<1> QED BY <1>1, NumbersHold, PTL

-----------------------------------------------------------------------------
(* A stream of few bytes uses few numbers.                                  *)

\* Less than half as many bytes as there are numbers can be submitted.
FewBytes ==
  \E size \in Nat : (\A s \in PayloadSizes : s <= size) /\ 2 * (MaxPayloads * size + 1) < SeqMod

\* Every packet carries a byte.
Spent(c) == Position(c.seq_nr) <= c.offset + 1 /\ Len(c.inflight) <= c.offset

SpentInv == Spent(conn) /\ Len(submitted) <= MaxPayloads

\* A number so many further is no further away.
LEMMA PlaceAtMost ==
  ASSUME NEW s \in Uint16, NEW k \in Nat
  PROVE  Position(Plus(s, k)) <= Position(s) + k
<1>1. Position(s) \in Nat /\ s \in Int
  BY PositionIs
<1>2. CASE Position(s) + k < SeqMod
  <2>1. k \in Int /\ 0 <= Position(s) + k
    BY <1>1
  <2>2. Position(Plus(s, k)) = Position(s) + k
    BY <1>2, <2>1, PositionPlus
  <2> QED BY <1>1, <2>2
<1>3. CASE ~(Position(s) + k < SeqMod)
  <2>1. Plus(s, k) \in Uint16
    BY <1>1, PlusType
  <2>2. Position(Plus(s, k)) \in Nat /\ Position(Plus(s, k)) < SeqMod
    BY <2>1, PositionIs
  <2> QED BY <1>1, <1>3, <2>2, FirstSeqIs
<1> QED BY <1>2, <1>3

\* As many packets as bytes at most.
LEMMA PacketsAtMost ==
  ASSUME NEW b \in Nat \ {0}, NEW n, n = (b + Mtu - 1) \div Mtu
  PROVE  n \in Nat /\ n <= b
<1>1. Mtu \in Nat \ {0} /\ b + Mtu - 1 \in Nat
  BY WindowAssumption
<1>2. n \in Nat /\ n * Mtu <= b + Mtu - 1
  BY <1>1, Quotient
<1>3. ASSUME b + 1 <= n PROVE FALSE
  <2>1. b + 1 \in Nat /\ b \in Nat /\ Mtu \in Nat /\ 1 <= Mtu /\ 1 \in Nat
    BY <1>1
  <2>2. (b + 1) * Mtu <= n * Mtu /\ (b + 1) * Mtu = b * Mtu + Mtu /\ b * Mtu \in Nat /\ n * Mtu \in Nat
    BY <1>2, <1>3, <2>1, TimesGrows
  <2>3. 1 * b <= Mtu * b
    BY <2>1, TimesGrows
  <2>4. b <= b * Mtu
    BY <2>1, <2>3
  <2> DEFINE x == b * Mtu
             y == n * Mtu
  <2>5. x \in Nat /\ y \in Nat /\ x + Mtu <= y /\ b <= x /\ y <= b + Mtu - 1
    BY <1>2, <2>2, <2>4
  <2> HIDE DEF x, y
  <2> QED BY <2>1, <2>5
<1> QED BY <1>2, <1>3

LEMMA PacketizeSpends ==
  ASSUME NEW s \in Seq(PayloadSizes), NEW c, Streams(c, s), Spent(c), NEW d, d = packetize(c)
  PROVE  Spent(d)
<1> DEFINE b == Admitted(c)
           n == (b + Mtu - 1) \div Mtu
           ps == Packets(c)
           F == c.out_frames \cup {[seq |-> Plus(c.seq_nr, i - 1), nth |-> 1] : i \in 1 .. n}
<1>1. /\ Fits(c) /\ c \in Conn /\ WaitsFrom(c, s, Len(s) - Len(c.pending)) /\ c.pending \in Seq(Waiting)
      /\ c.inflight \in Seq(InflightPkt) /\ c.offset \in Nat /\ c.seq_nr \in Uint16
  BY DEF Streams, Fits, Conn, Waiting
<1>2. b \in Nat
  <2>1. Len(c.pending) \in 0 .. Len(c.pending)
    BY <1>1
  <2>2. WaitingUntil(c, Len(c.pending)) \in Nat
    BY <1>1, <2>1, WaitingIs
  <2>3. b \in 0 .. WaitingUntil(c, Len(c.pending))
    BY <1>1, AdmittedIs
  <2> HIDE DEF b
  <2> QED BY <2>2, <2>3
<1>3. CASE b = 0
  BY <1>3 DEF packetize
<1>4. CASE b # 0
  <2>1. n \in Nat /\ n <= b
    <3> HIDE DEF b
    <3> QED BY <1>2, <1>4, PacketsAtMost
  <2>2. d = [c EXCEPT !.pending = Remaining(c, b), !.inflight = @ \o ps, !.seq_nr = Plus(@, n),
                      !.offset = @ + b, !.idle = 0, !.out_frames = F]
    BY <1>1, <1>4, PacketizeIs
  <2>3. d.inflight = c.inflight \o ps /\ d.seq_nr = Plus(c.seq_nr, n) /\ d.offset = c.offset + b
    BY <1>1, <2>2 DEF Conn
  <2>4. ps \in Seq(InflightPkt) /\ Len(ps) = n
    <3>1. ps \in Seq(InflightPkt)
      BY <1>1, <1>4, PacketsAre
    <3>2. ps = [i \in 1 .. n |->
              [seq |-> Plus(c.seq_nr, i - 1), stream_bytes |-> CutAt(b, i) - CutAt(b, i - 1),
               completing |-> Completed(c, CutAt(b, i - 1), CutAt(b, i)), transmissions |-> 1,
               sacked_past |-> 0, offset |-> c.offset + CutAt(b, i - 1)]]
      BY DEF Packets
    <3> HIDE DEF ps, n
    <3> QED BY <2>1, <3>1, <3>2
  <2> HIDE DEF ps, n, F, b
  <2>5. Len(d.inflight) = Len(c.inflight) + n /\ Len(c.inflight) \in Nat
    <3>1. Len(c.inflight \o ps) = Len(c.inflight) + Len(ps) /\ Len(c.inflight) \in Nat
      BY <1>1, <2>4, ConcatIs
    <3> QED BY <2>3, <2>4, <3>1
  <2>6. Position(d.seq_nr) <= Position(c.seq_nr) + n /\ Position(c.seq_nr) \in Nat
    BY <1>1, <2>1, <2>3, PlaceAtMost, PositionIs
  <2>7. Position(d.seq_nr) \in Nat
    <3>1. d.seq_nr \in Uint16
      <4>1. c.seq_nr \in Int
        BY <1>1, PositionIs
      <4>2. n \in Int
        BY <2>1
      <4> QED BY <2>3, <4>1, <4>2, PlusType
    <3> QED BY <3>1, PositionIs
  <2>8. Position(c.seq_nr) <= c.offset + 1 /\ Len(c.inflight) <= c.offset
    BY DEF Spent
  <2>9. d.offset = c.offset + b /\ c.offset \in Nat
    BY <1>1, <2>3
  <2>10. Position(d.seq_nr) <= d.offset + 1
    BY <1>2, <2>1, <2>6, <2>7, <2>8, <2>9
  <2>11. Len(d.inflight) <= d.offset
    BY <1>2, <2>1, <2>5, <2>8, <2>9
  <2> QED BY <2>10, <2>11 DEF Spent
<1> HIDE DEF b
<1> QED BY <1>3, <1>4

\* With no more packets, and the same of the stream.
LEMMA SpentSame ==
  ASSUME NEW c, Fits(c), Spent(c), NEW d, Fits(d), d.seq_nr = c.seq_nr, d.offset = c.offset,
         Len(d.inflight) <= Len(c.inflight)
  PROVE  Spent(d)
<1>1. Len(c.inflight) \in Nat /\ Len(d.inflight) \in Nat /\ c.offset \in Nat
  BY PacketsOf DEF Conn
<1> QED BY <1>1 DEF Spent

LEMMA LeavesSpent ==
  ASSUME NEW c, Fits(c), Spent(c), NEW arrivals, Leaves(c, arrivals)
  PROVE  Spent(conn)'
<1>1. conn' = [c EXCEPT !.out_frames = {}] /\ c \in Conn
  BY DEF Leaves, Fits
<1>2. conn'.inflight = c.inflight /\ conn'.seq_nr = c.seq_nr /\ conn'.offset = c.offset
  BY <1>1 DEF Conn
<1> QED BY <1>2 DEF Spent

LEMMA AckSpends ==
  ASSUME SenderInv, NetworkType, Numbers, Few, Spent(conn), ReceiveAck, 2 * Position(acks[1].ack_nr) < SeqMod
  PROVE  Spent(conn)'
<1> DEFINE c == [conn EXCEPT !.idle = 0]
           pkt == Head(acks)
           left == apply_sack(DropAcked(c, pkt), pkt)
           Seen(d) == [d EXCEPT !.last_ack_seen = pkt.ack_nr]
           Moved == /\ Len(left.inflight) < Len(c.inflight)
                    /\ \E delay \in Delays, rto \in RttTimeouts :
                         Leaves(Seen(packetize(Progress(c, left, delay, rto))), 1)
           Stuck == /\ ~(Len(left.inflight) < Len(c.inflight))
                    /\ Leaves(Seen(NoProgress(left, pkt)), 1)
<1>1. acks # <<>> /\ acks \in Seq(AckFrame) /\ acks' = Tail(acks) /\ process_acks(c, pkt)
  BY DEF ReceiveAck, NetworkType, AckFrame
<1>2. pkt = acks[1] /\ pkt \in AckFrame
  BY <1>1
<1>3. Moved \/ Stuck
  BY <1>1 DEF process_acks
<1>4. Fits(conn) /\ conn \in Conn /\ conn.out_frames = {} /\ Streams(conn, submitted) /\ submitted \in Seq(PayloadSizes)
  BY DEF SenderInv, Streams, Fits
<1>5. Kept(conn, c) /\ Quiet(conn, c) /\ c.dup_acks = conn.dup_acks /\ c.offset = conn.offset
  <2>1. 0 \in Nat /\ conn.timeout \in Nat /\ conn.dup_acks \in Nat /\ conn.last_ack_seen \in Uint16
    BY <1>4 DEF Conn
  <2>2. Kept(conn, c)
    BY <1>4, <2>1, OtherFields
  <2> QED BY <1>4, <2>2 DEF Conn, Quiet, SameCut
<1> HIDE DEF c, pkt
<1>6. Streams(c, submitted) /\ Fits(c) /\ Spent(c)
  <2>1. Streams(c, submitted)
    BY <1>4, <1>5, KeptStreams
  <2> QED BY <1>5, <2>1 DEF Streams, Spent, Quiet
<1>7. FewUsed(c) /\ Rising(c) /\ CutKnown(c) /\ BelowThreshold(c) /\ c.out_frames = {}
  <2>1. BelowThreshold(c)
    BY <1>5 DEF Quiet, BelowThreshold, Numbers
  <2>2. c.out_frames = {}
    BY <1>4, <1>5 DEF Quiet
  <2> QED BY <1>5, <2>1, <2>2, QuietIs DEF Numbers, Few
<1>8. Kept(c, left) /\ Fits(left) /\ LeftOf(c, left, pkt)
  <2>1. Kept(c, left)
    BY <1>2, <1>6, AckLeaves
  <2> HIDE DEF left
  <2>2. left = apply_sack(DropAcked(c, pkt), pkt) /\ 2 * Position(pkt.ack_nr) < SeqMod
    BY <1>2 DEF left
  <2> QED BY <1>2, <1>6, <1>7, <2>1, <2>2, LeftIs
<1>9. Spent(left)
  <2> HIDE DEF left
  <2> QED BY <1>6, <1>8, SpentSame DEF LeftOf, Kept
<1>10. ASSUME NEW f, Fits(f), Spent(f) PROVE Fits(Seen(f)) /\ Spent(Seen(f))
  <2>1. f \in Conn
    BY <1>10 DEF Fits
  <2>2. f.idle \in Nat /\ f.timeout \in Nat /\ f.dup_acks \in Nat /\ pkt.ack_nr \in Uint16
    BY <1>2, <2>1 DEF Conn, AckFrame
  <2>3. Fits(Seen(f))
    BY <1>10, <2>2, OtherFields DEF Kept
  <2>4. Seen(f).inflight = f.inflight /\ Seen(f).seq_nr = f.seq_nr /\ Seen(f).offset = f.offset
    BY <2>1 DEF Conn
  <2> QED BY <1>10, <2>3, <2>4 DEF Spent
<1>11. CASE Moved
  <2>1. PICK delay \in Delays, rto \in RttTimeouts :
          Leaves(Seen(packetize(Progress(c, left, delay, rto))), 1)
    BY <1>11
  <2> DEFINE e == Progress(c, left, delay, rto)
             f == packetize(e)
             g == Seen(f)
  <2>2. Len(left.inflight) < Len(c.inflight) /\ Len(left.inflight) \in Nat /\ Len(c.inflight) \in Nat
    BY <1>6, <1>8, <1>11, PacketsOf
  <2>3. c.inflight # <<>>
    <3>1. c.inflight = <<>> => Len(c.inflight) = 0
      OBVIOUS
    <3> HIDE DEF Moved, left
    <3> QED BY <2>2, <3>1
  <2>4. Kept(c, e)
    BY <1>6, <1>8, <2>3, ProgressKeeps
  <2>5. Quiet(left, e)
    <3> HIDE DEF left, e
    <3>1. e = Progress(c, left, delay, rto)
      BY DEF e
    <3> QED BY <1>8, <3>1, ProgressQuiet
  <2>6. Leaves(g, 1)
    BY <2>1
  <2> HIDE DEF e, left, Moved, Stuck
  <2>7. Streams(e, submitted) /\ Fits(e)
    <3>1. Streams(e, submitted)
      BY <1>4, <1>6, <2>4, KeptStreams
    <3> QED BY <3>1 DEF Streams
  <2>8. Spent(e)
    <3>1. e.offset = left.offset /\ e.seq_nr = left.seq_nr /\ e.inflight = left.inflight
      BY <1>8, <2>4, <2>5 DEF Kept, Quiet
    <3> QED BY <1>9, <3>1 DEF Spent
  <2>9. Streams(f, submitted) /\ Spent(f)
    <3>1. Streams(f, submitted)
      BY <1>4, <2>7, PacketizeStreams
    <3> HIDE DEF f
    <3>2. f = packetize(e)
      BY DEF f
    <3> QED BY <1>4, <2>7, <2>8, <3>1, <3>2, PacketizeSpends
  <2> HIDE DEF f
  <2>10. Fits(g) /\ Spent(g)
    BY <1>10, <2>9 DEF Streams
  <2> HIDE DEF g
  <2> QED BY <2>6, <2>10, LeavesSpent
<1>12. CASE Stuck
  <2> DEFINE f == NoProgress(left, pkt)
             g == Seen(f)
  <2>1. Leaves(g, 1)
    BY <1>12
  <2>2. Kept(left, f)
    BY <1>2, <1>8, NoProgressKeeps
  <2> HIDE DEF f, Moved, Stuck, left
  <2>3. f = NoProgress(left, pkt)
    BY DEF f
  <2>4. Resends(left, f)
    BY <1>2, <1>8, <2>3, NoProgressIs DEF LeftOf
  <2>5. Fits(f) /\ f.seq_nr = left.seq_nr /\ f.offset = left.offset /\ Len(f.inflight) = Len(left.inflight)
    BY <2>2, <2>4 DEF Kept, Resends, SameSeqs
  <2>6. Spent(f)
    <3>1. Len(f.inflight) <= Len(left.inflight)
      BY <1>8, <2>5, PacketsOf
    <3> QED BY <1>8, <1>9, <2>5, <3>1, SpentSame
  <2>7. Fits(g) /\ Spent(g)
    BY <1>10, <2>5, <2>6
  <2> HIDE DEF g
  <2> QED BY <2>1, <2>7, LeavesSpent
<1> HIDE DEF Moved, Stuck
<1> QED BY <1>3, <1>11, <1>12

LEMMA NextSpends ==
  ASSUME StreamInv, NumbersInv, Few, SpentInv, [Next]_vars
  PROVE  SpentInv'
<1>1. SenderInv /\ NetworkType /\ Numbers /\ NetNumbers /\ Fits(conn) /\ conn \in Conn /\ conn.out_frames = {}
      /\ Streams(conn, submitted) /\ submitted \in Seq(PayloadSizes)
  BY InvParts, NetTypes DEF NumbersInv, SenderInv
<1>2. Spent(conn) /\ Len(submitted) <= MaxPayloads
  BY DEF SpentInv
<1>3. CASE \E size \in PayloadSizes : app_send(size)
  <2>1. PICK size \in PayloadSizes : app_send(size)
    BY <1>3
  <2> DEFINE s == Append(submitted, size)
             d == [conn EXCEPT !.pending = Append(@, [payload |-> Len(s), remaining |-> size])]
             e == packetize(d)
  <2>2. submitted' = s /\ Len(submitted) < MaxPayloads /\ Leaves(e, 0)
    BY <2>1 DEF app_send
  <2>3. Streams(d, s) /\ s \in Seq(PayloadSizes)
    BY <1>1, <2>2, AppendStreams
  <2>4. Spent(d)
    <3>1. d.seq_nr = conn.seq_nr /\ d.offset = conn.offset /\ d.inflight = conn.inflight
      BY <1>1 DEF Conn
    <3> HIDE DEF d
    <3> QED BY <1>2, <3>1 DEF Spent
  <2>5. Len(s) <= MaxPayloads
    <3>1. Len(s) = Len(submitted) + 1 /\ Len(submitted) \in Nat /\ MaxPayloads \in Nat
      BY <1>1, WindowAssumption
    <3> HIDE DEF s
    <3> QED BY <2>2, <3>1
  <2> HIDE DEF d, s
  <2>6. Streams(e, s)
    BY <2>3, PacketizeStreams
  <2> HIDE DEF e
  <2>7. e = packetize(d)
    BY DEF e
  <2>8. Fits(e) /\ Spent(e)
    <3>1. Fits(e)
      BY <2>6 DEF Streams
    <3> QED BY <2>3, <2>4, <2>7, <3>1, PacketizeSpends
  <2>9. Spent(conn)'
    BY <2>2, <2>8, LeavesSpent
  <2> QED BY <2>2, <2>5, <2>9 DEF SpentInv
<1>4. CASE ReceiveAck
  <2>1. Spent(conn)'
    BY <1>1, <1>2, <1>4, AckWithinHalf, AckSpends
  <2> QED BY <1>2, <1>4, <2>1 DEF SpentInv, ReceiveAck
<1>5. CASE on_timeout
  <2> DEFINE c == [conn EXCEPT !.timeout = 2 * conn.timeout, !.cwnd = MinPacket]
             d == retransmit(c, {1})
  <2>1. conn.inflight # <<>> /\ Leaves(d, 0) /\ submitted' = submitted
    BY <1>5 DEF on_timeout
  <2>2. Fits(c) /\ c.offset = conn.offset /\ c.seq_nr = conn.seq_nr /\ c.inflight = conn.inflight
    <3>1. /\ conn.idle \in Nat /\ 2 * conn.timeout \in Nat /\ conn.dup_acks \in Nat
          /\ conn.last_ack_seen \in Uint16
      BY <1>1 DEF Conn
    <3>2. Fits(c)
      BY <1>1, <3>1, OtherFields DEF Kept
    <3> QED BY <1>1, <3>2 DEF Conn
  <2> HIDE DEF c
  <2>3. {1} \in SUBSET (1 .. Len(c.inflight)) /\ Len(c.inflight) \in Nat
    BY <2>1, <2>2, PacketsOf, FirstIndex
  <2>4. Kept(c, d) /\ Len(d.inflight) = Len(c.inflight)
    BY <2>2, <2>3, RetransmitKeeps
  <2>5. d.seq_nr = c.seq_nr
    <3> HIDE DEF d
    <3>1. d = retransmit(c, {1})
      BY DEF d
    <3> QED BY <2>2, <2>3, <3>1, RetransmitIs
  <2> HIDE DEF d
  <2>6. Spent(d) /\ Fits(d)
    BY <1>2, <2>2, <2>4, <2>5 DEF Spent, Kept
  <2>7. Spent(conn)'
    BY <2>1, <2>6, LeavesSpent
  <2> QED BY <1>2, <2>1, <2>7 DEF SpentInv
<1>6. CASE Elapse
  <2>1. conn'.seq_nr = conn.seq_nr /\ conn'.offset = conn.offset /\ conn'.inflight = conn.inflight
        /\ submitted' = submitted
    BY <1>1, <1>6 DEF Elapse, Conn
  <2> QED BY <1>2, <2>1 DEF SpentInv, Spent
<1>7. CASE UNCHANGED <<conn, submitted>>
  BY <1>2, <1>7 DEF SpentInv, Spent
<1>8. CASE \E pkt \in flying : Deliver(pkt)
  BY <1>7, <1>8 DEF Deliver
<1> QED BY <1>3, <1>4, <1>5, <1>6, <1>7, <1>8 DEF Next, vars, PeerSends, Lose

\* The stream is as long as what was submitted, at most.
LEMMA SubmittedAtMost ==
  ASSUME NEW s \in Seq(PayloadSizes), NEW m \in Nat, Len(s) <= m, NEW size \in Nat,
         \A z \in PayloadSizes : z <= size
  PROVE  SumTo(s, Len(s)) <= m * size
<1> DEFINE P == {n \in Nat : n <= Len(s) => SumTo(s, n) <= n * size}
<1>1. /\ Len(s) \in Nat /\ \A i \in 1 .. Len(s) : s[i] \in Nat /\ s[i] <= size
      /\ \A n \in 0 .. Len(s) : SumTo(s, n) \in Nat
  <2>1. \A i \in 1 .. Len(s) : s[i] \in PayloadSizes
    OBVIOUS
  <2> QED BY <2>1, SizesIs
<1>2. 0 \in P
  BY SumZero
<1>3. ASSUME NEW n \in P PROVE n + 1 \in P
  <2>1. SUFFICES ASSUME n + 1 <= Len(s) PROVE SumTo(s, n + 1) <= (n + 1) * size
    OBVIOUS
  <2>2. n \in Nat /\ n \in 0 .. Len(s) /\ n + 1 \in 1 .. Len(s) /\ SumTo(s, n) <= n * size
    BY <1>1, <2>1
  <2>3. SumTo(s, n + 1) = SumTo(s, n) + s[n + 1]
    BY <2>2, SumNext
  <2>4. (n + 1) * size = n * size + size /\ n * size \in Nat
    BY <2>2, TimesGrows
  <2> DEFINE x == n * size
             y == SumTo(s, n)
             z == s[n + 1]
  <2>5. x \in Nat /\ y \in Nat /\ z \in Nat /\ y <= x /\ z <= size
    BY <1>1, <2>2, <2>4
  <2> HIDE DEF x, y, z
  <2>6. y + z <= x + size
    BY <2>5
  <2> QED BY <2>3, <2>4, <2>6 DEF x, y, z
<1>4. P = Nat
  <2> HIDE DEF P
  <2>1. P \in SUBSET Nat
    BY DEF P
  <2> QED BY <1>2, <1>3, <2>1, SetInduction
<1>5. SumTo(s, Len(s)) <= Len(s) * size
  <2>1. Len(s) \in P
    BY <1>1, <1>4
  <2> QED BY <1>1, <2>1
<1>6. Len(s) * size <= m * size /\ Len(s) * size \in Nat /\ m * size \in Nat
  BY <1>1, TimesGrows
<1>7. SumTo(s, Len(s)) \in Nat
  <2>1. Len(s) \in 0 .. Len(s)
    BY <1>1
  <2> QED BY <1>1, <2>1
<1> DEFINE x == SumTo(s, Len(s))
           y == Len(s) * size
           z == m * size
<1>8. x \in Nat /\ y \in Nat /\ z \in Nat /\ x <= y /\ y <= z
  BY <1>5, <1>6, <1>7
<1> HIDE DEF x, y, z
<1>9. x <= z
  BY <1>8
<1> QED BY <1>9 DEF x, z

\* Every offset is within what was submitted.
LEMMA OffsetAtMost ==
  ASSUME NEW s \in Seq(PayloadSizes), NEW c, Streams(c, s)
  PROVE  c.offset \in Nat /\ c.offset <= SumTo(s, Len(s))
<1> DEFINE q == c.pending
           n == Len(s)
           done == n - Len(q)
<1>1. /\ c.offset \in Nat /\ q \in Seq(Waiting) /\ WaitsFrom(c, s, done) /\ n \in Nat /\ Len(q) \in Nat
  BY DEF Streams, Fits, Conn, Waiting
<1>2. CASE q = <<>>
  <2>1. Len(q) = 0 /\ done = n
    BY <1>1, <1>2
  <2>2. c.offset = SumTo(s, n)
    BY <1>1, <1>2, <2>1 DEF WaitsFrom
  <2> QED BY <1>1, <2>2
<1>3. CASE q # <<>>
  <2>1. Len(q) \in 1 .. Len(q) /\ Len(q) \in 0 .. Len(q) /\ done + Len(q) = n
    BY <1>1, <1>3
  <2>2. c.offset + WaitingUntil(c, Len(q)) = SumTo(s, n)
    BY <1>1, <2>1 DEF WaitsFrom
  <2>3. WaitingUntil(c, Len(q)) \in Nat
    BY <1>1, <2>1, WaitingIs
  <2> DEFINE x == SumTo(s, n)
             y == WaitingUntil(c, Len(q))
  <2>4. c.offset + y = x /\ y \in Nat
    BY <2>2, <2>3
  <2> HIDE DEF x, y
  <2>5. c.offset <= x
    BY <1>1, <2>4
  <2> QED BY <1>1, <2>5 DEF x
<1> QED BY <1>2, <1>3

LEMMA SpentFew ==
  ASSUME FewBytes, NEW s \in Seq(PayloadSizes), NEW c, Streams(c, s), Spent(c), Len(s) <= MaxPayloads
  PROVE  FewUsed(c)
<1>1. Fits(c)
  BY DEF Streams
<1>2. PICK size \in Nat : (\A z \in PayloadSizes : z <= size) /\ 2 * (MaxPayloads * size + 1) < SeqMod
  BY DEF FewBytes
<1>3. MaxPayloads \in Nat
  BY WindowAssumption
<1>4. SumTo(s, Len(s)) <= MaxPayloads * size /\ MaxPayloads * size \in Nat
  BY <1>2, <1>3, SubmittedAtMost, TimesGrows
<1>5. c.offset \in Nat /\ c.offset <= SumTo(s, Len(s)) /\ SumTo(s, Len(s)) \in Nat
  <2>1. Len(s) \in 0 .. Len(s)
    OBVIOUS
  <2> QED BY <2>1, OffsetAtMost, SizesIs
<1>6. Position(c.seq_nr) \in Nat /\ Len(c.inflight) \in Nat
  BY <1>1, PlacesAre, PacketsOf
<1> DEFINE x == MaxPayloads * size
           y == SumTo(s, Len(s))
<1>7. x \in Nat /\ y \in Nat /\ y <= x /\ c.offset <= y /\ 2 * (x + 1) < SeqMod
  BY <1>2, <1>4, <1>5
<1> HIDE DEF x, y
<1>8. Position(c.seq_nr) <= c.offset + 1 /\ Len(c.inflight) <= c.offset
  BY DEF Spent
<1>9. Position(c.seq_nr) <= x + 1 /\ Len(c.inflight) <= x + 1
  BY <1>5, <1>6, <1>7, <1>8
<1>10. 2 * Position(c.seq_nr) < SeqMod /\ 2 * Len(c.inflight) < SeqMod
  BY <1>6, <1>7, <1>9, FirstSeqIs
<1> QED BY <1>10 DEF FewUsed

\* A stream of fewer than half as many bytes as there are numbers uses fewer than
\* half of them, whatever is lost and sent again (packetize).
THEOREM FewBytesFewNumbers == ASSUME FewBytes PROVE Spec => []Few
<1>1. Init => StreamInv /\ NumbersInv /\ SpentInv /\ Few
  <2>1. SUFFICES ASSUME Init PROVE StreamInv /\ NumbersInv /\ SpentInv /\ Few
    OBVIOUS
  <2>2. StreamInv /\ NumbersInv
    BY <2>1, InitInv, InitNumbers
  <2>3. SpentInv
    <3>1. conn.seq_nr = FirstSeq /\ conn.offset = 0 /\ conn.inflight = <<>> /\ submitted = <<>>
      BY <2>1 DEF Init
    <3>2. Position(conn.seq_nr) = 1 /\ Len(conn.inflight) = 0 /\ Len(submitted) = 0 /\ MaxPayloads \in Nat
      BY <3>1, FirstPosition, WindowAssumption
    <3> QED BY <3>1, <3>2 DEF SpentInv, Spent
  <2>4. Few
    BY <2>2, <2>3, SpentFew DEF StreamInv, TypeOK, SpentInv, Few
  <2> QED BY <2>2, <2>3, <2>4
<1>2. StreamInv /\ NumbersInv /\ SpentInv /\ Few /\ [Next]_vars => (StreamInv /\ NumbersInv /\ SpentInv /\ Few)'
  <2>1. SUFFICES ASSUME StreamInv, NumbersInv, SpentInv, Few, [Next]_vars
                 PROVE  StreamInv' /\ NumbersInv' /\ SpentInv' /\ Few'
    OBVIOUS
  <2>2. StreamInv' /\ SpentInv'
    BY <2>1, NextKeeps, NextSpends
  <2>3. Few'
    <3>1. /\ submitted' \in Seq(PayloadSizes) /\ Streams(conn', submitted') /\ Spent(conn')
          /\ Len(submitted') <= MaxPayloads
      BY <2>2 DEF StreamInv, TypeOK, SpentInv
    <3>2. FewUsed(conn')
      BY <3>1, SpentFew
    <3> QED BY <3>2 DEF Few, FewUsed
  <2> QED BY <2>1, <2>2, <2>3, NextNumbers
<1> QED BY <1>1, <1>2, PTL DEF Spec

\* So for streams this short the window is cut once for each window of packets
\* that has a loss, and no packet at the front is put off, without any hypothesis
\* on the behaviour (cut_window, process_acks).
THEOREM ShortStreams ==
  ASSUME FewBytes
  PROVE  Spec => OneCutPerWindow /\ LossIsCut /\ []NotPostponed
<1> QED BY CutsOncePerWindow, CutsForLoss, FrontNotPostponed, FewBytesFewNumbers, PTL

=============================================================================
