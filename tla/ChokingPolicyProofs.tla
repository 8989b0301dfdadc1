------------------------- MODULE ChokingPolicyProofs -------------------------
(***************************************************************************)
(* The safety properties of the choking policy, for every set of peers,    *)
(* number of slots, window and period: who is unchoked is who holds a      *)
(* slot, no snubbed peer holds a rate slot and no snub mark outlives its   *)
(* reason, and the commands under way bring peer_wire to the policy's      *)
(* view.  That the optimistic slot goes round is liveness and left to the  *)
(* runs.                                                                   *)
(***************************************************************************)
EXTENDS ChokingPolicy, TLAPS, FiniteNatSets

-----------------------------------------------------------------------------
(* Facts about the operators                                                 *)

\* Sequences and the functions they are.
LEMMA SequenceElement ==
  ASSUME NEW S, NEW s \in Seq(S), NEW i \in 1 .. Len(s)
  PROVE  s[i] \in S
  OBVIOUS

\* Sets of peers are finite sets of natural numbers.
LEMMA PeerSets ==
  ASSUME NEW P, P \subseteq Peers
  PROVE  P \subseteq Nat /\ IsFiniteSet(P) /\ Cardinality(P) \in Nat
  BY PeersAssumption, FS_Subset, FS_CardinalityType

\* The rates of a finite set of peers: the worst of them, by rate and then by
\* peer_id, is worse than every other one (the order rechoke sorts by).
LEMMA WorstExists ==
  ASSUME NEW T, T \subseteq Peers, T # {}, \A p \in T : current_rate(p) \in Nat
  PROVE  \E w \in T : \A q \in T \ {w} : Better(q, w)
  <1> DEFINE rates == {current_rate(p) : p \in T}
  <1>1. PICK r \in rates : \A q \in rates : r <= q
    <2>1. rates \subseteq Nat /\ rates # {}
      OBVIOUS
    <2> HIDE DEF rates
    <2> QED BY <2>1, LeastElement
  <1> DEFINE slowest == {p \in T : current_rate(p) = r}
  <1>2. PICK w \in slowest : \A q \in slowest : q <= w
    <2>1. slowest \subseteq T /\ slowest # {}
      BY <1>1
    <2>2. slowest \subseteq Nat /\ IsFiniteSet(slowest)
      BY <2>1, PeerSets
    <2> HIDE DEF slowest
    <2> QED BY <2>1, <2>2, GreatestElement
  <1>3. ASSUME NEW q \in T \ {w} PROVE Better(q, w)
    <2>1. r <= current_rate(q) /\ r \in Nat /\ current_rate(q) \in Nat /\ current_rate(w) = r
      BY <1>1
    <2>2. q \in Nat /\ w \in Nat /\ q # w
      BY PeerSets
    <2>3. CASE current_rate(q) = r
      <3>1. q <= w
        BY <1>2, <2>3
      <3> QED BY <2>1, <2>2, <2>3, <3>1 DEF Better
    <2>4. CASE current_rate(q) # r
      <3>1. current_rate(q) > current_rate(w)
        BY <2>1, <2>4
      <3> QED BY <3>1 DEF Better
    <2> QED BY <2>3, <2>4
  <1> QED BY <1>3

\* No more peers are ranked than there are rate slots: the worst one of them
\* has all the others before it (rechoke).
LEMMA RankedFits ==
  ASSUME NEW s, interested \subseteq Peers, \A p \in Peers : current_rate(p) \in Nat
  PROVE  /\ Ranked(s) \subseteq interested \ s.snubbed
         /\ Cardinality(Ranked(s)) <= RateSlots
  <1> DEFINE C == interested \ s.snubbed
             Before(p) == {q \in C : Better(q, p)}
             T == {p \in C : Cardinality(Before(p)) < RateSlots}
  <1>1. Ranked(s) = T
    BY DEF Ranked
  <1>2. T \subseteq C /\ C \subseteq Peers /\ T \subseteq Peers
    OBVIOUS
  <1>3. IsFiniteSet(T) /\ Cardinality(T) \in Nat /\ RateSlots \in Nat
    BY <1>2, PeerSets, SlotsAssumption
  <1>4. ASSUME T = {} PROVE Cardinality(T) <= RateSlots
    <2>1. Cardinality(T) = 0
      BY <1>4, FS_EmptySet
    <2> QED BY <1>3, <2>1
  <1>5. ASSUME T # {} PROVE Cardinality(T) <= RateSlots
    <2>1. \A p \in T : current_rate(p) \in Nat
      BY <1>2
    <2>2. PICK w \in T : \A q \in T \ {w} : Better(q, w)
      BY <1>2, <1>5, <2>1, WorstExists
    <2>3. T \ {w} \in SUBSET Before(w) /\ Cardinality(Before(w)) < RateSlots
      BY <2>2
    <2>4. IsFiniteSet(Before(w)) /\ Cardinality(Before(w)) \in Nat
      BY <1>2, PeerSets
    <2>5. Cardinality(T \ {w}) = Cardinality(T) - 1
      BY <1>3, FS_RemoveElement
    <2>6. Cardinality(T \ {w}) <= Cardinality(Before(w))
      BY <2>3, <2>4, FS_Subset
    <2> HIDE DEF T, Before
    <2> QED BY <1>3, <2>3, <2>4, <2>5, <2>6
  <1>6. Cardinality(T) <= RateSlots
    BY <1>4, <1>5
  <1> HIDE DEF T
  <1> QED BY <1>1, <1>2, <1>6

-----------------------------------------------------------------------------
(* What peer_wire is told.  CommandsReconcile, taken apart for one peer, so  *)
(* that it can be followed through a queue that grows and one that drains.   *)

Mine(pending, p) == {i \in DOMAIN pending : pending[i].peer = p}

\* What the wire knows of p when the commands before the i-th are carried out.
Told(am, pending, p, i) ==
  LET before == {j \in Mine(pending, p) : j < i}
  IN  IF before = {} THEN p \in am
      ELSE pending[CHOOSE j \in before : \A k \in before : k <= j].unchoke

Reconciles(am, pending, unchoked, p) ==
  /\ \A i \in Mine(pending, p) : pending[i].unchoke # Told(am, pending, p, i)
  /\ Told(am, pending, p, Len(pending) + 1) = (p \in unchoked)

\* The two ways to say it are the same.
LEMMA ReconcilesEach ==
  CommandsReconcile <=>
    \A p \in Peers : Reconciles(am_unchoking, slots.pending, slots.unchoked, p)
  BY DEF CommandsReconcile, Reconciles, Told, Mine

\* The fields of the commands queued (choke_cmd).
LEMMA CommandFields ==
  ASSUME NEW pending \in Seq(ChokeCmd), NEW p
  PROVE  /\ Mine(pending, p) \subseteq DOMAIN pending
         /\ Mine(pending, p) \subseteq Nat
         /\ \A i \in DOMAIN pending : pending[i].peer \in Peers /\ pending[i].unchoke \in BOOLEAN
  <1>1. \A i \in DOMAIN pending : pending[i] \in ChokeCmd /\ i \in Nat
    OBVIOUS
  <1> QED BY <1>1 DEF Mine, ChokeCmd

\* Without a command for p before the i-th, the wire knows what it knew.
LEMMA ToldNone ==
  ASSUME NEW am, NEW pending, NEW p, NEW i, \A j \in Mine(pending, p) : ~(j < i)
  PROVE  Told(am, pending, p, i) = (p \in am)
  BY DEF Told

\* Otherwise it knows what the last of them says.
LEMMA ToldLast ==
  ASSUME NEW am, NEW pending \in Seq(ChokeCmd), NEW p, NEW i \in Int,
         NEW j \in Mine(pending, p), j < i, \A k \in Mine(pending, p) : k < i => k <= j
  PROVE  Told(am, pending, p, i) = pending[j].unchoke
  <1> DEFINE before == {k \in Mine(pending, p) : k < i}
             last   == CHOOSE k \in before : \A l \in before : l <= k
  <1>1. j \in before /\ \A k \in before : k <= j
    OBVIOUS
  <1>2. last \in before /\ \A k \in before : k <= last
    BY <1>1
  <1>3. j \in Nat /\ last \in Nat /\ j <= last /\ last <= j
    BY <1>1, <1>2, CommandFields
  <1>4. last = j
    BY <1>3
  <1>5. before # {}
    BY <1>1
  <1> HIDE DEF last
  <1>6. Told(am, pending, p, i) = pending[last].unchoke
    BY <1>5 DEF Told, last
  <1> QED BY <1>4, <1>6

\* There is a last one if there is any.
LEMMA LastExists ==
  ASSUME NEW pending \in Seq(ChokeCmd), NEW p, NEW i \in Int,
         \E j \in Mine(pending, p) : j < i
  PROVE  \E j \in Mine(pending, p) : j < i /\ \A k \in Mine(pending, p) : k < i => k <= j
  <1> DEFINE before == {k \in Mine(pending, p) : k < i}
  <1>1. Len(pending) \in Nat /\ DOMAIN pending = 1 .. Len(pending)
    OBVIOUS
  <1>2. before \subseteq Nat /\ before \in SUBSET (1 .. Len(pending)) /\ before # {}
    BY <1>1, CommandFields
  <1>3. IsFiniteSet(before)
    <2>1. IsFiniteSet(1 .. Len(pending))
      BY <1>1, FS_Interval
    <2> HIDE DEF before
    <2> QED BY <1>2, <2>1, FS_Subset
  <1> HIDE DEF before
  <1>4. \E j \in before : \A k \in before : k <= j
    BY <1>2, <1>3, GreatestElement
  <1> QED BY <1>4 DEF before

\* Two queues have the same commands for p before two positions, those of the
\* first d further on.
Alike(pending, pending2, p, i, i2, d) ==
  /\ \A j \in Mine(pending2, p) : j < i2 =>
       /\ j + d \in Mine(pending, p) /\ j + d < i
       /\ pending[j + d].unchoke = pending2[j].unchoke
  /\ \A j \in Mine(pending, p) : j < i => j - d \in Mine(pending2, p) /\ j - d < i2

\* The wire is told the same by such queues.
LEMMA ToldAlike ==
  ASSUME NEW am, NEW am2, NEW pending \in Seq(ChokeCmd), NEW pending2 \in Seq(ChokeCmd),
         NEW p, NEW i \in Int, NEW i2 \in Int, NEW d \in Int,
         (p \in am) = (p \in am2), Alike(pending, pending2, p, i, i2, d)
  PROVE  Told(am, pending, p, i) = Told(am2, pending2, p, i2)
  <1>1. CASE \E j \in Mine(pending2, p) : j < i2
    <2>1. PICK j \in Mine(pending2, p) :
            j < i2 /\ \A k \in Mine(pending2, p) : k < i2 => k <= j
      BY <1>1, LastExists
    <2>2. Told(am2, pending2, p, i2) = pending2[j].unchoke
      BY <2>1, ToldLast
    <2>3. /\ j + d \in Mine(pending, p) /\ j + d < i
          /\ pending[j + d].unchoke = pending2[j].unchoke
      BY <2>1 DEF Alike
    <2>4. ASSUME NEW k \in Mine(pending, p), k < i PROVE k <= j + d
      <3>1. k - d \in Mine(pending2, p) /\ k - d < i2
        BY <2>4 DEF Alike
      <3>2. k - d <= j
        BY <2>1, <3>1
      <3>3. k \in Nat /\ j \in Nat
        BY CommandFields
      <3> QED BY <3>2, <3>3
    <2>5. Told(am, pending, p, i) = pending[j + d].unchoke
      BY <2>3, <2>4, ToldLast
    <2> QED BY <2>2, <2>3, <2>5
  <1>2. CASE \A j \in Mine(pending2, p) : ~(j < i2)
    <2>1. Told(am2, pending2, p, i2) = (p \in am2)
      BY <1>2, ToldNone
    <2>2. \A j \in Mine(pending, p) : ~(j < i)
      BY <1>2 DEF Alike
    <2>3. Told(am, pending, p, i) = (p \in am)
      BY <2>2, ToldNone
    <2> QED BY <2>1, <2>3
  <1> QED BY <1>1, <1>2

-----------------------------------------------------------------------------
(* set_unchoked                                                              *)

Changed(s, P, unchoke) == {p \in P : (p \in s.unchoked) # unchoke}

Commands(s, P, unchoke) ==
  [i \in 1 .. Cardinality(Changed(s, P, unchoke)) |->
     [peer |-> Ascending(Changed(s, P, unchoke))[i], unchoke |-> unchoke]]

\* One command of a list is for p.
OneFor(cmds, p) ==
  \E i \in 1 .. Len(cmds) :
    cmds[i].peer = p /\ \A j \in 1 .. Len(cmds) : cmds[j].peer = p => j = i

\* The commands that set_unchoked queues: one for each peer it changes.
LEMMA CommandsList ==
  ASSUME NEW s, NEW P, P \subseteq Peers, NEW unchoke \in BOOLEAN
  PROVE  /\ Commands(s, P, unchoke) \in Seq(ChokeCmd)
         /\ Len(Commands(s, P, unchoke)) = Cardinality(Changed(s, P, unchoke))
         /\ Cardinality(Changed(s, P, unchoke)) \in Nat
         /\ \A i \in 1 .. Cardinality(Changed(s, P, unchoke)) :
              /\ Commands(s, P, unchoke)[i].peer \in Changed(s, P, unchoke)
              /\ Commands(s, P, unchoke)[i].unchoke = unchoke
         /\ \A p \in Changed(s, P, unchoke) : OneFor(Commands(s, P, unchoke), p)
  <1> DEFINE C == Changed(s, P, unchoke)
             n == Cardinality(C)
             cmds == Commands(s, P, unchoke)
  <1>1. C \subseteq Peers
    BY DEF Changed
  <1>2. n \in Nat
    BY <1>1, PeerSets
  <1>3. cmds = [i \in 1 .. n |-> [peer |-> Ascending(C)[i], unchoke |-> unchoke]]
    BY DEF Commands
  <1> HIDE DEF C, n, cmds
  <1>4. /\ \A i \in 1 .. n : Ascending(C)[i] \in C
        /\ \A p \in C : \E i \in 1 .. n :
             Ascending(C)[i] = p /\ \A j \in 1 .. n : Ascending(C)[j] = p => j = i
    BY <1>1, PeerSets, AscendingLists DEF n
  <1>5. \A i \in 1 .. n : /\ cmds[i].peer = Ascending(C)[i] /\ cmds[i].unchoke = unchoke
                          /\ cmds[i] = [peer |-> Ascending(C)[i], unchoke |-> unchoke]
    BY <1>3
  <1>6. ASSUME NEW i \in 1 .. n PROVE cmds[i] \in ChokeCmd
    <2>1. Ascending(C)[i] \in Peers
      BY <1>1, <1>4
    <2>2. cmds[i] = [peer |-> Ascending(C)[i], unchoke |-> unchoke]
      BY <1>5
    <2> QED BY <2>1, <2>2 DEF ChokeCmd
  <1>7. cmds \in Seq(ChokeCmd) /\ Len(cmds) = n
    <2>1. cmds = [i \in 1 .. n |-> cmds[i]]
      BY <1>3
    <2> QED BY <1>2, <1>6, <2>1
  <1>8. \A i \in 1 .. n : cmds[i].peer \in C /\ cmds[i].unchoke = unchoke
    BY <1>4, <1>5
  <1>9. ASSUME NEW p \in C PROVE OneFor(cmds, p)
    <2>1. PICK i \in 1 .. n : Ascending(C)[i] = p /\ \A j \in 1 .. n : Ascending(C)[j] = p => j = i
      BY <1>4
    <2>2. \A j \in 1 .. n : cmds[j].peer = Ascending(C)[j]
      BY <1>5
    <2> QED BY <1>7, <2>1, <2>2 DEF OneFor
  <1> QED BY <1>2, <1>7, <1>8, <1>9 DEF C, n, cmds

\* What set_unchoked does to each field, and that it keeps the types.
LEMMA SetUnchokedFields ==
  ASSUME NEW s \in Slots, NEW P, P \subseteq Peers, NEW unchoke \in BOOLEAN
  PROVE  /\ set_unchoked(s, P, unchoke) \in Slots
         /\ unchoke = TRUE => set_unchoked(s, P, unchoke).unchoked = s.unchoked \cup P
         /\ unchoke = FALSE => set_unchoked(s, P, unchoke).unchoked = s.unchoked \ P
         /\ set_unchoked(s, P, unchoke).snubbed = s.snubbed
         /\ set_unchoked(s, P, unchoke).rate_unchoked = s.rate_unchoked
         /\ set_unchoked(s, P, unchoke).optimistic = s.optimistic
         /\ set_unchoked(s, P, unchoke).pending = s.pending \o Commands(s, P, unchoke)
  <1> DEFINE since == [p \in Peers |-> IF p \notin Changed(s, P, unchoke) THEN s.since_unchoked[p]
                                       ELSE IF unchoke THEN 0 ELSE NoTime]
             cmds  == Commands(s, P, unchoke)
             open  == IF unchoke THEN s.unchoked \cup P ELSE s.unchoked \ P
  <1>1. set_unchoked(s, P, unchoke)
          = [s EXCEPT !.unchoked = open, !.since_unchoked = since, !.pending = s.pending \o cmds]
    BY DEF set_unchoked, Changed, Commands
  <1>2. /\ s.unchoked \subseteq Peers /\ s.pending \in Seq(ChokeCmd)
        /\ s.since_unchoked \in [Peers -> 0 .. SnubTime \cup {NoTime}]
    BY DEF Slots
  <1>3. open \subseteq Peers
    BY <1>2
  <1>4. since \in [Peers -> 0 .. SnubTime \cup {NoTime}]
    <2>1. 0 \in 0 .. SnubTime
      BY TimesAssumption
    <2> QED BY <1>2, <2>1
  <1>5. s.pending \o cmds \in Seq(ChokeCmd)
    <2>1. cmds \in Seq(ChokeCmd)
      BY CommandsList
    <2> QED BY <1>2, <2>1
  <1> HIDE DEF since, cmds, open
  <1>6. set_unchoked(s, P, unchoke) \in Slots
    BY <1>1, <1>3, <1>4, <1>5 DEF Slots
  <1> QED BY <1>1, <1>6 DEF Slots, open, cmds

\* A queue that brings the wire to the policy's view still does when each
\* command put behind it changes what it says: a peer gets at most one, that
\* says the opposite of the view before.
LEMMA QueueReconciles ==
  ASSUME NEW queue \in Seq(ChokeCmd), NEW cmds \in Seq(ChokeCmd), NEW C,
         NEW unchoke \in BOOLEAN, NEW unchoked, NEW open, NEW am, NEW p,
         Reconciles(am, queue, unchoked, p),
         \A i \in 1 .. Len(cmds) : cmds[i].peer \in C /\ cmds[i].unchoke = unchoke,
         p \in C => OneFor(cmds, p),
         p \in C => (p \in unchoked) # unchoke /\ (p \in open) = unchoke,
         p \notin C => (p \in open) = (p \in unchoked)
  PROVE  Reconciles(am, queue \o cmds, open, p)
  <1> DEFINE n   == Len(queue)
             m   == Len(cmds)
             new == queue \o cmds
  <1>1. n \in Nat /\ m \in Nat
    OBVIOUS
  <1>2. /\ new \in Seq(ChokeCmd) /\ Len(new) = n + m
        /\ \A i \in 1 .. n : new[i] = queue[i]
        /\ \A i \in 1 .. m : new[n + i] = cmds[i]
        /\ DOMAIN queue = 1 .. n /\ DOMAIN new = 1 .. n + m
    OBVIOUS
  <1>3. \A i \in 1 .. m : cmds[i].peer \in C /\ cmds[i].unchoke = unchoke
    OBVIOUS
  <1> HIDE DEF new
  <1>4. \A i \in Int : i <= n => (i \in Mine(new, p) <=> i \in Mine(queue, p))
    BY <1>1, <1>3, <1>2 DEF Mine
  <1>5. \A i \in Mine(queue, p) : i \in 1 .. n
    BY <1>2 DEF Mine
  <1>6. ASSUME NEW i \in 1 .. n + 1
        PROVE  Told(am, queue, p, i) = Told(am, new, p, i)
    <2>1. \A j \in Mine(new, p) : j < i =>
            /\ j + 0 \in Mine(queue, p) /\ j + 0 < i
            /\ queue[j + 0].unchoke = new[j].unchoke
      <3> SUFFICES ASSUME NEW j \in Mine(new, p), j < i
                   PROVE  /\ j + 0 \in Mine(queue, p) /\ j + 0 < i
                          /\ queue[j + 0].unchoke = new[j].unchoke
        OBVIOUS
      <3>1. j \in 1 .. n
        BY <1>1, <1>3, <1>2 DEF Mine
      <3>2. j + 0 = j
        BY <3>1
      <3> QED BY <1>2, <1>4, <3>1, <3>2
    <2>2. \A j \in Mine(queue, p) : j < i => j - 0 \in Mine(new, p) /\ j - 0 < i
      <3> SUFFICES ASSUME NEW j \in Mine(queue, p), j < i
                   PROVE  j - 0 \in Mine(new, p) /\ j - 0 < i
        OBVIOUS
      <3>1. j \in 1 .. n /\ j - 0 = j
        BY <1>5
      <3> QED BY <1>4, <3>1
    <2>3. i \in Int /\ 0 \in Int
      OBVIOUS
    <2>4. Alike(queue, new, p, i, i, 0)
      BY <2>1, <2>2 DEF Alike
    <2> QED BY <1>2, <2>3, <2>4, ToldAlike
  <1>7. /\ \A i \in Mine(queue, p) : queue[i].unchoke # Told(am, queue, p, i)
        /\ Told(am, queue, p, n + 1) = (p \in unchoked)
    BY DEF Reconciles
  <1>8. \A i \in Mine(queue, p) : new[i].unchoke # Told(am, new, p, i)
    <2> SUFFICES ASSUME NEW i \in Mine(queue, p)
                 PROVE  new[i].unchoke # Told(am, new, p, i)
      OBVIOUS
    <2>1. i \in 1 .. n /\ i \in 1 .. n + 1
      BY <1>1, <1>5
    <2> QED BY <1>2, <1>6, <1>7, <2>1
  <1>9. Told(am, new, p, n + 1) = (p \in unchoked)
    <2>1. n + 1 \in 1 .. n + 1
      BY <1>1
    <2> QED BY <1>6, <1>7, <2>1
  <1>10. CASE p \notin C
    <2>1. ASSUME NEW i \in Mine(new, p) PROVE i \in Mine(queue, p) /\ i < n + 1
      <3>1. i \in 1 .. n + m /\ new[i].peer = p
        BY <1>2 DEF Mine
      <3>2. CASE i <= n
        BY <1>1, <1>4, <3>1, <3>2
      <3>3. CASE i > n
        <4>1. i - n \in 1 .. m /\ n + (i - n) = i
          BY <1>1, <1>3, <3>1, <3>3
        <4> QED BY <1>3, <1>2, <1>10, <3>1, <4>1
      <3> QED BY <1>1, <3>1, <3>2, <3>3
    <2>2. (p \in unchoked) = (p \in open)
      BY <1>10
    <2>3. Told(am, new, p, n + m + 1) = Told(am, new, p, n + 1)
      <3>1. \A j \in Mine(new, p) : j < n + 1 =>
              /\ j + 0 \in Mine(new, p) /\ j + 0 < n + m + 1
              /\ new[j + 0].unchoke = new[j].unchoke
        <4> SUFFICES ASSUME NEW j \in Mine(new, p), j < n + 1
                     PROVE  /\ j + 0 \in Mine(new, p) /\ j + 0 < n + m + 1
                            /\ new[j + 0].unchoke = new[j].unchoke
          OBVIOUS
        <4>1. j \in Nat /\ j + 0 = j
          BY <1>2, CommandFields
        <4> QED BY <1>1, <1>3, <4>1
      <3>2. \A j \in Mine(new, p) : j < n + m + 1 => j - 0 \in Mine(new, p) /\ j - 0 < n + 1
        <4> SUFFICES ASSUME NEW j \in Mine(new, p)
                     PROVE  j - 0 \in Mine(new, p) /\ j - 0 < n + 1
          OBVIOUS
        <4>1. j \in Nat /\ j - 0 = j
          BY <1>2, CommandFields
        <4> QED BY <2>1, <4>1
      <3>3. n + 1 \in Int /\ n + m + 1 \in Int
        BY <1>1, <1>3
      <3>4. Alike(new, new, p, n + m + 1, n + 1, 0)
        BY <3>1, <3>2 DEF Alike
      <3> QED BY <1>2, <3>3, <3>4, ToldAlike
    <2> QED BY <1>1, <1>2, <1>8, <1>9, <2>1, <2>2, <2>3 DEF Reconciles, new
  <1>11. CASE p \in C
    <2>1. PICK k \in 1 .. m : cmds[k].peer = p /\ \A j \in 1 .. m : cmds[j].peer = p => j = k
      BY <1>11 DEF OneFor
    <2>2. n + k \in Mine(new, p) /\ new[n + k].unchoke = unchoke
      BY <1>1, <1>3, <1>2, <2>1 DEF Mine
    <2>3. ASSUME NEW i \in Mine(new, p) PROVE i \in Mine(queue, p) \/ i = n + k
      <3>1. i \in 1 .. n + m /\ new[i].peer = p
        BY <1>2 DEF Mine
      <3>2. CASE i <= n
        BY <1>1, <1>4, <3>1, <3>2
      <3>3. CASE i > n
        <4>1. i - n \in 1 .. m /\ n + (i - n) = i
          BY <1>1, <1>3, <3>1, <3>3
        <4>2. i - n = k
          BY <1>2, <2>1, <3>1, <4>1
        <4> QED BY <4>1, <4>2
      <3> QED BY <1>1, <3>1, <3>2, <3>3
    <2>4. \A i \in Mine(new, p) : i \in Nat /\ i <= n + k /\ (i # n + k => i < n + 1)
      BY <1>1, <1>5, <2>3
    <2>5. Told(am, new, p, n + k) = Told(am, new, p, n + 1)
      <3>1. \A j \in Mine(new, p) : j < n + 1 =>
              /\ j + 0 \in Mine(new, p) /\ j + 0 < n + k
              /\ new[j + 0].unchoke = new[j].unchoke
        <4> SUFFICES ASSUME NEW j \in Mine(new, p), j < n + 1
                     PROVE  /\ j + 0 \in Mine(new, p) /\ j + 0 < n + k
                            /\ new[j + 0].unchoke = new[j].unchoke
          OBVIOUS
        <4>1. j \in Nat /\ j + 0 = j /\ j < n + k
          BY <1>1, <2>4
        <4> QED BY <4>1
      <3>2. \A j \in Mine(new, p) : j < n + k => j - 0 \in Mine(new, p) /\ j - 0 < n + 1
        <4> SUFFICES ASSUME NEW j \in Mine(new, p), j < n + k
                     PROVE  j - 0 \in Mine(new, p) /\ j - 0 < n + 1
          OBVIOUS
        <4>1. j \in Nat /\ j - 0 = j /\ j # n + k
          BY <1>1, <2>4
        <4> QED BY <2>4, <4>1
      <3>3. n + 1 \in Int /\ n + k \in Int
        BY <1>1
      <3>4. Alike(new, new, p, n + k, n + 1, 0)
        BY <3>1, <3>2 DEF Alike
      <3> QED BY <1>2, <3>3, <3>4, ToldAlike
    <2>6. new[n + k].unchoke # Told(am, new, p, n + k)
      BY <1>9, <1>11, <2>2, <2>5
    <2>7. Told(am, new, p, n + m + 1) = unchoke
      <3>1. n + m + 1 \in Int /\ n + k < n + m + 1
        BY <1>1, <1>3
      <3> QED BY <1>2, <2>2, <2>4, <3>1, ToldLast
    <2>8. unchoke = (p \in open)
      BY <1>11
    <2> QED BY <1>1, <1>2, <1>8, <2>3, <2>6, <2>7, <2>8 DEF Reconciles, new
  <1> QED BY <1>10, <1>11

\* set_unchoked keeps the wire on the way to the policy's view: its command
\* for a peer says the opposite of what the queue before says last, and a peer
\* it leaves alone gets none.
LEMMA SetUnchokedReconciles ==
  ASSUME NEW s \in Slots, NEW P, P \subseteq Peers, NEW unchoke \in BOOLEAN,
         NEW am, NEW p \in Peers, Reconciles(am, s.pending, s.unchoked, p)
  PROVE  Reconciles(am, set_unchoked(s, P, unchoke).pending,
                    set_unchoked(s, P, unchoke).unchoked, p)
  <1>1. s.pending \in Seq(ChokeCmd)
    BY DEF Slots
  <1>2. /\ unchoke = TRUE => set_unchoked(s, P, unchoke).unchoked = s.unchoked \cup P
        /\ unchoke = FALSE => set_unchoked(s, P, unchoke).unchoked = s.unchoked \ P
        /\ set_unchoked(s, P, unchoke).pending = s.pending \o Commands(s, P, unchoke)
    <2>1. /\ set_unchoked(s, P, TRUE).unchoked = s.unchoked \cup P
          /\ set_unchoked(s, P, TRUE).pending = s.pending \o Commands(s, P, TRUE)
      BY SetUnchokedFields
    <2>2. /\ set_unchoked(s, P, FALSE).unchoked = s.unchoked \ P
          /\ set_unchoked(s, P, FALSE).pending = s.pending \o Commands(s, P, FALSE)
      BY SetUnchokedFields
    <2>3. CASE unchoke = TRUE
      BY <2>1, <2>3
    <2>4. CASE unchoke = FALSE
      BY <2>2, <2>4
    <2> QED BY <2>3, <2>4
  <1>3. /\ Commands(s, P, unchoke) \in Seq(ChokeCmd)
        /\ Len(Commands(s, P, unchoke)) = Cardinality(Changed(s, P, unchoke))
    BY CommandsList
  <1>4. \A i \in 1 .. Len(Commands(s, P, unchoke)) :
          /\ Commands(s, P, unchoke)[i].peer \in Changed(s, P, unchoke)
          /\ Commands(s, P, unchoke)[i].unchoke = unchoke
    BY <1>3, CommandsList
  <1>5. p \in Changed(s, P, unchoke) => OneFor(Commands(s, P, unchoke), p)
    BY CommandsList
  <1>6. p \in Changed(s, P, unchoke) <=> (p \in P /\ (p \in s.unchoked) # unchoke)
    BY DEF Changed
  <1> DEFINE open == set_unchoked(s, P, unchoke).unchoked
             cmds == Commands(s, P, unchoke)
             C    == Changed(s, P, unchoke)
  <1>7. /\ p \in C => (p \in s.unchoked) # unchoke /\ (p \in open) = unchoke
        /\ p \notin C => (p \in open) = (p \in s.unchoked)
    BY <1>2, <1>6
  <1> HIDE DEF open, cmds, C
  <1>8. Reconciles(am, s.pending \o cmds, open, p)
    BY <1>1, <1>3, <1>4, <1>5, <1>7, QueueReconciles DEF cmds, C
  <1> QED BY <1>2, <1>8 DEF open, cmds

-----------------------------------------------------------------------------
(* rechoke and rotate_optimistic.  Each keeps what a decision starts from.   *)

\* The promises about the slots, of slots that need not be the current ones.
SlotsInv(s) ==
  /\ s \in Slots
  /\ s.unchoked = s.rate_unchoked \cup ({s.optimistic} \ {NoPeer})
  /\ Cardinality(s.rate_unchoked) <= RateSlots
  /\ s.snubbed \cap s.rate_unchoked = {}
  /\ \A p \in Peers : Reconciles(am_unchoking, s.pending, s.unchoked, p)

\* The fields of the slots (state_type).
LEMMA SlotsFields ==
  ASSUME NEW s \in Slots
  PROVE  /\ s.unchoked \subseteq Peers /\ s.snubbed \subseteq Peers /\ s.rate_unchoked \subseteq Peers
         /\ s.optimistic \in Peers \cup {NoPeer} /\ s.pending \in Seq(ChokeCmd)
         /\ s.since_unchoked \in [Peers -> 0 .. SnubTime \cup {NoTime}]
  BY DEF Slots

\* Assigning one field leaves the others (the EXCEPTs of the module).
LEMMA SlotsAssign ==
  ASSUME NEW s \in Slots
  PROVE  /\ \A v \in SUBSET Peers :
              /\ [s EXCEPT !.snubbed = v] \in Slots
              /\ [s EXCEPT !.snubbed = v].snubbed = v
              /\ [s EXCEPT !.snubbed = v].unchoked = s.unchoked
              /\ [s EXCEPT !.snubbed = v].rate_unchoked = s.rate_unchoked
              /\ [s EXCEPT !.snubbed = v].optimistic = s.optimistic
              /\ [s EXCEPT !.snubbed = v].pending = s.pending
         /\ \A v \in SUBSET Peers :
              /\ [s EXCEPT !.rate_unchoked = v] \in Slots
              /\ [s EXCEPT !.rate_unchoked = v].snubbed = s.snubbed
              /\ [s EXCEPT !.rate_unchoked = v].unchoked = s.unchoked
              /\ [s EXCEPT !.rate_unchoked = v].rate_unchoked = v
              /\ [s EXCEPT !.rate_unchoked = v].optimistic = s.optimistic
              /\ [s EXCEPT !.rate_unchoked = v].pending = s.pending
         /\ \A v \in Peers \cup {NoPeer} :
              /\ [s EXCEPT !.optimistic = v] \in Slots
              /\ [s EXCEPT !.optimistic = v].snubbed = s.snubbed
              /\ [s EXCEPT !.optimistic = v].unchoked = s.unchoked
              /\ [s EXCEPT !.optimistic = v].rate_unchoked = s.rate_unchoked
              /\ [s EXCEPT !.optimistic = v].optimistic = v
              /\ [s EXCEPT !.optimistic = v].pending = s.pending
  BY DEF Slots

\* Marking the snubbed peers changes nothing else.
LEMMA WithSnubsFields ==
  ASSUME NEW s \in Slots, interested \subseteq Peers
  PROVE  /\ WithSnubs(s) \in Slots
         /\ WithSnubs(s).unchoked = s.unchoked
         /\ WithSnubs(s).rate_unchoked = s.rate_unchoked
         /\ WithSnubs(s).optimistic = s.optimistic
         /\ WithSnubs(s).pending = s.pending
  <1>1. CASE have_complete_file
    BY <1>1 DEF WithSnubs
  <1>2. CASE ~have_complete_file
    <2> DEFINE watched == interested \cap s.unchoked
               marks   == (s.snubbed \ watched) \cup {p \in watched : SilentFor(s, p) >= SnubTime}
    <2>1. marks \in SUBSET Peers
      BY SlotsFields
    <2>2. WithSnubs(s) = [s EXCEPT !.snubbed = marks]
      BY <1>2 DEF WithSnubs
    <2> HIDE DEF marks
    <2> QED BY <2>1, <2>2, SlotsAssign
  <1> QED BY <1>1, <1>2

\* A rechoke leaves the slots as promised, wherever the optimistic one is
\* (rechoke).
LEMMA RechokeInv ==
  ASSUME NEW s0, SlotsInv(s0), interested \subseteq Peers, \A p \in Peers : current_rate(p) \in Nat
  PROVE  SlotsInv(rechoke(s0))
  <1> DEFINE s   == WithSnubs(s0)
             new == Ranked(s)
             out == (s.rate_unchoked \ new) \ {s.optimistic}
             in  == new \ s.rate_unchoked
             s1  == set_unchoked(s, out, FALSE)
             s2  == set_unchoked(s1, in, TRUE)
             s3  == [s2 EXCEPT !.rate_unchoked = new]
  <1>1. /\ s \in Slots /\ s.unchoked = s0.unchoked /\ s.rate_unchoked = s0.rate_unchoked
        /\ s.optimistic = s0.optimistic /\ s.pending = s0.pending
    BY WithSnubsFields DEF SlotsInv
  <1>2. new \subseteq interested \ s.snubbed /\ Cardinality(new) <= RateSlots
    BY RankedFits
  <1>3. rechoke(s0) = s3
    BY DEF rechoke
  <1> HIDE DEF s, new
  <1>4. new \in SUBSET Peers /\ out \subseteq Peers /\ in \subseteq Peers
    BY <1>1, <1>2, SlotsFields
  <1>5. /\ s1 \in Slots /\ s1.unchoked = s.unchoked \ out /\ s1.snubbed = s.snubbed
        /\ s1.rate_unchoked = s.rate_unchoked /\ s1.optimistic = s.optimistic
    BY <1>1, <1>4, SetUnchokedFields
  <1>6. \A p \in Peers : Reconciles(am_unchoking, s1.pending, s1.unchoked, p)
    <2>1. \A p \in Peers : Reconciles(am_unchoking, s.pending, s.unchoked, p)
      BY <1>1 DEF SlotsInv
    <2> QED BY <1>1, <1>4, <2>1, SetUnchokedReconciles
  <1> HIDE DEF s1
  <1>7. /\ s2 \in Slots /\ s2.unchoked = s1.unchoked \cup in /\ s2.snubbed = s.snubbed
        /\ s2.optimistic = s.optimistic
    BY <1>4, <1>5, SetUnchokedFields
  <1>8. \A p \in Peers : Reconciles(am_unchoking, s2.pending, s2.unchoked, p)
    BY <1>4, <1>5, <1>6, SetUnchokedReconciles
  <1> HIDE DEF s2
  <1>9. /\ s3 \in Slots /\ s3.unchoked = s2.unchoked /\ s3.snubbed = s.snubbed
        /\ s3.rate_unchoked = new /\ s3.optimistic = s.optimistic /\ s3.pending = s2.pending
    BY <1>4, <1>7, SlotsAssign
  <1> HIDE DEF s3
  <1>10. s3.unchoked = s3.rate_unchoked \cup ({s3.optimistic} \ {NoPeer})
    <2>1. s.unchoked = s.rate_unchoked \cup ({s.optimistic} \ {NoPeer})
      BY <1>1 DEF SlotsInv
    <2> QED BY <1>5, <1>7, <1>9, <2>1
  <1>11. s3.snubbed \cap s3.rate_unchoked = {}
    BY <1>2, <1>9
  <1>12. \A p \in Peers : Reconciles(am_unchoking, s3.pending, s3.unchoked, p)
    BY <1>8, <1>9
  <1> QED BY <1>2, <1>3, <1>9, <1>10, <1>11, <1>12 DEF SlotsInv

\* The turn goes to a peer of the rotation (rotate_optimistic).
LEMMA NextOptimisticType ==
  ASSUME NEW s, rotation \in Seq(Peers), Eligible(s) # {}
  PROVE  NextOptimistic(s) \in Peers
  <1> DEFINE behind  == {i \in Eligible(s) : \E j \in Eligible(s) : j < i /\ rotation[j] = s.optimistic}
             choices == IF behind # {} THEN behind ELSE Eligible(s)
             first   == CHOOSE i \in choices : \A j \in choices : i <= j
  <1>1. Eligible(s) \subseteq DOMAIN rotation
    BY DEF Eligible
  <1>2. choices \subseteq DOMAIN rotation /\ choices # {}
    BY <1>1
  <1>3. choices \subseteq Nat
    BY <1>2
  <1>4. NextOptimistic(s) = rotation[first]
    BY DEF NextOptimistic
  <1> HIDE DEF choices
  <1>5. \E i \in choices : \A j \in choices : i <= j
    BY <1>2, <1>3, LeastElement
  <1>6. first \in DOMAIN rotation
    BY <1>2, <1>5
  <1> HIDE DEF first
  <1> QED BY <1>4, <1>6

\* So does a rotation, whether the peers before and after hold rate slots or
\* not (rotate_optimistic).
LEMMA RotateInv ==
  ASSUME NEW s, SlotsInv(s), rotation \in Seq(Peers)
  PROVE  SlotsInv(rotate_optimistic(s))
  <1> DEFINE next   == IF Eligible(s) = {} THEN NoPeer ELSE NextOptimistic(s)
             leaves == ({s.optimistic} \ {NoPeer, next}) \ s.rate_unchoked
             enters == ({next} \ {NoPeer}) \ s.rate_unchoked
             s1 == set_unchoked(s, leaves, FALSE)
             s2 == set_unchoked(s1, enters, TRUE)
             s3 == [s2 EXCEPT !.optimistic = next]
  <1>1. s \in Slots
    BY DEF SlotsInv
  <1>2. next \in Peers \cup {NoPeer}
    BY NextOptimisticType
  <1>3. rotate_optimistic(s) = s3
    BY DEF rotate_optimistic
  <1> HIDE DEF next
  <1>4. leaves \subseteq Peers /\ enters \subseteq Peers
    BY <1>1, <1>2, SlotsFields
  <1>5. /\ s1 \in Slots /\ s1.unchoked = s.unchoked \ leaves /\ s1.snubbed = s.snubbed
        /\ s1.rate_unchoked = s.rate_unchoked
    BY <1>1, <1>4, SetUnchokedFields
  <1>6. \A p \in Peers : Reconciles(am_unchoking, s1.pending, s1.unchoked, p)
    <2>1. \A p \in Peers : Reconciles(am_unchoking, s.pending, s.unchoked, p)
      BY DEF SlotsInv
    <2> QED BY <1>1, <1>4, <2>1, SetUnchokedReconciles
  <1> HIDE DEF s1
  <1>7. /\ s2 \in Slots /\ s2.unchoked = s1.unchoked \cup enters /\ s2.snubbed = s.snubbed
        /\ s2.rate_unchoked = s.rate_unchoked
    BY <1>4, <1>5, SetUnchokedFields
  <1>8. \A p \in Peers : Reconciles(am_unchoking, s2.pending, s2.unchoked, p)
    BY <1>4, <1>5, <1>6, SetUnchokedReconciles
  <1> HIDE DEF s2
  <1>9. /\ s3 \in Slots /\ s3.unchoked = s2.unchoked /\ s3.snubbed = s.snubbed
        /\ s3.rate_unchoked = s.rate_unchoked /\ s3.optimistic = next /\ s3.pending = s2.pending
    BY <1>2, <1>7, SlotsAssign
  <1> HIDE DEF s3
  <1>10. s3.unchoked = s3.rate_unchoked \cup ({s3.optimistic} \ {NoPeer})
    <2>1. s.unchoked = s.rate_unchoked \cup ({s.optimistic} \ {NoPeer})
      BY DEF SlotsInv
    <2> QED BY <1>5, <1>7, <1>9, <2>1
  <1>11. /\ s3.snubbed \cap s3.rate_unchoked = {} /\ Cardinality(s3.rate_unchoked) <= RateSlots
         /\ \A p \in Peers : Reconciles(am_unchoking, s3.pending, s3.unchoked, p)
    BY <1>8, <1>9 DEF SlotsInv
  <1> QED BY <1>3, <1>9, <1>10, <1>11 DEF SlotsInv

\* A command that leaves changes what the wire knows to what the queue without
\* it starts from (output, handle_choke_cmd).
LEMMA EmitReconciles ==
  ASSUME NEW queue \in Seq(ChokeCmd), queue # <<>>, NEW am, NEW am2, NEW unchoked, NEW p,
         Reconciles(am, queue, unchoked, p),
         p # queue[1].peer => (p \in am2) = (p \in am),
         p = queue[1].peer => (p \in am2) = queue[1].unchoke
  PROVE  Reconciles(am2, Tail(queue), unchoked, p)
  <1> DEFINE n    == Len(queue)
             rest == Tail(queue)
  <1>1. /\ n \in Nat /\ n > 0 /\ DOMAIN queue = 1 .. n /\ 1 \in DOMAIN queue
        /\ rest \in Seq(ChokeCmd) /\ Len(rest) = n - 1 /\ DOMAIN rest = 1 .. n - 1
        /\ \A i \in 1 .. n - 1 : rest[i] = queue[i + 1]
    OBVIOUS
  <1> HIDE DEF n, rest
  <1>2. ASSUME NEW j \in Mine(rest, p)
        PROVE  /\ j + 1 \in Mine(queue, p) /\ rest[j] = queue[j + 1] /\ j \in 1 .. n - 1
    <2>1. j \in 1 .. n - 1 /\ rest[j].peer = p
      BY <1>1 DEF Mine
    <2>2. j + 1 \in 1 .. n /\ rest[j] = queue[j + 1]
      BY <1>1, <2>1
    <2> QED BY <1>1, <2>1, <2>2 DEF Mine
  <1>3. ASSUME NEW j \in Mine(queue, p), j # 1
        PROVE  j - 1 \in Mine(rest, p) /\ j \in 2 .. n
    <2>1. j \in 2 .. n /\ queue[j].peer = p
      BY <1>1, <1>3 DEF Mine
    <2>2. j - 1 \in 1 .. n - 1 /\ rest[j - 1] = queue[(j - 1) + 1] /\ (j - 1) + 1 = j
      BY <1>1, <2>1
    <2> QED BY <1>1, <2>1, <2>2 DEF Mine
  <1>4. ASSUME NEW i \in 1 .. n
        PROVE  Told(am2, rest, p, i) = Told(am, queue, p, i + 1)
    <2>1. i \in Int /\ i + 1 \in Int /\ i >= 1
      OBVIOUS
    <2>2. CASE \E j \in Mine(rest, p) : j < i
      <3>1. PICK j \in Mine(rest, p) : j < i /\ \A k \in Mine(rest, p) : k < i => k <= j
        BY <1>1, <2>1, <2>2, LastExists
      <3>2. Told(am2, rest, p, i) = rest[j].unchoke
        BY <1>1, <2>1, <3>1, ToldLast
      <3>3. j + 1 \in Mine(queue, p) /\ rest[j] = queue[j + 1] /\ j \in 1 .. n - 1 /\ j + 1 < i + 1
        BY <1>2, <2>1, <3>1
      <3>4. ASSUME NEW k \in Mine(queue, p), k < i + 1 PROVE k <= j + 1
        <4>1. CASE k = 1
          BY <3>3, <4>1
        <4>2. CASE k # 1
          <5>1. k - 1 \in Mine(rest, p) /\ k \in 2 .. n
            BY <1>3, <4>2
          <5>2. k - 1 < i
            BY <2>1, <3>4, <5>1
          <5>3. k - 1 <= j
            BY <3>1, <5>1, <5>2
          <5> QED BY <3>3, <5>1, <5>3
        <4> QED BY <4>1, <4>2
      <3>5. Told(am, queue, p, i + 1) = queue[j + 1].unchoke
        BY <2>1, <3>3, <3>4, ToldLast
      <3> QED BY <3>2, <3>3, <3>5
    <2>3. CASE \A j \in Mine(rest, p) : ~(j < i)
      <3>1. Told(am2, rest, p, i) = (p \in am2)
        BY <2>3, ToldNone
      <3>2. ASSUME NEW k \in Mine(queue, p), k < i + 1 PROVE k = 1
        <4>1. SUFFICES ASSUME k # 1 PROVE FALSE
          OBVIOUS
        <4>2. k - 1 \in Mine(rest, p) /\ k \in 2 .. n
          BY <1>3, <4>1
        <4>3. k - 1 < i
          BY <2>1, <3>2, <4>2
        <4> QED BY <2>3, <4>2, <4>3
      <3>3. CASE p = queue[1].peer
        <4>1. 1 \in Mine(queue, p) /\ 1 < i + 1
          BY <1>1, <2>1, <3>3 DEF Mine
        <4>2. \A k \in Mine(queue, p) : k < i + 1 => k <= 1
          BY <3>2
        <4>3. Told(am, queue, p, i + 1) = queue[1].unchoke
          BY <2>1, <4>1, <4>2, ToldLast
        <4> QED BY <3>1, <3>3, <4>3
      <3>4. CASE p # queue[1].peer
        <4>1. 1 \notin Mine(queue, p)
          BY <3>4 DEF Mine
        <4>2. \A k \in Mine(queue, p) : ~(k < i + 1)
          BY <3>2, <4>1
        <4>3. Told(am, queue, p, i + 1) = (p \in am)
          BY <4>2, ToldNone
        <4> QED BY <3>1, <3>4, <4>3
      <3> QED BY <3>3, <3>4
    <2> QED BY <2>2, <2>3
  <1>5. \A i \in Mine(rest, p) : rest[i].unchoke # Told(am2, rest, p, i)
    <2> SUFFICES ASSUME NEW i \in Mine(rest, p)
                 PROVE  rest[i].unchoke # Told(am2, rest, p, i)
      OBVIOUS
    <2>1. i + 1 \in Mine(queue, p) /\ rest[i] = queue[i + 1] /\ i \in 1 .. n - 1 /\ i \in 1 .. n
      BY <1>1, <1>2
    <2>2. queue[i + 1].unchoke # Told(am, queue, p, i + 1)
      BY <2>1 DEF Reconciles
    <2> QED BY <1>4, <2>1, <2>2
  <1>6. Told(am2, rest, p, Len(rest) + 1) = (p \in unchoked)
    <2>1. Len(rest) + 1 = n /\ n \in 1 .. n
      BY <1>1
    <2>2. Told(am, queue, p, n + 1) = (p \in unchoked)
      BY DEF Reconciles, n
    <2> QED BY <1>4, <2>1, <2>2
  <1> QED BY <1>5, <1>6 DEF Reconciles, rest

-----------------------------------------------------------------------------
(* The invariant                                                             *)

\* The samples of a peer are kept oldest first, so those out of the window are
\* in front (rate_samples).
OldestFirst ==
  \A p \in Peers : \A i, j \in DOMAIN rate_samples[p] :
    i <= j => rate_samples[p][i] >= rate_samples[p][j]

IInv == TypeOK /\ OldestFirst /\ SlotsInv(slots)

\* Facts about the types that several steps use.
LEMMA TypeFacts ==
  ASSUME TypeOK
  PROVE  /\ Known \subseteq Peers /\ interested \subseteq Peers
         /\ \A p \in Peers : rate_samples[p] \in Seq(0 .. RateWindow) /\ current_rate(p) \in Nat
  <1>1. \A i \in DOMAIN rotation : rotation[i] \in Peers
    BY DEF TypeOK
  <1>2. Known \subseteq Peers
    BY <1>1 DEF Known
  <1>3. \A p \in Peers : rate_samples[p] \in Seq(0 .. RateWindow)
    BY DEF TypeOK
  <1>4. \A p \in Peers : current_rate(p) \in Nat
    BY <1>3 DEF current_rate
  <1> QED BY <1>2, <1>3, <1>4 DEF TypeOK

\* The initial state is in the invariant.
LEMMA InitInv == Init => IInv
  <1> SUFFICES ASSUME Init PROVE IInv
    OBVIOUS
  <1>1. slots \in Slots
    BY DEF Init, Slots
  <1>2. TypeOK
    <2>1. /\ 0 \in Nat /\ RechokePeriod \in 0 .. RechokePeriod
          /\ OptimisticPeriod \in 0 .. OptimisticPeriod
      BY TimesAssumption
    <2>2. rate_samples \in [Peers -> Seq(0 .. RateWindow)] /\ rotation \in Seq(Peers)
      BY DEF Init
    <2>3. have_complete_file \in BOOLEAN
      BY PiecesAssumption DEF Init
    <2> QED BY <1>1, <2>1, <2>2, <2>3 DEF Init, TypeOK
  <1>3. OldestFirst
    BY DEF Init, OldestFirst
  <1>4. ASSUME NEW p \in Peers
        PROVE  Reconciles(am_unchoking, slots.pending, slots.unchoked, p)
    <2>1. slots.pending = <<>> /\ slots.unchoked = {} /\ am_unchoking = {}
      BY DEF Init
    <2>2. Mine(slots.pending, p) = {}
      BY <2>1 DEF Mine
    <2>3. Told(am_unchoking, slots.pending, p, Len(slots.pending) + 1) = (p \in am_unchoking)
      BY <2>2, ToldNone
    <2> QED BY <2>1, <2>2, <2>3 DEF Reconciles
  <1>5. SlotsInv(slots)
    <2>1. /\ slots.unchoked = {} /\ slots.rate_unchoked = {} /\ slots.snubbed = {}
          /\ slots.optimistic = NoPeer
      BY DEF Init
    <2>2. Cardinality(slots.rate_unchoked) <= RateSlots
      BY <2>1, FS_EmptySet, SlotsAssumption
    <2> QED BY <1>1, <1>4, <2>1, <2>2 DEF SlotsInv
  <1> QED BY <1>2, <1>3, <1>5 DEF IInv

\* A peer that is new goes to the front of the rotation (ensure_peer).
LEMMA EnsurePeerType ==
  ASSUME TypeOK, NEW peer \in Peers, ensure_peer(peer)
  PROVE  rotation' \in Seq(Peers) /\ Known \subseteq Known' /\ peer \in Known'
  <1>1. CASE peer \in Known
    BY <1>1 DEF ensure_peer, TypeOK, Known
  <1>2. CASE peer \notin Known
    <2>1. rotation \in Seq(Peers) /\ rotation' = <<peer>> \o rotation
      BY <1>2 DEF ensure_peer, TypeOK
    <2>2. <<peer>> \in Seq(Peers) /\ Len(<<peer>>) = 1 /\ <<peer>>[1] = peer
      OBVIOUS
    <2>3. /\ rotation' \in Seq(Peers) /\ Len(rotation) \in Nat
          /\ DOMAIN rotation = 1 .. Len(rotation) /\ DOMAIN rotation' = 1 .. Len(rotation) + 1
          /\ rotation'[1] = peer /\ \A i \in 1 .. Len(rotation) : rotation'[i + 1] = rotation[i]
      BY <2>1, <2>2
    <2>4. 1 \in DOMAIN rotation' /\ \A i \in DOMAIN rotation : i + 1 \in DOMAIN rotation'
      BY <2>3
    <2>5. peer \in Known'
      BY <2>3, <2>4 DEF Known
    <2>6. Known \subseteq Known'
      <3> SUFFICES ASSUME NEW i \in DOMAIN rotation PROVE rotation[i] \in Known'
        BY DEF Known
      <3> QED BY <2>3, <2>4 DEF Known
    <2> QED BY <2>3, <2>5, <2>6
  <1> QED BY <1>1, <1>2

\* A new sample is the youngest.
LEMMA AddSampleInv ==
  ASSUME TypeOK, OldestFirst, NEW peer \in Peers, AddSample(peer)
  PROVE  rate_samples' \in [Peers -> Seq(0 .. RateWindow)] /\ OldestFirst'
  <1>1. /\ rate_samples \in [Peers -> Seq(0 .. RateWindow)]
        /\ rate_samples' = [rate_samples EXCEPT ![peer] = Append(@, 0)]
    BY DEF TypeOK, AddSample
  <1>2. 0 \in 0 .. RateWindow /\ RateWindow \in Nat
    BY TimesAssumption
  <1>3. Append(rate_samples[peer], 0) \in Seq(0 .. RateWindow)
    BY <1>1, <1>2
  <1>4. rate_samples' \in [Peers -> Seq(0 .. RateWindow)]
    BY <1>1, <1>3
  <1>5. ASSUME NEW p \in Peers, NEW i \in DOMAIN rate_samples'[p], NEW j \in DOMAIN rate_samples'[p],
               i <= j
        PROVE  rate_samples'[p][i] >= rate_samples'[p][j]
    <2>1. CASE p # peer
      BY <1>1, <1>5, <2>1 DEF OldestFirst
    <2>2. CASE p = peer
      <3> DEFINE old == rate_samples[peer]
      <3>1. old \in Seq(0 .. RateWindow) /\ rate_samples'[p] = Append(old, 0)
        BY <1>1, <2>2
      <3>2. \A k, l \in DOMAIN old : k <= l => old[k] >= old[l]
        BY DEF OldestFirst
      <3> HIDE DEF old
      <3>3. /\ Len(old) \in Nat /\ DOMAIN old = 1 .. Len(old)
            /\ DOMAIN rate_samples'[p] = 1 .. Len(old) + 1
            /\ \A k \in 1 .. Len(old) : rate_samples'[p][k] = old[k] /\ old[k] \in 0 .. RateWindow
            /\ rate_samples'[p][Len(old) + 1] = 0
        <4>1. Len(old) \in Nat /\ DOMAIN old = 1 .. Len(old)
          BY <3>1
        <4>2. ASSUME NEW k \in 1 .. Len(old) PROVE old[k] \in 0 .. RateWindow
          BY <3>1, SequenceElement
        <4>3. /\ DOMAIN Append(old, 0) = 1 .. Len(old) + 1
              /\ \A k \in 1 .. Len(old) : Append(old, 0)[k] = old[k]
              /\ Append(old, 0)[Len(old) + 1] = 0
          BY <1>2, <3>1
        <4> QED BY <3>1, <4>1, <4>3, <4>2
      <3>4. CASE j = Len(old) + 1
        BY <1>2, <3>3, <3>4
      <3>5. CASE j # Len(old) + 1
        <4>1. i \in 1 .. Len(old) /\ j \in 1 .. Len(old)
          BY <1>5, <3>3, <3>5
        <4> QED BY <1>5, <3>2, <3>3, <4>1
      <3> QED BY <3>4, <3>5
    <2> QED BY <2>1, <2>2
  <1> QED BY <1>4, <1>5 DEF OldestFirst

\* What an interest observed leaves alone is all the invariant is about but the
\* interest and the rotation (peer_interested, peer_not_interested).
LEMMA InterestInv ==
  ASSUME IInv, NEW peer \in Peers, NEW b \in BOOLEAN, ObsPeerInterest(peer, b)
  PROVE  IInv'
  <1>1. /\ ensure_peer(peer)
        /\ UNCHANGED <<since_data, rate_samples, completed_pieces, have_complete_file, slots,
                       rechoke_rem, optimistic_rem, am_unchoking>>
        /\ interested' \subseteq interested \cup {peer}
    BY DEF ObsPeerInterest
  <1>2. rotation' \in Seq(Peers) /\ interested' \subseteq Known'
    BY <1>1, EnsurePeerType DEF IInv, TypeOK
  <1>3. TypeOK'
    BY <1>1, <1>2 DEF IInv, TypeOK
  <1>4. OldestFirst'
    BY <1>1 DEF IInv, OldestFirst
  <1>5. SlotsInv(slots)'
    BY <1>1 DEF IInv, SlotsInv
  <1> QED BY <1>3, <1>4, <1>5 DEF IInv

\* A sub-piece that arrives adds a sample and takes a snub mark away, or all of
\* them when it completes the file (completion).
LEMMA CompletionInv ==
  ASSUME IInv, NEW peer \in Peers, NEW full \in SUBSET Pieces, ObsCompletion(peer, full)
  PROVE  IInv'
  <1> DEFINE completes == full # {} /\ completed_pieces \cup full = Pieces
             marks     == IF completes THEN {} ELSE slots.snubbed \ {peer}
  <1>1. /\ ensure_peer(peer)
        /\ since_data' = [since_data EXCEPT ![peer] = 0]
        /\ completed_pieces' = completed_pieces \cup full
        /\ have_complete_file' = (have_complete_file \/ completes)
        /\ slots' = [slots EXCEPT !.snubbed = marks]
        /\ UNCHANGED <<interested, rechoke_rem, optimistic_rem, am_unchoking>>
    BY DEF ObsCompletion
  <1>2. slots \in Slots /\ marks \subseteq slots.snubbed /\ marks \in SUBSET Peers
    BY SlotsFields DEF IInv, SlotsInv
  <1> HIDE DEF marks
  <1>3. /\ slots' \in Slots /\ slots'.snubbed = marks /\ slots'.unchoked = slots.unchoked
        /\ slots'.rate_unchoked = slots.rate_unchoked /\ slots'.optimistic = slots.optimistic
        /\ slots'.pending = slots.pending
    BY <1>1, <1>2, SlotsAssign
  <1>4. SlotsInv(slots)'
    BY <1>1, <1>2, <1>3 DEF IInv, SlotsInv
  <1>5. rate_samples' \in [Peers -> Seq(0 .. RateWindow)] /\ OldestFirst'
    <2>1. CASE have_complete_file
      BY <2>1 DEF ObsCompletion, IInv, TypeOK, OldestFirst
    <2>2. CASE ~have_complete_file
      BY <2>2, AddSampleInv DEF ObsCompletion, IInv
    <2> QED BY <2>1, <2>2
  <1>6. rotation' \in Seq(Peers) /\ interested' \subseteq Known'
    BY <1>1, EnsurePeerType DEF IInv, TypeOK
  <1>7. since_data' \in [Peers -> 0 .. SnubTime \cup {NoTime}]
    <2>1. 0 \in 0 .. SnubTime
      BY TimesAssumption
    <2> QED BY <1>1, <2>1 DEF IInv, TypeOK
  <1>8. completed_pieces' \subseteq Pieces /\ have_complete_file' \in BOOLEAN
    BY <1>1 DEF IInv, TypeOK
  <1>9. TypeOK'
    BY <1>1, <1>3, <1>5, <1>6, <1>7, <1>8 DEF IInv, TypeOK
  <1> QED BY <1>4, <1>5, <1>9 DEF IInv

\* A sub-piece sent adds a sample once the file is complete (upload).
LEMMA UploadInv ==
  ASSUME IInv, NEW peer \in Peers, ObsUpload(peer)
  PROVE  IInv'
  <1>1. /\ ensure_peer(peer)
        /\ UNCHANGED <<interested, since_data, completed_pieces, have_complete_file, slots,
                       rechoke_rem, optimistic_rem, am_unchoking>>
    BY DEF ObsUpload
  <1>2. rate_samples' \in [Peers -> Seq(0 .. RateWindow)] /\ OldestFirst'
    <2>1. CASE have_complete_file
      BY <2>1, AddSampleInv DEF ObsUpload, IInv
    <2>2. CASE ~have_complete_file
      BY <2>2 DEF ObsUpload, IInv, TypeOK, OldestFirst
    <2> QED BY <2>1, <2>2
  <1>3. rotation' \in Seq(Peers) /\ interested' \subseteq Known'
    BY <1>1, EnsurePeerType DEF IInv, TypeOK
  <1>4. TypeOK'
    BY <1>1, <1>2, <1>3 DEF IInv, TypeOK
  <1>5. SlotsInv(slots)'
    BY <1>1 DEF IInv, SlotsInv
  <1> QED BY <1>2, <1>4, <1>5 DEF IInv

\* A command leaves the queue and reaches the wire (output).
LEMMA EmitInv ==
  ASSUME IInv, EmitCommand
  PROVE  IInv'
  <1> DEFINE cmd == Head(slots.pending)
  <1>1. /\ slots.pending # <<>>
        /\ slots' = [slots EXCEPT !.pending = Tail(slots.pending)]
        /\ am_unchoking' = IF cmd.unchoke THEN am_unchoking \cup {cmd.peer}
                                          ELSE am_unchoking \ {cmd.peer}
        /\ UNCHANGED <<interested, since_data, rate_samples, rotation, completed_pieces,
                       have_complete_file, rechoke_rem, optimistic_rem>>
    BY DEF EmitCommand
  <1>2. slots \in Slots /\ slots.pending \in Seq(ChokeCmd)
    BY SlotsFields DEF IInv, SlotsInv
  <1>3. Tail(slots.pending) \in Seq(ChokeCmd) /\ cmd = slots.pending[1]
        /\ 1 \in DOMAIN slots.pending
    BY <1>1, <1>2
  <1>4. cmd.peer \in Peers /\ cmd.unchoke \in BOOLEAN
    BY <1>2, <1>3, CommandFields
  <1>5. /\ slots' \in Slots /\ slots'.pending = Tail(slots.pending)
        /\ slots'.unchoked = slots.unchoked /\ slots'.snubbed = slots.snubbed
        /\ slots'.rate_unchoked = slots.rate_unchoked /\ slots'.optimistic = slots.optimistic
    BY <1>1, <1>2, <1>3 DEF Slots
  <1>6. TypeOK'
    <2>1. am_unchoking' \subseteq Peers
      BY <1>1, <1>4 DEF IInv, TypeOK
    <2> QED BY <1>1, <1>5, <2>1 DEF IInv, TypeOK, Known
  <1>7. OldestFirst'
    BY <1>1 DEF IInv, OldestFirst
  <1>8. ASSUME NEW p \in Peers
        PROVE  Reconciles(am_unchoking', Tail(slots.pending), slots.unchoked, p)
    <2>1. Reconciles(am_unchoking, slots.pending, slots.unchoked, p)
      BY DEF IInv, SlotsInv
    <2>2. /\ p # slots.pending[1].peer => (p \in am_unchoking') = (p \in am_unchoking)
          /\ p = slots.pending[1].peer => (p \in am_unchoking') = slots.pending[1].unchoke
      BY <1>1, <1>3, <1>4
    <2> QED BY <1>1, <1>2, <2>1, <2>2, EmitReconciles
  <1>9. SlotsInv(slots)'
    BY <1>5, <1>8 DEF IInv, SlotsInv
  <1> QED BY <1>6, <1>7, <1>9 DEF IInv

\* Timers due give the slots anew (internal_transition).
LEMMA TimerInv ==
  ASSUME IInv, TimerDue
  PROVE  IInv'
  <1> DEFINE s == IF rechoke_rem = 0 THEN rechoke(slots) ELSE slots
  <1>1. /\ slots' = IF optimistic_rem = 0 THEN rotate_optimistic(s) ELSE s
        /\ rechoke_rem' = IF rechoke_rem = 0 THEN RechokePeriod ELSE rechoke_rem
        /\ optimistic_rem' = IF optimistic_rem = 0 THEN OptimisticPeriod ELSE optimistic_rem
        /\ UNCHANGED <<interested, since_data, rate_samples, rotation, completed_pieces,
                       have_complete_file, am_unchoking>>
    BY DEF TimerDue
  <1>2. SlotsInv(s)
    BY RechokeInv, TypeFacts DEF IInv
  <1> HIDE DEF s
  <1>3. SlotsInv(slots')
    BY <1>1, <1>2, RotateInv DEF IInv, TypeOK
  <1>4. SlotsInv(slots)' /\ slots' \in Slots
    BY <1>1, <1>3 DEF SlotsInv
  <1>5. rechoke_rem' \in 0 .. RechokePeriod /\ optimistic_rem' \in 0 .. OptimisticPeriod
    BY <1>1, TimesAssumption DEF IInv, TypeOK
  <1>6. TypeOK'
    BY <1>1, <1>4, <1>5 DEF IInv, TypeOK, Known
  <1>7. OldestFirst'
    BY <1>1 DEF IInv, OldestFirst
  <1> QED BY <1>4, <1>6, <1>7 DEF IInv

\* A tick more on an age stays within what is told apart (Older).
LEMMA OlderType ==
  ASSUME NEW a \in 0 .. SnubTime \cup {NoTime}
  PROVE  Older(a, SnubTime) \in 0 .. SnubTime \cup {NoTime}
  BY TimesAssumption DEF Older

\* The samples out of the window are dropped from the front and the others are
\* a tick older (current_rate).
LEMMA AgedSamplesInv ==
  ASSUME NEW ages \in Seq(0 .. RateWindow),
         \A i, j \in DOMAIN ages : i <= j => ages[i] >= ages[j]
  PROVE  /\ AgedSamples(ages) \in Seq(0 .. RateWindow)
         /\ \A i, j \in DOMAIN AgedSamples(ages) :
              i <= j => AgedSamples(ages)[i] >= AgedSamples(ages)[j]
  <1> DEFINE old     == {i \in DOMAIN ages : ages[i] >= RateWindow}
             expired == Cardinality(old)
             n       == Len(ages)
             aged    == [i \in 1 .. n - expired |-> ages[expired + i] + 1]
  <1>1. n \in Nat /\ DOMAIN ages = 1 .. n /\ RateWindow \in Nat
    BY TimesAssumption
  <1>2. \A i \in 1 .. n : ages[i] \in 0 .. RateWindow
    BY <1>1
  <1>3. IsFiniteSet(old) /\ expired \in Nat /\ expired <= n
    <2>1. old \in SUBSET (1 .. n)
      BY <1>1
    <2> HIDE DEF old, n
    <2>2. 1 \in Int /\ n \in Int /\ (IF 1 > n THEN 0 ELSE n - 1 + 1) = n
      BY <1>1
    <2>3. IsFiniteSet(1 .. n) /\ Cardinality(1 .. n) = n
      BY <2>2, FS_Interval
    <2>4. IsFiniteSet(old) /\ Cardinality(old) <= n
      BY <2>3, <2>1, FS_Subset
    <2> QED BY <2>4, FS_CardinalityType
  <1>4. ASSUME NEW k \in 1 .. n, k > expired
        PROVE  ages[k] < RateWindow
    <2>1. SUFFICES ASSUME ages[k] >= RateWindow PROVE FALSE
      BY <1>1, <1>2
    <2>2. \A i \in 1 .. k : i \in old
      <3> SUFFICES ASSUME NEW i \in 1 .. k PROVE i \in old
        OBVIOUS
      <3>1. i \in DOMAIN ages /\ i <= k /\ k \in DOMAIN ages
        BY <1>1
      <3>2. ages[i] >= ages[k]
        BY <3>1
      <3>3. ages[i] \in Nat /\ ages[k] \in Nat
        BY <1>1, <1>2, <3>1
      <3> QED BY <1>1, <2>1, <3>1, <3>2, <3>3
    <2>3. IsFiniteSet(1 .. k) /\ Cardinality(1 .. k) = k
      BY <1>1, FS_Interval
    <2>4. (1 .. k) \in SUBSET old
      BY <2>2
    <2> HIDE DEF old
    <2>5. Cardinality(1 .. k) <= Cardinality(old)
      BY <1>3, <2>4, FS_Subset
    <2> QED BY <1>1, <1>3, <1>4, <2>3, <2>5
  <1>5. AgedSamples(ages) = aged
    BY DEF AgedSamples
  <1> HIDE DEF old, expired, n
  <1>6. ASSUME NEW i \in 1 .. n - expired
        PROVE  /\ expired + i \in DOMAIN ages
               /\ aged[i] = ages[expired + i] + 1
               /\ ages[expired + i] \in Nat /\ aged[i] \in 0 .. RateWindow
    <2>1. expired + i \in 1 .. n /\ expired + i > expired
      BY <1>1, <1>3
    <2>2. ages[expired + i] < RateWindow /\ ages[expired + i] \in 0 .. RateWindow
      BY <1>2, <1>4, <2>1
    <2> QED BY <1>1, <2>1, <2>2
  <1>7. n - expired \in Nat /\ DOMAIN aged = 1 .. n - expired
    BY <1>1, <1>3
  <1>8. aged \in Seq(0 .. RateWindow)
    <2>1. aged = [i \in 1 .. n - expired |-> aged[i]]
      OBVIOUS
    <2> HIDE DEF aged
    <2>2. \A i \in 1 .. n - expired : aged[i] \in 0 .. RateWindow
      BY <1>6
    <2>3. aged \in [1 .. n - expired -> 0 .. RateWindow]
      BY <2>1, <2>2
    <2> QED BY <1>7, <2>3, SequenceOfFunction
  <1>9. ASSUME NEW i \in 1 .. n - expired, NEW j \in 1 .. n - expired, i <= j
        PROVE  aged[i] >= aged[j]
    <2>1. expired + i <= expired + j
      BY <1>1, <1>3, <1>9
    <2>2. ages[expired + i] >= ages[expired + j]
      BY <1>6, <2>1
    <2> QED BY <1>6, <2>2
  <1> QED BY <1>5, <1>7, <1>8, <1>9

\* A tick ages everything (time_advance).
LEMMA ElapseInv ==
  ASSUME IInv, Elapse
  PROVE  IInv'
  <1> DEFINE since == [p \in Peers |-> Older(slots.since_unchoked[p], SnubTime)]
  <1>1. /\ rechoke_rem > 0 /\ rechoke_rem' = rechoke_rem - 1
        /\ optimistic_rem > 0 /\ optimistic_rem' = optimistic_rem - 1
        /\ since_data' = [p \in Peers |-> Older(since_data[p], SnubTime)]
        /\ rate_samples' = [p \in Peers |-> AgedSamples(rate_samples[p])]
        /\ slots' = [slots EXCEPT !.since_unchoked = since]
        /\ UNCHANGED <<interested, rotation, completed_pieces, have_complete_file, am_unchoking>>
    BY DEF Elapse
  <1>2. slots \in Slots
    BY DEF IInv, SlotsInv
  <1>3. since \in [Peers -> 0 .. SnubTime \cup {NoTime}]
    BY <1>2, SlotsFields, OlderType
  <1> HIDE DEF since
  <1>4. /\ slots' \in Slots /\ slots'.pending = slots.pending
        /\ slots'.unchoked = slots.unchoked /\ slots'.snubbed = slots.snubbed
        /\ slots'.rate_unchoked = slots.rate_unchoked /\ slots'.optimistic = slots.optimistic
    BY <1>1, <1>2, <1>3 DEF Slots
  <1>5. ASSUME NEW p \in Peers
        PROVE  /\ AgedSamples(rate_samples[p]) \in Seq(0 .. RateWindow)
               /\ \A i, j \in DOMAIN AgedSamples(rate_samples[p]) :
                    i <= j => AgedSamples(rate_samples[p])[i] >= AgedSamples(rate_samples[p])[j]
    <2>1. rate_samples[p] \in Seq(0 .. RateWindow)
      BY TypeFacts DEF IInv
    <2>2. \A i, j \in DOMAIN rate_samples[p] : i <= j => rate_samples[p][i] >= rate_samples[p][j]
      BY DEF IInv, OldestFirst
    <2> QED BY <2>1, <2>2, AgedSamplesInv
  <1>6. rate_samples' \in [Peers -> Seq(0 .. RateWindow)]
    BY <1>1, <1>5
  <1>7. OldestFirst'
    BY <1>1, <1>5 DEF OldestFirst
  <1>8. since_data' \in [Peers -> 0 .. SnubTime \cup {NoTime}]
    BY <1>1, OlderType DEF IInv, TypeOK
  <1>9. rechoke_rem' \in 0 .. RechokePeriod /\ optimistic_rem' \in 0 .. OptimisticPeriod
    BY <1>1, TimesAssumption DEF IInv, TypeOK
  <1>10. TypeOK'
    BY <1>1, <1>4, <1>6, <1>8, <1>9 DEF IInv, TypeOK, Known
  <1>11. SlotsInv(slots)'
    BY <1>1, <1>4 DEF IInv, SlotsInv
  <1> QED BY <1>7, <1>10, <1>11 DEF IInv

\* Every step of the policy keeps the invariant.
LEMMA StepInv == IInv /\ [Next]_vars => IInv'
  <1> SUFFICES ASSUME IInv, [Next]_vars PROVE IInv'
    OBVIOUS
  <1>1. CASE \E peer \in Peers : Observe(peer)
    <2> PICK peer \in Peers : Observe(peer)
      BY <1>1
    <2>1. CASE \E b \in BOOLEAN : ObsPeerInterest(peer, b)
      BY <2>1, InterestInv
    <2>2. CASE \E full \in {{}} \cup {{piece} : piece \in Pieces} : ObsCompletion(peer, full)
      <3> PICK full \in {{}} \cup {{piece} : piece \in Pieces} : ObsCompletion(peer, full)
        BY <2>2
      <3>1. full \in SUBSET Pieces
        OBVIOUS
      <3> QED BY <3>1, CompletionInv
    <2>3. CASE ObsUpload(peer)
      BY <2>3, UploadInv
    <2> QED BY <2>1, <2>2, <2>3 DEF Observe
  <1>2. CASE Internal
    BY <1>2, EmitInv, TimerInv DEF Internal
  <1>3. CASE Elapse
    BY <1>3, ElapseInv
  <1>4. CASE UNCHANGED vars
    BY <1>4 DEF vars, IInv, TypeOK, Known, OldestFirst, SlotsInv
  <1> QED BY <1>1, <1>2, <1>3, <1>4 DEF Next

\* The invariant holds in every reachable state.
THEOREM Invariance == Spec => []IInv
  BY InitInv, StepInv, PTL DEF Spec

\* The variables of the policy always hold values of their types (state_type).
THEOREM TypeCorrect == Spec => []TypeOK
  BY Invariance, PTL DEF IInv

\* Who is unchoked is who holds a slot, and at most RateSlots + 1 peers do
\* (rechoke, rotate_optimistic).
THEOREM UnchokedHoldSlots == Spec => []UnchokedIsSlots
  <1>1. IInv => UnchokedIsSlots
    BY DEF IInv, SlotsInv, UnchokedIsSlots
  <1> QED BY <1>1, Invariance, PTL

\* A snubbed peer holds no rate slot, at any time between two rechokes.
THEOREM SnubbedLoseSlots == Spec => []SnubbedNotRanked
  <1>1. IInv => SnubbedNotRanked
    BY DEF IInv, SlotsInv, SnubbedNotRanked
  <1> QED BY <1>1, Invariance, PTL

\* Whatever queue of commands builds up, carrying it out brings peer_wire to
\* the policy's view, one effective change at a time (handle_choke_cmd).
THEOREM CommandsBringTheView == Spec => []CommandsReconcile
  <1>1. IInv => CommandsReconcile
    BY ReconcilesEach DEF IInv, SlotsInv
  <1> QED BY <1>1, Invariance, PTL

-----------------------------------------------------------------------------
(* The snub marks                                                            *)

\* A rechoke gives the slots on the marks it has just set (rechoke).
LEMMA RechokeMarks ==
  ASSUME IInv
  PROVE  rechoke(slots) \in Slots /\ rechoke(slots).snubbed = WithSnubs(slots).snubbed
  <1> DEFINE s   == WithSnubs(slots)
             new == Ranked(s)
             out == (s.rate_unchoked \ new) \ {s.optimistic}
             in  == new \ s.rate_unchoked
             s1  == set_unchoked(s, out, FALSE)
             s2  == set_unchoked(s1, in, TRUE)
  <1>1. interested \subseteq Peers /\ slots \in Slots /\ \A p \in Peers : current_rate(p) \in Nat
    BY TypeFacts DEF IInv, TypeOK
  <1>2. s \in Slots
    BY <1>1, WithSnubsFields
  <1>3. rechoke(slots) = [s2 EXCEPT !.rate_unchoked = new] /\ new \subseteq interested
    BY <1>1, RankedFits DEF rechoke
  <1> HIDE DEF s, new
  <1>4. new \in SUBSET Peers /\ out \subseteq Peers /\ in \subseteq Peers
    BY <1>1, <1>2, <1>3, SlotsFields
  <1>5. s1 \in Slots /\ s1.snubbed = s.snubbed
    BY <1>2, <1>4, SetUnchokedFields
  <1> HIDE DEF s1
  <1>6. s2 \in Slots /\ s2.snubbed = s.snubbed
    BY <1>4, <1>5, SetUnchokedFields
  <1> HIDE DEF s2
  <1> QED BY <1>3, <1>4, <1>6, SlotsAssign DEF s

\* A rotation leaves the marks alone (rotate_optimistic).
LEMMA RotateMarks ==
  ASSUME NEW s \in Slots, rotation \in Seq(Peers)
  PROVE  rotate_optimistic(s).snubbed = s.snubbed
  <1> DEFINE next   == IF Eligible(s) = {} THEN NoPeer ELSE NextOptimistic(s)
             leaves == ({s.optimistic} \ {NoPeer, next}) \ s.rate_unchoked
             enters == ({next} \ {NoPeer}) \ s.rate_unchoked
             s1     == set_unchoked(s, leaves, FALSE)
             s2     == set_unchoked(s1, enters, TRUE)
  <1>1. rotate_optimistic(s) = [s2 EXCEPT !.optimistic = next]
    BY DEF rotate_optimistic
  <1>2. next \in Peers \cup {NoPeer}
    BY NextOptimisticType
  <1> HIDE DEF next
  <1>3. leaves \subseteq Peers /\ enters \subseteq Peers
    BY <1>2, SlotsFields
  <1>4. s1 \in Slots /\ s1.snubbed = s.snubbed
    BY <1>3, SetUnchokedFields
  <1> HIDE DEF s1
  <1>5. s2 \in Slots /\ s2.snubbed = s.snubbed
    BY <1>3, <1>4, SetUnchokedFields
  <1> HIDE DEF s2
  <1> QED BY <1>1, <1>2, <1>5, SlotsAssign

\* The marks that a rechoke sets and keeps have their reason (the snub part of
\* rechoke).
LEMMA SnubsCurrent ==
  ASSUME IInv, SnubMarksCurrent
  PROVE  /\ have_complete_file => WithSnubs(slots).snubbed = {}
         /\ \A p \in WithSnubs(slots).snubbed : since_data[p] \in {SnubTime, NoTime}
  <1>1. CASE have_complete_file
    BY <1>1 DEF WithSnubs, SnubMarksCurrent
  <1>2. CASE ~have_complete_file
    <2> DEFINE watched == interested \cap slots.unchoked
               marks   == (slots.snubbed \ watched)
                            \cup {p \in watched : SilentFor(slots, p) >= SnubTime}
    <2>1. WithSnubs(slots) = [slots EXCEPT !.snubbed = marks]
      BY <1>2 DEF WithSnubs
    <2>2. slots \in Slots /\ slots.snubbed \subseteq Peers /\ slots.unchoked \subseteq Peers
      BY SlotsFields DEF IInv, TypeOK
    <2>3. WithSnubs(slots).snubbed = marks
      <3>1. marks \in SUBSET Peers
        BY <2>2
      <3> HIDE DEF marks
      <3> QED BY <2>1, <2>2, <3>1, SlotsAssign
    <2>4. ASSUME NEW p \in watched, SilentFor(slots, p) >= SnubTime
          PROVE  since_data[p] \in {SnubTime, NoTime}
      <3>1. since_data[p] \in 0 .. SnubTime \cup {NoTime}
        BY <2>2 DEF IInv, TypeOK
      <3> QED BY <2>4, <3>1, TimesAssumption DEF SilentFor
    <2> QED BY <1>2, <2>3, <2>4 DEF SnubMarksCurrent
  <1> QED BY <1>1, <1>2

\* Every step keeps the marks current.
LEMMA SnubStep == IInv /\ SnubMarksCurrent /\ [Next]_vars => SnubMarksCurrent'
  <1> SUFFICES ASSUME IInv, SnubMarksCurrent, [Next]_vars PROVE SnubMarksCurrent'
    OBVIOUS
  <1>1. slots \in Slots /\ slots.snubbed \subseteq Peers
    BY SlotsFields DEF IInv, TypeOK
  <1>2. ASSUME UNCHANGED <<have_complete_file, since_data>>, slots'.snubbed = slots.snubbed
        PROVE  SnubMarksCurrent'
    BY <1>2 DEF SnubMarksCurrent
  <1>3. ASSUME NEW peer \in Peers, NEW full \in SUBSET Pieces, ObsCompletion(peer, full)
        PROVE  SnubMarksCurrent'
    <2> DEFINE completes == full # {} /\ completed_pieces \cup full = Pieces
               marks     == IF completes THEN {} ELSE slots.snubbed \ {peer}
    <2>1. /\ since_data' = [since_data EXCEPT ![peer] = 0]
          /\ have_complete_file' = (have_complete_file \/ completes)
          /\ slots' = [slots EXCEPT !.snubbed = marks]
      BY <1>3 DEF ObsCompletion
    <2>2. marks \subseteq slots.snubbed \ {peer}
      OBVIOUS
    <2>3. slots'.snubbed = marks
      <3>1. marks \in SUBSET Peers
        BY <1>1
      <3> HIDE DEF marks
      <3> QED BY <1>1, <2>1, <3>1, SlotsAssign
    <2>4. ASSUME NEW p \in marks PROVE since_data'[p] \in {SnubTime, NoTime}
      <3>1. p \in slots.snubbed /\ p # peer /\ p \in Peers
        BY <1>1, <2>2
      <3>2. since_data'[p] = since_data[p]
        BY <2>1, <3>1 DEF IInv, TypeOK
      <3> QED BY <3>1, <3>2 DEF SnubMarksCurrent
    <2>5. have_complete_file' => marks = {}
      BY <2>1 DEF SnubMarksCurrent
    <2> HIDE DEF marks
    <2> QED BY <2>3, <2>4, <2>5 DEF SnubMarksCurrent
  <1>4. CASE \E peer \in Peers : Observe(peer)
    <2> PICK peer \in Peers : Observe(peer)
      BY <1>4
    <2>1. CASE (\E b \in BOOLEAN : ObsPeerInterest(peer, b)) \/ ObsUpload(peer)
      BY <1>2, <2>1 DEF ObsPeerInterest, ObsUpload
    <2>2. CASE \E full \in {{}} \cup {{piece} : piece \in Pieces} : ObsCompletion(peer, full)
      <3> PICK full \in {{}} \cup {{piece} : piece \in Pieces} : ObsCompletion(peer, full)
        BY <2>2
      <3>1. full \in SUBSET Pieces
        OBVIOUS
      <3> QED BY <1>3, <3>1
    <2> QED BY <2>1, <2>2 DEF Observe
  <1>5. CASE EmitCommand
    <2>1. slots' = [slots EXCEPT !.pending = Tail(slots.pending)]
          /\ UNCHANGED <<have_complete_file, since_data>>
      BY <1>5 DEF EmitCommand
    <2> QED BY <1>1, <1>2, <2>1 DEF Slots
  <1>6. CASE TimerDue
    <2> DEFINE s == IF rechoke_rem = 0 THEN rechoke(slots) ELSE slots
    <2>1. /\ slots' = IF optimistic_rem = 0 THEN rotate_optimistic(s) ELSE s
          /\ UNCHANGED <<have_complete_file, since_data>>
      BY <1>6 DEF TimerDue
    <2>2. s \in Slots
      BY <1>1, RechokeMarks
    <2>3. /\ have_complete_file => s.snubbed = {}
          /\ \A p \in s.snubbed : since_data[p] \in {SnubTime, NoTime}
      <3>1. CASE rechoke_rem = 0
        BY <3>1, RechokeMarks, SnubsCurrent
      <3>2. CASE rechoke_rem # 0
        BY <3>2 DEF SnubMarksCurrent
      <3> QED BY <3>1, <3>2
    <2> HIDE DEF s
    <2>4. slots'.snubbed = s.snubbed
      BY <2>1, <2>2, RotateMarks DEF IInv, TypeOK
    <2> QED BY <2>1, <2>3, <2>4 DEF SnubMarksCurrent
  <1>7. CASE Elapse
    <2> DEFINE since == [p \in Peers |-> Older(slots.since_unchoked[p], SnubTime)]
    <2>1. /\ slots' = [slots EXCEPT !.since_unchoked = since]
          /\ since_data' = [p \in Peers |-> Older(since_data[p], SnubTime)]
          /\ have_complete_file' = have_complete_file
      BY <1>7 DEF Elapse
    <2> HIDE DEF since
    <2>2. slots'.snubbed = slots.snubbed
      BY <1>1, <2>1 DEF Slots
    <2>3. ASSUME NEW p \in slots.snubbed PROVE since_data'[p] \in {SnubTime, NoTime}
      <3>1. since_data'[p] = Older(since_data[p], SnubTime)
        BY <1>1, <2>1
      <3>2. since_data[p] \in {SnubTime, NoTime}
        BY DEF SnubMarksCurrent
      <3> QED BY <3>1, <3>2, TimesAssumption DEF Older
    <2> QED BY <2>1, <2>2, <2>3 DEF SnubMarksCurrent
  <1>8. CASE UNCHANGED vars
    BY <1>2, <1>8 DEF vars
  <1> QED BY <1>4, <1>5, <1>6, <1>7, <1>8 DEF Next, Internal

\* No snub mark outlives its reason: none is left when the download completes,
\* and who has one has been silent for the snub time (rechoke and the arrival
\* of a sub-piece).
THEOREM MarksStayCurrent == Spec => []SnubMarksCurrent
  <1>1. Init => SnubMarksCurrent
    BY DEF Init, SnubMarksCurrent
  <1> QED BY <1>1, SnubStep, Invariance, PTL DEF Spec

=============================================================================
