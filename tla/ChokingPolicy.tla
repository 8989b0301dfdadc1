---------------------------- MODULE ChokingPolicy ----------------------------
(***************************************************************************)
(* The choking policy of one client (models/client/choking_policy.hpp):    *)
(* it watches what its peer_wire observes, ranks the interested peers by   *)
(* how much they sent lately (how much we sent them, once the download is  *)
(* complete), unchokes the best ones, and gives one more slot, the         *)
(* optimistic one, to the other interested peers in turn.                  *)
(*                                                                         *)
(* Time runs in ticks; an instant is kept as its age, which stops counting *)
(* where the code no longer tells ages apart.  Every sample of a rate is   *)
(* one sub-piece, so the rate of a peer is the number of its samples in    *)
(* the window.                                                             *)
(***************************************************************************)
EXTENDS Integers, Sequences, FiniteSets, OrderedMaps

CONSTANTS
  Peers,             \* the remote peers, by peer_id
  RateSlots,         \* rate_slots
  RateWindow,        \* rate_window_seconds, in ticks, as all the durations
  RechokePeriod,     \* rechoke_period_seconds
  OptimisticPeriod,  \* optimistic_period_seconds
  SnubTime,          \* snub_seconds
  Pieces,            \* the piece indices; total_pieces of them
  InitialComplete,   \* the constructor's initial_complete
  NoPeer, NoTime,    \* std::nullopt, of a peer and of an instant
  Fickle, Traders,   \* bounds: peers that lose interest, peers with traffic
  MaxSamples         \* bound: samples of one peer within the window

ASSUME PeersAssumption  == Peers \subseteq Nat /\ IsFiniteSet(Peers) /\ NoPeer \notin Peers
ASSUME SlotsAssumption  == RateSlots \in Nat /\ MaxSamples \in Nat
ASSUME TimesAssumption  ==
  /\ RateWindow \in Nat /\ SnubTime \in Nat /\ NoTime \notin Nat
  /\ RechokePeriod \in Nat \ {0} /\ OptimisticPeriod \in Nat \ {0}
ASSUME PiecesAssumption == IsFiniteSet(Pieces) /\ Pieces # {} /\ InitialComplete \in BOOLEAN

VARIABLES
  interested,          \* peers with peer_state::interested
  since_data,          \* age of peer_state::last_data, or NoTime
  rate_samples,        \* ages of peer_state::rate_samples, oldest first
  rotation,            \* all known peers, the newest first
  completed_pieces,
  have_complete_file,
  slots,               \* what rechoke and rotate_optimistic decide
  rechoke_rem,         \* ticks to next_rechoke
  optimistic_rem,      \* ticks to next_optimistic
  am_unchoking         \* peers the wire was told to unchoke (peer_wire's !am_choking)

vars == <<interested, since_data, rate_samples, rotation, completed_pieces,
          have_complete_file, slots, rechoke_rem, optimistic_rem, am_unchoking>>

ChokeCmd == [peer : Peers, unchoke : BOOLEAN]

Slots == [unchoked       : SUBSET Peers,
          snubbed        : SUBSET Peers,
          since_unchoked : [Peers -> 0 .. SnubTime \cup {NoTime}],
          rate_unchoked  : SUBSET Peers,
          optimistic     : Peers \cup {NoPeer},
          pending        : Seq(ChokeCmd)]

Known == {rotation[i] : i \in DOMAIN rotation}

-----------------------------------------------------------------------------
(* External transition: what peer_wire observes *)

\* Mutant of ensure_peer: a newcomer does not enter the rotation.
EnsurePeerUnlisted(peer) == UNCHANGED rotation

ensure_peer(peer) ==
  rotation' = IF peer \in Known THEN rotation ELSE <<peer>> \o rotation

ObsPeerInterest(peer, peer_interested) ==
  /\ ensure_peer(peer)
  /\ interested' = IF peer_interested THEN interested \cup {peer} ELSE interested \ {peer}
  /\ UNCHANGED <<since_data, rate_samples, completed_pieces, have_complete_file, slots,
                 rechoke_rem, optimistic_rem, am_unchoking>>

\* Bound: no more than MaxSamples samples within the window.
AddSample(peer) ==
  /\ Len(rate_samples[peer]) < MaxSamples
  /\ rate_samples' = [rate_samples EXCEPT ![peer] = Append(@, 0)]

\* Mutant of ObsCompletion: the snub marks of the others outlive the download.
ObsCompletionKeepsMarks(peer, full) ==
  /\ ensure_peer(peer)
  /\ since_data' = [since_data EXCEPT ![peer] = 0]
  /\ IF have_complete_file THEN UNCHANGED rate_samples ELSE AddSample(peer)
  /\ completed_pieces' = completed_pieces \cup full
  /\ have_complete_file' =
       (have_complete_file \/ (full # {} /\ completed_pieces \cup full = Pieces))
  /\ slots' = [slots EXCEPT !.snubbed = @ \ {peer}]
  /\ UNCHANGED <<interested, rechoke_rem, optimistic_rem, am_unchoking>>

\* A sub-piece arrived from peer; it completes the pieces in full, at most one.
ObsCompletion(peer, full) ==
  /\ ensure_peer(peer)
  /\ since_data' = [since_data EXCEPT ![peer] = 0]
  /\ IF have_complete_file THEN UNCHANGED rate_samples ELSE AddSample(peer)
  /\ completed_pieces' = completed_pieces \cup full
  /\ LET completes == full # {} /\ completed_pieces \cup full = Pieces
     IN  /\ have_complete_file' = (have_complete_file \/ completes)
         /\ slots' = [slots EXCEPT !.snubbed = IF completes THEN {} ELSE @ \ {peer}]
  /\ UNCHANGED <<interested, rechoke_rem, optimistic_rem, am_unchoking>>

ObsUpload(peer) ==
  /\ ensure_peer(peer)
  /\ IF have_complete_file THEN AddSample(peer) ELSE UNCHANGED rate_samples
  /\ UNCHANGED <<interested, since_data, completed_pieces, have_complete_file, slots,
                 rechoke_rem, optimistic_rem, am_unchoking>>

-----------------------------------------------------------------------------
(* Internal transition.  rechoke and rotate_optimistic take the slots to     *)
(* new slots; a due rotation runs on what a due rechoke left.                *)

\* Mutant of set_unchoked: no early return for a peer that is as wanted.
SetUnchokedAlways(s, P, unchoke) ==
  LET cmds == [i \in 1 .. Cardinality(P) |-> [peer |-> Ascending(P)[i], unchoke |-> unchoke]]
  IN  [s EXCEPT !.unchoked = IF unchoke THEN @ \cup P ELSE @ \ P,
                !.since_unchoked = [p \in Peers |-> IF p \notin P THEN @[p]
                                                    ELSE IF unchoke THEN 0 ELSE NoTime],
                !.pending = @ \o cmds]

\* set_unchoked for each peer of P in turn.
set_unchoked(s, P, unchoke) ==
  LET changed == {p \in P : (p \in s.unchoked) # unchoke}
      cmds    == [i \in 1 .. Cardinality(changed) |->
                    [peer |-> Ascending(changed)[i], unchoke |-> unchoke]]
  IN  [s EXCEPT !.unchoked = IF unchoke THEN @ \cup P ELSE @ \ P,
                !.since_unchoked = [p \in Peers |-> IF p \notin changed THEN @[p]
                                                    ELSE IF unchoke THEN 0 ELSE NoTime],
                !.pending = @ \o cmds]

\* How long a peer has sent nothing: since its last data, or if it never sent
\* any since it was unchoked.
SilentFor(s, p) == IF since_data[p] # NoTime THEN since_data[p] ELSE s.since_unchoked[p]

\* The snub marks of the peers with an open slot, while we download.
WithSnubs(s) ==
  LET watched == interested \cap s.unchoked
  IN  IF have_complete_file THEN s
      ELSE [s EXCEPT !.snubbed = (@ \ watched) \cup {p \in watched : SilentFor(s, p) >= SnubTime}]

\* Only samples within the window are kept.
current_rate(p) == Len(rate_samples[p])

\* Higher rate first, then lower peer_id.
Better(p, q) ==
  \/ current_rate(p) > current_rate(q)
  \/ current_rate(p) = current_rate(q) /\ p < q

\* The best RateSlots of the interested peers that are not snubbed.
Ranked(s) ==
  LET candidates == interested \ s.snubbed
  IN  {p \in candidates : Cardinality({q \in candidates : Better(q, p)}) < RateSlots}

\* Mutant of rechoke: the snub marks are set when the slots are given.
RechokeSnubsLast(s0) ==
  LET new == Ranked(s0)
      s1  == set_unchoked(s0, (s0.rate_unchoked \ new) \ {s0.optimistic}, FALSE)
      s2  == set_unchoked(s1, new \ s0.rate_unchoked, TRUE)
  IN  WithSnubs([s2 EXCEPT !.rate_unchoked = new])

rechoke(s0) ==
  LET s   == WithSnubs(s0)
      new == Ranked(s)
      s1  == set_unchoked(s, (s.rate_unchoked \ new) \ {s.optimistic}, FALSE)
      s2  == set_unchoked(s1, new \ s.rate_unchoked, TRUE)
  IN  [s2 EXCEPT !.rate_unchoked = new]

\* Positions in the rotation of the peers eligible for the optimistic slot.
Eligible(s) ==
  {i \in DOMAIN rotation : rotation[i] \in interested /\ rotation[i] \notin s.rate_unchoked}

\* Mutant of NextOptimistic: no test that the current one was found, so that
\* its position is the end and the next one the second, around.
NextOptimisticUnguarded(s) ==
  LET E       == Eligible(s)
      behind  == {i \in E : \E j \in E : j < i /\ rotation[j] = s.optimistic}
      later   == {i \in E : \E j \in E : j < i}
      missing == s.optimistic # NoPeer /\ \A i \in E : rotation[i] # s.optimistic
      choices == IF behind # {} THEN behind ELSE IF missing /\ later # {} THEN later ELSE E
  IN  rotation[CHOOSE i \in choices : \A j \in choices : i <= j]

\* The eligible peer behind the current one, around; the first one if the
\* current one is not eligible any more.
NextOptimistic(s) ==
  LET behind  == {i \in Eligible(s) : \E j \in Eligible(s) : j < i /\ rotation[j] = s.optimistic}
      choices == IF behind # {} THEN behind ELSE Eligible(s)
  IN  rotation[CHOOSE i \in choices : \A j \in choices : i <= j]

\* Mutant of rotate_optimistic: the one before is choked even if it has
\* risen to a rate slot.
RotateChokingRanked(s) ==
  LET next   == IF Eligible(s) = {} THEN NoPeer ELSE NextOptimistic(s)
      leaves == {s.optimistic} \ {NoPeer, next}
      enters == {next} \ {NoPeer}
  IN  [set_unchoked(set_unchoked(s, leaves, FALSE), enters, TRUE) EXCEPT !.optimistic = next]

rotate_optimistic(s) ==
  LET next   == IF Eligible(s) = {} THEN NoPeer ELSE NextOptimistic(s)
      leaves == ({s.optimistic} \ {NoPeer, next}) \ s.rate_unchoked
      enters == ({next} \ {NoPeer}) \ s.rate_unchoked
  IN  [set_unchoked(set_unchoked(s, leaves, FALSE), enters, TRUE) EXCEPT !.optimistic = next]

\* A command leaves; no timer is looked at.
EmitCommand ==
  /\ slots.pending # <<>>
  /\ LET cmd == Head(slots.pending)
     IN  am_unchoking' = IF cmd.unchoke THEN am_unchoking \cup {cmd.peer}
                                        ELSE am_unchoking \ {cmd.peer}
  /\ slots' = [slots EXCEPT !.pending = Tail(@)]
  /\ UNCHANGED <<interested, since_data, rate_samples, rotation, completed_pieces,
                 have_complete_file, rechoke_rem, optimistic_rem>>

TimerDue ==
  /\ slots.pending = <<>>
  /\ rechoke_rem = 0 \/ optimistic_rem = 0
  /\ LET s == IF rechoke_rem = 0 THEN rechoke(slots) ELSE slots
     IN  slots' = IF optimistic_rem = 0 THEN rotate_optimistic(s) ELSE s
  /\ rechoke_rem' = IF rechoke_rem = 0 THEN RechokePeriod ELSE rechoke_rem
  /\ optimistic_rem' = IF optimistic_rem = 0 THEN OptimisticPeriod ELSE optimistic_rem
  /\ UNCHANGED <<interested, since_data, rate_samples, rotation, completed_pieces,
                 have_complete_file, am_unchoking>>

\* An instant of the code is an age here: it grows with the clock, and ages
\* from the limit on are alike.
Older(age, limit) == IF age # NoTime /\ age < limit THEN age + 1 ELSE age

AgedSamples(ages) ==
  LET expired == Cardinality({i \in DOMAIN ages : ages[i] >= RateWindow})
  IN  [i \in 1 .. Len(ages) - expired |-> ages[expired + i] + 1]

\* time_advance: nothing is queued and no timer is due, so a tick passes.
Elapse ==
  /\ slots.pending = <<>> /\ rechoke_rem > 0 /\ optimistic_rem > 0
  /\ rechoke_rem' = rechoke_rem - 1
  /\ optimistic_rem' = optimistic_rem - 1
  /\ since_data' = [p \in Peers |-> Older(since_data[p], SnubTime)]
  /\ rate_samples' = [p \in Peers |-> AgedSamples(rate_samples[p])]
  /\ slots' = [slots EXCEPT !.since_unchoked = [p \in Peers |-> Older(@[p], SnubTime)]]
  /\ UNCHANGED <<interested, rotation, completed_pieces, have_complete_file, am_unchoking>>

-----------------------------------------------------------------------------
Init ==
  /\ interested = {}
  /\ since_data = [p \in Peers |-> NoTime]
  /\ rate_samples = [p \in Peers |-> <<>>]
  /\ rotation = <<>>
  /\ completed_pieces = {}
  /\ have_complete_file = InitialComplete
  /\ slots = [unchoked |-> {}, snubbed |-> {},
              since_unchoked |-> [p \in Peers |-> NoTime],
              rate_unchoked |-> {}, optimistic |-> NoPeer, pending |-> <<>>]
  /\ rechoke_rem = RechokePeriod
  /\ optimistic_rem = OptimisticPeriod
  /\ am_unchoking = {}

Observe(peer) ==
  \/ \E b \in BOOLEAN : (b \/ peer \in Fickle) /\ ObsPeerInterest(peer, b)
  \/ /\ peer \in Traders
     /\ \E full \in {{}} \cup {{piece} : piece \in Pieces} : ObsCompletion(peer, full)
  \/ peer \in Traders /\ ObsUpload(peer)

Internal == EmitCommand \/ TimerDue

Next ==
  \/ \E peer \in Peers : Observe(peer)
  \/ Internal
  \/ Elapse

Spec == Init /\ [][Next]_vars

\* The coordinator runs an imminent atomic, and simulated time goes on: weak
\* fairness of every step but Observe.  That of TimerDue, which stays enabled
\* until it is taken, is stated as what it brings about.
FairSpec ==
  Spec /\ WF_vars(EmitCommand) /\ WF_vars(Elapse) /\ []<>(rechoke_rem > 0 /\ optimistic_rem > 0)

-----------------------------------------------------------------------------
\* Every variable holds values of its type, and every interested peer is in
\* the rotation that the optimistic slot is drawn from.
TypeOK ==
  /\ interested \subseteq Known
  /\ since_data \in [Peers -> 0 .. SnubTime \cup {NoTime}]
  /\ rate_samples \in [Peers -> Seq(0 .. RateWindow)]
  /\ rotation \in Seq(Peers)
  /\ completed_pieces \subseteq Pieces
  /\ have_complete_file \in BOOLEAN
  /\ slots \in Slots
  /\ rechoke_rem \in 0 .. RechokePeriod
  /\ optimistic_rem \in 0 .. OptimisticPeriod
  /\ am_unchoking \subseteq Peers

\* The unchoked peers are those with a slot, no more and no fewer, although
\* rechoke and rotate_optimistic each spare the peers the other one holds and
\* a peer may hold both slots: so at most RateSlots + 1 peers are unchoked.
UnchokedIsSlots ==
  /\ slots.unchoked = slots.rate_unchoked \cup ({slots.optimistic} \ {NoPeer})
  /\ Cardinality(slots.rate_unchoked) <= RateSlots

\* A snubbed peer never holds a rate slot, whatever comes between two
\* rechokes: it stays eligible for the optimistic slot only.
SnubbedNotRanked == slots.snubbed \cap slots.rate_unchoked = {}

\* A snub mark never outlives its reason: once the download is complete no
\* peer is marked, and until then a marked peer has sent nothing for the snub
\* time, or never.  A mark that lingers keeps a peer out of the ranking, for
\* ever if nothing clears it: rechoke looks again only at the marks of the
\* interested peers it has unchoked, and at none of them once complete.
SnubMarksCurrent ==
  /\ have_complete_file => slots.snubbed = {}
  /\ \A p \in slots.snubbed : since_data[p] \in {SnubTime, NoTime}

\* The commands under way to peer_wire bring its view of a peer to the
\* policy's, and each of them changes that view: peer_wire ignores a command
\* that does not, so a repeated or swapped one would leave the two apart.
CommandsReconcile ==
  \A p \in Peers :
    LET mine == {i \in DOMAIN slots.pending : slots.pending[i].peer = p}
        Told(i) == LET before == {j \in mine : j < i}
                   IN  IF before = {} THEN p \in am_unchoking
                       ELSE slots.pending[CHOOSE j \in before : \A k \in before : k <= j].unchoke
    IN  /\ \A i \in mine : slots.pending[i].unchoke # Told(i)
        /\ Told(Len(slots.pending) + 1) = (p \in slots.unchoked)

\* The peers that rotate_optimistic would consider.
EligiblePeers == {rotation[i] : i \in Eligible(slots)}

\* A due rotation starts over, its holder being no longer eligible, and finds
\* somebody eligible before p.
StartsOverBefore(p) ==
  /\ optimistic_rem = 0 /\ optimistic_rem' > 0
  /\ slots.optimistic \notin EligiblePeers'
  /\ \E i, j \in DOMAIN rotation : i < j /\ rotation[i] \in EligiblePeers' /\ rotation[j] = p

\* The optimistic slot goes round, while peers come, lose interest and rise to
\* rate slots: who stays eligible gets it again and again, unless again and
\* again the holder is no longer eligible and the rotation starts over with
\* somebody before them.
TakesTurns ==
  \A p \in Peers :
    <>[](p \in EligiblePeers) =>
      []<>(slots.optimistic = p) \/ []<><<StartsOverBefore(p)>>_vars
=============================================================================
