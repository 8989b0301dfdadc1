# TLA+ models and proofs for cadmium-experiments

The repository holds DEVS models: atomic models with a state, an external
transition (a message arrives), an internal transition (a timer is due or
something is queued), an output function and a time advance, joined by a
coordinator.  Its largest part, `bittorrent-utp/`, builds a BitTorrent swarm on a
uTP transport from such atomics.  This directory holds TLA+ modules for them, TLC
configurations that check the modules on small instances, and theorems that TLAPS
checks for all values of the constants.

To run: `tlc -config X.cfg M` for the runs of `PROJECT.json`, `tlapm M.tla` for
the modules `*Proofs.tla`.

## Inventory

| Part | Source (under `src/bittorrent-utp/`) | State | Operations | Module |
|---|---|---|---|---|
| uTP endpoint | `models/utp/utp_socket.hpp` | a connection per remote peer, queues of frames and of payloads, next connection id | `app_send`, a frame arrives (SYN, STATE, DATA, FIN, RESET), emission of the queues, retransmission timers | `UtpSocket` |
| congestion control | the same file: `packetize`, `ledbat_update`, `cut_window`, the timer | window, slow start, timeout, bytes in flight, where the window was last cut | payloads cut into packets, window grown, cut or closed | `UtpWindow` |
| sockets over channels | `models/utp/two_client_sto_scenario.hpp` | the atomics and what they exchange at one instant | one instant of the coordinator | `UtpNetwork` |
| choking policy | `models/client/choking_policy.hpp` | per-peer interest, rates, snub marks; rate slots, the optimistic slot, rotation, two timers, queued commands | three observations, emission, rechoke, rotation | `ChokingPolicy` |
| deterministic channel | `models/utp/bottleneck_channel.hpp` | FIFO queue with remaining times, occupancy of the server, counters | a frame arrives (queued, dropped by pattern or by the limit), a frame leaves | `BottleneckChannel` |
| stochastic channel | `models/utp/lossy_channel.hpp` | the same, with jitter per frame | a frame arrives (lost or queued), the least frame leaves | `LossyChannel` |
| wire protocol | `models/client/peer_wire.hpp` | a connection per peer: choke and interest on both sides, bitfield, pieces in progress, requests outstanding and planned | ten messages, choke commands, request plans | `PeerWire` |
| piece selection | `models/client/piece_selector.hpp` | possession, availability, progress, who was asked for what | two observations, emission | `PieceSelector` |
| client and det scenarios | `models/client/bittorrent_client.hpp`, `s3_*`, `s4_*` | the coupling of the four | `first_imminent` selection | `Download` (wire and selector) |
| networked control | `src/ckw10-ncs` | six models, the time each fires next and last did, the signal between them | one iteration of the event loop `run_once` | `NetworkedControl` |
| load balancer, clocks, fractions | `src/ckw10-lbm`, `src/vdw14-*`, `src/rational_time.hpp` | a buffer per server, generators, a time type | - | not modelled |
| ball on stairs | `src/qss1-ball-downstairs` | a differential equation | - | out of reach |

How they interact.  A client couples socket, wire, selector and policy: the socket
delivers wire messages to `peer_wire`, whose observations go to selector and
policy, whose plans and commands come back to `peer_wire`, whose messages go to
the socket.  Sockets exchange frames through channels.  All of it is message
passing; an atomic is never interrupted, but whatever it queued for output leaves
one element per step, so anything may arrive between a decision and the message
that tells of it.

What is hard in it: frames lost, late and reordered; retransmission by three
mechanisms that may meet; 16-bit numbers that wrap; windows cut by three paths at
once and packets cut at their edge; handshakes that cross or repeat; connections
replaced under frames under way; two timers, or several models, due at one instant;
peers that hold two slots at once; remaining and elapsed times kept by hand.
`PROJECT.json` lists these under `hazards`, each with the properties that cover it.

## Modules

Each component is a module; `MC*` modules and the `.cfg` files instantiate them for
TLC.  An operator whose comment begins with "Mutant of" is a plausible bug in the
definition below it, which makes a property of the module fail; the models never
use it.

### `SeqNumbers`, `UtpSocket`, `UtpNetwork`, `ReliableStream`

`SeqNumbers` has the arithmetic on 16-bit numbers, for a width that is a parameter.
`UtpSocket` holds the sockets of all peers: `conns[self][remote]` is the entry of
`state.conns`, `out_frames` and `out_delivers` are the two queues.  Its actions are
the branches of `handle_app_send`, `handle_frame` and `internal_transition`; the
helpers carry the names of the code (`packetize`, `process_acks`, `drain_ooo`,
`receive_data`, `build_sack`, ...) and return the set of their outcomes.
`UtpNetwork` adds the channels, as a bag of frames from which any may arrive and
some may be lost, and the application.  `ReliableStream` is what the pair promises
its application.

Abstractions.

- A payload is what one packet carries: splitting and joining are left out.
- The congestion window: `packetize` may send any number of packets, but at least
  one when nothing is in flight (`initial_cwnd` and the floor `min_packet` exceed a
  header, so the code always gets a packet out then).  What LEDBAT would send is
  among the choices; so safety holds for every window, and liveness rests on that
  one fact only, which `UtpWindow` checks (`NeverStalls`).
- Time: an armed timer may expire whenever the socket has nothing queued.  An
  expiry while a frame of the pair is under way is a spurious one, bounded by
  `MaxSpurious`.
- 16-bit numbers are numbers modulo `SeqMod`; the instances are small enough that a
  window never spans half of it, as in the code, where the window never holds
  32768 packets.
- A FIN is not modelled: no code sends one, only a test makes one up.

| Run | Shows |
|---|---|
| `utp_stream` | one opener, 3 + 1 payloads, one loss, one spurious timeout, any reordering: exact prefix (`InOrderExactlyOnce`), nothing forgotten by both ends (`NothingLost`), shape of `inflight` and `ooo` (`WindowShape`), opposite ids and no reset (`HandshakeAgreement`) |
| `utp_live` | with fairness: refinement of `ReliableStream` with its liveness (`ImplementsStream`), and rest in the end (`EventuallyQuiet`) |
| `utp_two_openers` | both may open, 2 + 2 payloads, a loss: `TransmitStates` through resets and replacements |
| `utp_zombie` | violation of `OrderedDelivery` when connections replace one another |

Bounds.  Three payloads and a threshold of two duplicates are the least for which a
hole has two packets acknowledged past it, so fast retransmission, selective
retransmission and the timer all occur; the network reorders at will, so several
holes exist at once even with a single loss.  One loss exercises every kind of
frame, SYN and acknowledgement included.  The acceptor starts at the last number
before the wrap.

Fairness.  `WF` of emission (the coordinator runs an imminent atomic before time
passes), of reception (a channel forwards what it does not drop) and of expiry
(time advances to an armed timer).  Losses and spurious expiries are bounded and
have no fairness.

Findings.  In `utp_zombie` a late SYN replaces a live connection, and as the ids of
consecutive attempts overlap, frames of one enter another.  It needs peers that open
towards each other or again; the scenarios of the repository have one opener per
pair, for which `HandshakeAgreement` is proved.  `NothingLost` too is stated for one
opener: when SYNs cross, `accept_syn` erases what waits in the other attempt.

### `UtpWindow`

The same socket from the other side: one connected stream, counted in bytes.
`packetize` cuts payloads into packets of at most `mtu_payload` bytes, as many as
the smaller of the two windows admits; `process_acks`, `apply_sack`, `cut_window`,
`ledbat_update` and `on_timeout` move the window and the timer.  The other end is what
`receive_data` and `build_sack` make of the packets, and may send packets of its
own.  `conn` has the fields of `utp_conn` that the sending half uses; `offset`,
`cuts`, `heard`, `cut_flight` and `submitted` are history, to say what was promised.

Abstractions.  Windows are whole bytes, rounded down.  A measured queueing delay
is a choice from `Delays`, and the timeout that follows from round-trip times one
from `RttTimeouts`.  Time passes only while something is in flight.
Acknowledgements are not reordered; `UtpSocket` has that.

| Run | Shows |
|---|---|
| `utp_window` | two payloads of a packet and a half, a loss, a timeout, three packets the other way: pending and inflight cover the stream without gap or overlap and each payload is completed by the packet with its last byte (`StreamCovered`); payloads never wait with nothing in flight (`NeverStalls`); the window is cut at most once per window of packets, whichever path finds the loss (`OneCutPerWindow`), and every loss of a later window does cut it (`LossIsCut`); traffic the other way does not put off a retransmission beyond the repeated acknowledgements that it brings (`NotPostponed`) |

Bounds.  The initial window of six bytes admits two packets of two bytes and a
header each, and the two payloads make three packets, of which one carries the end
of the first payload and the start of the second.  One loss, among them that of an
acknowledgement, is found by repeated acknowledgements, by a selective one or by the
timer; one timeout closes the window to `min_packet`.  Three packets the other way
exceed the threshold of two.  The numbers wrap in the middle, and fewer than
half of them lie between two losses, without which `cut_window` takes a loss for one
already cut.

`NotPostponed` is as strong as the code allows: without it the timer alone, which
every packet of the connection restarts (`handle_frame`), would wait for the other
end to fall silent.

### `ChokingPolicy`

The variables are those of `state_type`; `slots` groups what `rechoke` and
`rotate_optimistic` decide, so that these are operators from slots to slots and a
due rotation runs on what a due rechoke left.  `am_unchoking` is `peer_wire`'s side
of the choke state, updated as `handle_choke_cmd` does.  Instants are kept as ages,
cut off where the code no longer tells them apart (the snub time, the rate
window); samples outside the window are dropped although the code keeps them,
since `current_rate` skips them.  Every sample is one sub-piece, so a rate is a
number of samples.

| Run | Shows |
|---|---|
| `choking` | three peers, one of them fickle and two with traffic, one rate slot: slots and unchoked peers agree (`UnchokedIsSlots`), a snubbed peer holds no rate slot (`SnubbedNotRanked`), no snub mark outlives its reason (`SnubMarksCurrent`), the commands bring `peer_wire` to the policy's view one effective change at a time (`CommandsReconcile`); with fairness a peer that stays eligible gets the optimistic slot again and again, unless the rotation starts over before it again and again (`TakesTurns`) |

Bounds.  Three peers and one rate slot leave two peers for the optimistic slot and
let its holder rise; the periods of 1 and 2 ticks keep both timers due together at
every second one, as 10 s and 30 s do at every third.  One sample per peer and
window is enough to reorder the ranking; ties are broken by id as in the code.

Fairness.  The timers' own step stays enabled until it is taken, so its weak
fairness is stated as its effect (no timer stays due for ever); emission and the
passing of time have weak fairness.  Observations have none.

Two things the code does although its comments say otherwise.  The rotation, "strict
round-robin", starts over at the first eligible peer when the holder of the
optimistic slot is not eligible any more.  A holder that has risen to a rate slot is
not, so two peers that rise in turn, as long as their traffic lasts, keep a third
from the slot: on the instance of `choking`, TLC refutes `TakesTurns` without its
exception, with a behaviour in which the slot goes back and forth between two peers.
The exception asks for more than a holder no longer eligible: somebody eligible must
stand before the one passed over.  And the snub clock, which a comment of `set_unchoked` starts when a
peer is unchoked, starts from the last data received, even data from before the last
choke, so a peer unchoked again may be marked at the next rechoke.
`SnubMarksCurrent` says what a mark does mean.

### `BottleneckChannel`, `LossyChannel`, `TimedChannel`

The channels keep the time that remains to each event and age all of it whenever
they run.  `TimedChannel` states what that amounts to, on an absolute clock: service
one after the other, delivery at exactly departure + propagation (+ jitter).  Both
channels implement it (`KeepsSchedule`, with `clock` and frame numbers as history),
including that every frame queued is delivered.  `QueueBoundsDelay` ties the bytes
queued to the backlog of the server, `FrontIsImminent` is why the deterministic
channel may look at its front only, and `OvertakesWithinJitter` says how far the
stochastic one reorders.

Bounds.  Seven frames of three sizes against a limit of five bytes make the queue
overflow and drain; with four frames and a jitter range longer than the shortest
service, frames overtake one another.  `MaxClock` bounds only the time that passes
while the channel is empty.

Fairness.  `WF` of the internal transition and of a tick.

### `PeerWire`, `PieceSelector`, `Download`, `PieceTransfer`

`wire[self]` and `selector[self]` are the `state_type` of the two atomics; each
handler is an operator from a state to the next, under its name in the code or
`On...` for the branches of `handle_wire_in`.  `Download` couples them as
`bittorrent_client` does: a message and an observation leave the wire in one step
and the selector sees the observation in that step; plans go only when the wire has
nothing to send, choke commands only when neither has, which is the selection order
of the coupling; messages arrive at any moment.  `link` stands for sockets and
channels and keeps what `ReliableStream` promises.  `PieceTransfer` says what the
whole is for: pieces spread by copying until everyone has all.

Abstractions.  Loops over ordered maps visit keys in `Ascending` order
(`OrderedMaps`, shared with `ChokingPolicy`).  Vectors of bits are sets of indices; a sub-piece is a pair, since byte
offsets are computed by multiplication and undone by division on one piece size.
Messages no code sends (keepalive, illegal indices and offsets) are left out.  The
choking policy is any that unchokes only interested peers and chokes at most
`MaxChokes` times; a command that its decision outlived (an unchoke that leaves just
after the interest ended) is not among the choices.

| Run | Shows |
|---|---|
| `swarm` | a downloader and two seeds, endgame, a choke at any time: both ends agree once messages are in (`ViewsAgree`), interest is current on every connection (`InterestIsCurrent`), no request waits for nothing (`RequestsAccounted`), none exceeds the pipeline or is made twice (`NoDuplicates`), the selector's record is what the wire asks for (`PlansAgree`), availability is a count of peers (`AvailabilityIsCount`) |
| `download` | two clients with half of the pieces each: refinement of `PieceTransfer` with its liveness, through a choke at any time; a piece under way is never delivered whole without being complete (`StartedIsIncomplete`) |
| `endgame` | violation of `StartedIsIncomplete`: a piece delivered half by each of two peers is complete nowhere |

Bounds.  A piece of two sub-pieces and a pipeline of one keep one request planned
behind one outstanding, so chokes, cancellations and plans meet both queues.  With
one piece both seeds are asked for the same sub-pieces at once, which is endgame; the
second run has two pieces and traffic both ways.  One choke crosses every message in
turn, and the unchoke behind it may overtake the request it met.

Fairness.  `WF` of emission, plans and reception, as in the other modules; `WF` of
unchoking an interested peer stands for the turns the policy gives
(`TakesTurns`), and chokes are bounded.  Liveness is checked between two clients,
where no other peer can stand before the interested one.

Findings.  In `endgame` the selector cancels at one peer what another delivered,
while the wire completes a piece only from one connection's deliveries; the piece
stays incomplete and is never asked for again.  Two further things happen in the
models that no document speaks of: a late completion makes the selector start a
complete piece again, and a client that owned pieces from the start fetches them
again once a peer announces them.  The first is why `PlansAgree` and the second half
of `NoDuplicates` are about incomplete pieces: with four clients and two pieces TLC
finds a connection that keeps a sub-piece of a complete piece twice, asked for once
before it was complete and once after.

### `NetworkedControl`

The experiment has no coordinator: `run_once` keeps for each of six models when it
fires (`t`), when it last did something (`last`) and what it holds, and its loop
collects the outputs of all models due, takes their internal transitions and then
the external ones, with elapsed times reckoned by hand.  `Iterate` is one pass of
the loop; `LastTransition`, `Elapsed` and `...Advance` stand for the places where
`last_*`, the elapsed time and a sigma are worked out for one model or another.

Abstractions.  Times are ticks, exact where the code has doubles.  Integrators and
weighted sum come from the library: an integrator fires after any of `IntAdvances`
and emits any of `Quanta`, the sum answers an input at once.  Noise and the cost of
a run are left out.

| Run | Shows |
|---|---|
| `networked_control` | each model is told to pass every time exactly once and the sensor keeps its period (`TimesAgree`); whenever time moves on each model works with the last output of its sources (`InputsAgree`); the controller's sample is at most a period and one delay old, or less than a period and two delays when a delay may outlast a period (`MeasurementAge`) |

Bounds.  Delays below and above the period (1 and 3 against 2), so a sample meets
an empty buffer, a full one and one that empties at the same instant; integrators
that fire at once, later than a period, or never; five periods, after which ages and
orders repeat.  The theorems below need none of these bounds.

## Proofs

Every theorem holds for all values of the constants that satisfy the assumptions of
the modules: peers are finitely many natural numbers, `SeqMod > 3`, periods, windows
and thresholds are positive, services take time.  `FiniteNatSets` has the facts
that several of them need: on finite sets of numbers (the least, greatest and n-th
element, and that `Ascending` of `OrderedMaps` lists a set in order), on sequences
(how often and where an element occurs, what concatenating and filtering keep) and on
sums.  The models add up queues with the folds of the community modules; `SumTo` is
the sum of the first entries of a sequence, and the fold over a queue is shown to be
it once for each fold (`InFlightIsSum`, `FoldIsQueued`, `FoldIsServed`).  Such a fact
needs induction over lengths; it is had by taking the least length at which it fails
(`LeastElement`, `SetInduction`).

`UtpNetworkProofs`, which starts with lemmas on the handlers of `UtpSocket`:

- `TypeCorrect`: `Spec => []TypeOK`.  `TypeOK` is inductive by itself.  Each helper
  of the socket has a lemma on the type of its outcomes and each action one on the
  step; the network's steps add the bag of frames.
- `HandshakeAgrees`: with at most one opener in every pair,
  `Spec => []HandshakeAgreement`.  The property is not inductive: it speaks of
  connections only, while what keeps them in agreement are the frames under way.
  The invariant `Handshake` adds who of a pair may hold which kind of entry, that
  each frame under way carries the id its receiver expects, and that no SYN other
  than the one of the current attempt exists.
- `SendsOnlyConnected`: `Spec => []TransmitStates`, for any openers.  Inductive by
  itself; the lemma that matters is that acknowledgements which find nothing in
  flight leave nothing in flight (`NoHoles`), so late ones cannot revive an entry.
- `StreamInvariant`, and from it `DeliversInOrder` (`InOrderExactlyOnce`),
  `ForgetsNothing` (`NothingLost`), `KeepsWindowShape` (`WindowShape`) and
  `ImplementsStreamSafely`, the safety part of `ImplementsStream`.  They need one
  opener per pair (`OneOpener`) and streams shorter than half the range of the
  numbers (`Fits`, `2 * MaxSend[p] < SeqMod`: fewer than 32768 packets a
  direction in the code).  The second is a limit of the model as much as of the
  protocol: the code's window, which the model leaves open, keeps what is in flight
  far below half the range, but nothing bounds how long a packet is under way, and
  one that comes when the numbers have gone round passes for a new one.  Without
  `Fits` TLC finds `InOrderExactlyOnce` violated.  The numbers still wrap, since
  the acceptor's first number is any.

  None of these properties is inductive.  The invariant `Streams` speaks of the
  position of every number instead of the number: `SeqOf(b, n)` is the number of
  the n-th packet of a stream that begins at `b`, and the lemmas `SeqOfDistance` and
  `SeqOfInjective` carry `seq_diff` over to positions.  For each pair it says what
  the sender has numbered (`Sends`: `seq_nr`, `inflight` in order, `pending` the
  rest), what the receiver holds (`Receives`: in order up to `ack_nr`, beyond the
  next one in `ooo`), that what is numbered is held or in flight (`Retains`), that
  what was delivered and what waits in `out_delivers` are what was received in order
  (`Hands`), and that the opener learns the acceptor's first number before any of
  its data (`Waits`).  Of each frame it says that it carries the payload of its number
  and acknowledges only what its sender holds (`PacketOK`); as the receiver forgets
  nothing (`Held` only grows), that stays true however long the frame is under way.
  The helpers of the socket are proved once, on a single connection (`SendStep` for
  `packetize` and `process_acks`, `ReceiveStep` for `drain_ooo` and `receive_data`), and
  each handler then only shows that the entry it puts in place is fit (`Fit`).

`UtpWindowProofs`, for every size of payloads, packets and windows and every
threshold:

- `WindowTypes`, `WindowNeverStalls` (`NeverStalls`) and `WindowCoversStream`
  (`StreamCovered`) follow from `StreamInv`.  The window is never below a packet and its
  header (`Fits`), so `Admitted` is positive whenever nothing is in flight; that is all
  that `NeverStalls` needs of the congestion control.  `StreamCovered` compares what
  waits, what is in flight and what was submitted.  `WaitsFrom` says that what waits
  ends at the last byte submitted and begins at `offset`, and `Carried` that a packet
  lies before `offset` and completes exactly the payloads that end in it.
  `packetize` cuts at multiples of `Mtu` (`CutAt`), and its lemmas are about an
  interval of the stream, not about the loop: `Packets`, `Completed` and
  `Remaining` for any number of bytes admitted.  Acknowledgements remove packets from
  the front or from the middle, and what is left lies where it did (`Kept`).
- `CutsOncePerWindow` (`OneCutPerWindow`), `CutsForLoss` (`LossIsCut`) and
  `FrontNotPostponed` (`NotPostponed`): `Spec /\ []Few => ...`, where `Few` says that
  fewer than half of the numbers have been used and are in flight.  The hypothesis is
  the code's: `cut_window` compares a number with `cut_seq` across any distance, and
  takes a loss for one already cut when they are half the range apart: with `SeqMod = 4`
  and the rest of the run's instance, TLC finds the first two violated.  `FewBytesFewNumbers` says when it
  holds of every behaviour: if fewer than half as many bytes can be submitted as there
  are numbers (`FewBytes`, true in `utp_window`), for each packet carries a byte;
  and `ShortStreams` puts the four together.  A stream of more than 32767 packets is
  outside these three theorems.

  The invariant is `NumbersInv` on top of `StreamInv`.  It replaces numbers by their
  places in the stream (`Position`).  Of the sender (`Numbers`): what is in flight
  rises and was sent, `cut_seq` was sent, no counter has reached the threshold, and
  the packets at or before `cut_seq` are exactly those in flight at the last cut
  (`CutFlight`), which is what makes one 16-bit number stand for a set.  Of the
  network (`NetNumbers`): what the other end lacks of what was sent is in flight
  (`ReceivedOf`); each acknowledgement under way tells of packets received and not of
  the next one, in order (`ToldOf`); and every packet that came since the front
  was sent is counted at it, in `dup_acks` or, once for each threshold of them, in
  `sacked_past` (`HeardOf`), which bounds `heard` by the square of the threshold.
  That last part is why it does no harm that `handle_frame` restarts the timer at
  every packet.

`ChokingPolicyProofs`: `TypeCorrect`, `UnchokedHoldSlots` (`UnchokedIsSlots`),
`SnubbedLoseSlots` (`SnubbedNotRanked`), `MarksStayCurrent` (`SnubMarksCurrent`) and
`CommandsBringTheView` (`CommandsReconcile`).  The invariant is `TypeOK`, that samples are kept oldest
first (`OldestFirst`, which is why dropping from the front drops what is outside the
window) and `SlotsInv`, the promises as a predicate on slots, so that a lemma shows
`rechoke` to keep it, another `rotate_optimistic`, and a timer step that runs both
needs no third.  That a rechoke fills no more slots than there are rests on
`WorstExists`: of a set of ranked peers one has all others before it.
`CommandsReconcile` speaks of the whole queue; the proof takes it peer by peer
(`Reconciles`): what the queue tells a peer last is the policy's view of it, and each
command says the opposite of what was said before.  `SnubMarksCurrent` is inductive on
top of that invariant (`SnubStep`).

`BottleneckChannelProofs`: `TypeCorrect`, `FrontLeavesFirst` (`FrontIsImminent`), for
which the invariant adds that no frame is due later than one served by the time the
server is free (`BehindServer`), so that a new one goes to the end of the schedule
too; `QueueBounds` (`QueueBoundsDelay`); and `RefinesSchedule`, the safety part of
`KeepsSchedule`: every step of the channel is one of `TimedChannel` or a stutter.
`QueueBoundsDelay` bounds one sum, what the server has to do, by another, the bytes
queued, and ageing takes from the first at every tick but from the second only when
a frame has been served.  The invariant gives each frame its place in the server's time (`ServiceLine`): what remains until
frame `i` has been served is what remains for the frame before it and its own bytes,
exactly so if that one is not served yet; and what is queued keeps to the limit
(`WithinCapacity`).

`LossyChannelProofs`: `TypeCorrect`, `RefinesSchedule` and `OvertakesOnlyByJitter`
(`OvertakesWithinJitter`).  Frames overtake one another, so for the first two the
invariant only says that the queue is in the order of the frame numbers (`Numbered`);
the frame that `imminent_it` looks for exists (`ImminentExists`).  For the third it adds
that every frame is due, the services of all behind it added, no later than the server
is free, the propagation and the longest jitter (`JitterBehindServer`): that is what a
frame that arrives is compared with.

`DownloadProofs`: for every number of clients, every geometry, every distribution of
pieces and every choice of who connects to whom, `TypeCorrect`,
`InterestAlwaysCurrent` (`InterestIsCurrent`), `ViewsAlwaysAgree` (`ViewsAgree`),
`RequestsAlwaysAccounted` (`RequestsAccounted`), `AvailabilityAlwaysCount`
(`AvailabilityIsCount`), `PipelineAlwaysBounded` (the first half of `NoDuplicates`),
and `RefinesTransfer`, the safety part of `ImplementsTransfer`.  All follow from one
invariant, `IInv`, since none of them is inductive:

- Of one client (`Local`): `Good`, a connection knows nothing of a peer before its
  handshake, waits for nothing while choked, and its interest is current; `Asks`,
  only pieces a peer has announced are planned or requested of it; `SelGood`, the
  selector's count is right and its pending plans ask only for what was announced
  and cancel at most one sub-piece each; `Follows`, the announcements still queued
  for the selector grow and lie between what it knows and what the wire knows, so
  each makes it count every new piece once.
- Of two clients (`Half`, once in either direction): what is under way, on the link
  or still queued in the wire, settles all that they disagree on.  The last message
  about choking and the last about interest say what is so, or else the peer knows
  it; the handshake comes first and the bitfield before every `have`, so nothing
  that is sent is dropped and a bitfield never replaces an announcement; what is
  announced is owned (`Honest`); and of each sub-piece no more requests are
  outstanding than requests and answers are under way, unless a choke is (`Owed`).
  That counts occurrences: membership alone would not survive a request repeated
  after a choke.
- A client has no connection to itself (`NoSelf`).

The handlers are proved once, on the record of a wire: each is a change of what one
connection has heard followed by a `WireStep`, in which whatever changes is told by
what is sent (`Sends`).  The pair of clients is then treated for a step, for a
message taken and for a change that is not told (`Both`, `BothSend`, `BothTake`,
`BothKeep`), and no lemma on pairs mentions a handler.  That a cancelled or repeated
request never confuses the accounts is `OwedSend` and `BothTake`.

The second half of `DownloadProofs` has `RequestPlansAlwaysAgree` (`PlansAgree`) and
`NeverAskedTwice` (`NoDuplicates`), under the same assumptions.  Both need `LifeInv` on top of `IInv`
(`LifeInvariant`), which concerns one client at a time.  For
each peer and each sub-piece of an incomplete piece, `LifeOf` relates the selector's
record (asked or not, delivered or not) to four places the sub-piece may be in: the
pending plans that ask for it, those that cancel it, the requests the wire keeps, and
the completions still queued for the selector.  It occurs in each at most once, and in
at most one of the first, third and fourth; a cancellation stands behind the plan it
cancels; what the record does not know of is cancelled if it is still planned or kept, and
has been delivered otherwise.  The wire and the selector have different ideas of
what is complete, but until the wire has the whole piece they agree on what has been
delivered (`Got`), which is what keeps `try_plan_for` from asking again.  `LivesPlan`,
`LivesPiece`, `LivesCompletion` and `LivesTry` are the four steps that move a sub-piece
on, `LivesQuiet` and `LivesTell` all others.  TLC checked the invariant on `swarm` and
on random behaviours of four clients before it was proved.

`NetworkedControlProofs`: `TypeCorrect`, `ModelsKeepTime` (`TimesAgree`),
`InputsUpToDate` (`InputsAgree`) and `SamplesAreFresh` (`MeasurementAge`).  The
invariant adds to `TypeOK` and `TimesAgree` that no model is overdue (`Schedule`),
that what is not up to date at this instant is about to be, since its source fires
now (`Pending`), and how the samples at the controller, in the buffer and next at
the sensor follow one another (`Ages`).

Every strengthening was checked by TLC before it was proved.

Only model-checked.

- What becomes of `OneCutPerWindow`, `LossIsCut` and `NotPostponed` beyond `Few`.  The
  first two fail there; of the third no failure is known.
- `StartedIsIncomplete` fails where a piece comes from several peers (`endgame`).  That
  it holds between two clients is shown by `download` alone: a client also fetches
  again what it owned from the start, and `LifeInv` is about pieces it lacks.
- Liveness, fairness and so the temporal half of every refinement, which are out of
  the prover's reach.

## Not modelled, and why

- Round-trip times and base delays (`update_rtt`, `base_delay`): floating point;
  the timeout and the delay that follow from them are choices in `UtpWindow`.
- FIN: no code sends it.  What an entry closed by a reset may still deliver is not
  asked either, since no code resets on purpose.
- `bittorrent_client` as a whole: `Download` has wire and selector over ordered
  links with any policy that unchokes interested peers.  Sockets and
  `ChokingPolicy` have modules of their own; composed with it, the state space is
  out of TLC's reach.  What each promises the others is what links them:
  `ReliableStream` stands for the sockets, and `CommandsReconcile` and `TakesTurns`
  for the policy.
- `ckw10-lbm`: its models share no state and its loop handles one event at a time;
  what it is about is a probability of loss.  The single buffer of a server is that
  of `nird`, which is modelled.
- `vdw14-*`: generators of ticks and resets around accumulators of the cadmium
  library; nothing of the repository reacts to their order.
- `rational_time`: arithmetic whose hazard is the overflow of 64 bits.
- `qss1-ball-downstairs`: numeric integration.
- Stubs and `event_filter_sink`: stand-ins for the policies modelled, and a log filter.
- `sim_time`, `net_frame`, `app_chunk`, `peer_id`: conversions and plain data.
- Tests, scripts, mains, plots and CI: no state of their own.

## Plan

Done: sockets and network, window, policy, channels, wire and selector, networked
control, and the proofs above, which cover every safety property that a passing run
checks but `StartedIsIncomplete`.  Left, in this order:

1. Closing: FIN and what a closed entry still accepts.
2. The load balancer's single buffers and `rational_time`.
