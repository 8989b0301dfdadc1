---------------------------- MODULE LossyChannel ----------------------------
(***************************************************************************)
(* The stochastic channel (models/utp/lossy_channel.hpp): a server with a  *)
(* rate cap and a propagation delay, where each arrival may be dropped     *)
(* and each other one gets a delay of its own on top, drawn when it        *)
(* arrives.  So frames overtake one another, and the channel emits the one *)
(* that has the least time left, the first of those in the queue.          *)
(*                                                                         *)
(* The draws are choices: a drop, and a jitter from JitterMin to JitterMax *)
(* ticks.  A frame is what its size says, counted in ticks of service.     *)
(* clock, and the number of a frame, are history.                          *)
(***************************************************************************)
EXTENDS Integers, Sequences, SequencesExt

CONSTANTS
  ServiceTimes,           \* wire_size / rate_ of the frames
  PropDelay,              \* prop_delay_
  JitterMin, JitterMax,   \* jitter_dist_
  MayDrop,                \* drop_prob_ > 0
  MaxArrivals,            \* bound: frames that arrive
  MaxClock                \* bound: the clock of an empty channel

ASSUME ChannelAssumption ==
  /\ ServiceTimes \subseteq Nat \ {0} /\ MayDrop \in BOOLEAN
  /\ {PropDelay, JitterMin, JitterMax, MaxArrivals, MaxClock} \subseteq Nat
  /\ JitterMin <= JitterMax

VARIABLES
  pending,            \* the frames under way, in the order of their arrival
  server_free_rem,    \* ticks until the server is free
  arrivals,
  forwarded, dropped_loss,
  clock

vars == <<pending, server_free_rem, arrivals, forwarded, dropped_loss, clock>>

InTransit == [number : Nat, service : ServiceTimes, delivery_rem : Nat]

Init ==
  /\ pending = <<>>
  /\ server_free_rem = 0
  /\ arrivals = 0
  /\ forwarded = 0 /\ dropped_loss = 0
  /\ clock = 0

-----------------------------------------------------------------------------
(* External transition.  The frame number arrivals + 1 arrives. *)

\* A dropped frame takes no time of the server.
Drop ==
  /\ MayDrop
  /\ arrivals' = arrivals + 1
  /\ dropped_loss' = dropped_loss + 1
  /\ UNCHANGED <<pending, server_free_rem, forwarded, clock>>

\* Mutant of Enqueue: the service starts at the arrival.
EnqueueUnserved(service, jitter) ==
  /\ arrivals' = arrivals + 1
  /\ server_free_rem' = server_free_rem + service
  /\ pending' = Append(pending, [number |-> arrivals', service |-> service,
                                 delivery_rem |-> service + PropDelay + jitter])
  /\ UNCHANGED <<forwarded, dropped_loss, clock>>

\* The jitter delays the frame, not the server.
Enqueue(service, jitter) ==
  /\ arrivals' = arrivals + 1
  /\ server_free_rem' = server_free_rem + service
  /\ pending' = Append(pending, [number |-> arrivals', service |-> service,
                                 delivery_rem |-> server_free_rem' + PropDelay + jitter])
  /\ UNCHANGED <<forwarded, dropped_loss, clock>>

Arrive(service) ==
  /\ arrivals < MaxArrivals
  /\ Drop \/ \E jitter \in JitterMin .. JitterMax : Enqueue(service, jitter)

-----------------------------------------------------------------------------
(* Internal transition and the passing of time *)

\* Mutant of imminent_it: the front, as in the bottleneck channel.
ImminentFront == 1

\* The index of the frame with the least time left, the first of them.
imminent_it ==
  CHOOSE i \in DOMAIN pending :
    /\ \A j \in DOMAIN pending : pending[i].delivery_rem <= pending[j].delivery_rem
    /\ \A j \in 1 .. i - 1 : pending[i].delivery_rem < pending[j].delivery_rem

time_advance == pending[imminent_it].delivery_rem

Forward ==
  /\ pending # <<>>
  /\ time_advance = 0
  /\ forwarded' = forwarded + 1
  /\ pending' = RemoveAt(pending, imminent_it)
  /\ UNCHANGED <<server_free_rem, arrivals, dropped_loss, clock>>

\* Mutant of Less: below zero.
LessUnclamped(rem) == rem - 1

Less(rem) == IF rem > 1 THEN rem - 1 ELSE 0

age ==
  /\ pending' = [i \in DOMAIN pending |-> [pending[i] EXCEPT !.delivery_rem = Less(@)]]
  /\ server_free_rem' = Less(server_free_rem)

\* One tick, up to what time_advance allows.
Elapse ==
  /\ pending # <<>> => time_advance > 0
  /\ pending = <<>> => clock < MaxClock
  /\ age
  /\ clock' = clock + 1
  /\ UNCHANGED <<arrivals, forwarded, dropped_loss>>

Next ==
  \/ \E service \in ServiceTimes : Arrive(service)
  \/ Forward
  \/ Elapse

Spec == Init /\ [][Next]_vars

\* The coordinator runs the channel when it is imminent, and time goes on.
FairSpec == Spec /\ WF_vars(Forward) /\ WF_vars(Elapse)

-----------------------------------------------------------------------------
\* Every variable holds values of its type.
TypeOK ==
  /\ pending \in Seq(InTransit)
  /\ server_free_rem \in Nat
  /\ arrivals \in 0 .. MaxArrivals
  /\ {forwarded, dropped_loss, clock} \subseteq Nat

\* Jitter reorders frames, but no further than its own range: whatever leaves
\* before an earlier arrival was served at most JitterMax - JitterMin after
\* it, the services between them included.  "The FIFO server occupancy itself
\* stays deterministic."
OvertakesWithinJitter ==
  \A i, j \in DOMAIN pending : i < j =>
    LET between == FoldLeft(LAMBDA sum, e : sum + e.service, 0, SubSeq(pending, i + 1, j))
    IN  pending[j].delivery_rem - pending[i].delivery_rem >= between - (JitterMax - JitterMin)

\* Ageing what remains and emitting the least first is keeping to the absolute
\* schedule, although frames overtake, and every frame that enters leaves.
Timed == INSTANCE TimedChannel WITH
  Jitters <- JitterMin .. JitterMax,
  server_free <- clock + server_free_rem,
  arrived <- arrivals,
  due <- [n \in {pending[i].number : i \in DOMAIN pending} |->
            clock + pending[CHOOSE i \in DOMAIN pending : pending[i].number = n].delivery_rem]
KeepsSchedule == Timed!TimedSpec
=============================================================================
