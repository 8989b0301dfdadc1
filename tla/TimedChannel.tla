---------------------------- MODULE TimedChannel ----------------------------
(***************************************************************************)
(* What the channels of models/utp promise (bottleneck_channel.hpp:8-9),   *)
(* on an absolute clock: frames are served one after the other,            *)
(*   departure(frame) = max(now, server_free) + wire_size/rate             *)
(*   delivery         = departure + prop_delay (+ jitter)                  *)
(* and each frame that is not dropped is delivered at exactly that         *)
(* instant.                                                                *)
(***************************************************************************)
EXTENDS Integers, Functions

CONSTANTS
  ServiceTimes,   \* service times of the frames, in ticks
  PropDelay,
  Jitters,        \* {0} if there is none
  MaxArrivals     \* bound: frames that arrive

VARIABLES
  clock,
  server_free,    \* when the server is free, never in the past
  arrived,        \* number of frames arrived; they are numbered from 1
  due             \* due[n]: when frame n is delivered, for each one under way

channelVars == <<clock, server_free, arrived, due>>

TimedInit == clock = 0 /\ server_free = 0 /\ arrived = 0 /\ due = [n \in {} |-> 0]

Accept(service, jitter) ==
  /\ arrived' = arrived + 1
  /\ server_free' = server_free + service
  /\ due' = [n \in DOMAIN due \cup {arrived'} |->
               IF n = arrived' THEN server_free' + PropDelay + jitter ELSE due[n]]
  /\ UNCHANGED clock

Discard == arrived' = arrived + 1 /\ UNCHANGED <<clock, server_free, due>>

DeliverDue(n) ==
  /\ due[n] = clock
  /\ due' = Restrict(due, DOMAIN due \ {n})
  /\ UNCHANGED <<clock, server_free, arrived>>

\* Time does not pass a delivery.
Advance ==
  /\ \A n \in DOMAIN due : due[n] > clock
  /\ clock' = clock + 1
  /\ server_free' = IF server_free > clock THEN server_free ELSE clock'
  /\ UNCHANGED <<arrived, due>>

TimedNext ==
  \/ \E service \in ServiceTimes, jitter \in Jitters : Accept(service, jitter)
  \/ Discard
  \/ \E n \in DOMAIN due : DeliverDue(n)
  \/ Advance

\* Time goes on, and so every frame is delivered in the end.
TimedSpec ==
  /\ TimedInit /\ [][TimedNext]_channelVars
  /\ \A n \in 1 .. MaxArrivals : []<>(n \notin DOMAIN due)
=============================================================================
