-------------------------- MODULE BottleneckChannel --------------------------
(***************************************************************************)
(* The deterministic channel (models/utp/bottleneck_channel.hpp): one      *)
(* server with a rate cap, a propagation delay, an optional limit to the   *)
(* bytes queued and an optional drop of every n-th arrival.  The code      *)
(* keeps no clock but the time that remains to every event, and ages all   *)
(* of it whenever it runs.                                                 *)
(*                                                                         *)
(* Time runs in ticks, and a byte takes TicksPerByte of them (1 / rate_).  *)
(* clock, and the number of a frame, are history: the code does not have   *)
(* them.                                                                   *)
(***************************************************************************)
EXTENDS Integers, Sequences, SequencesExt

CONSTANTS
  Sizes,             \* wire sizes, in bytes
  TicksPerByte,
  PropDelay,         \* prop_delay_
  QueueCapacity,     \* queue_capacity_bytes_, 0 if there is none
  DropEveryNth,      \* drop_every_nth_, 0 if disabled
  MaxArrivals,       \* bound: frames that arrive
  MaxClock           \* bound: the clock of an empty channel

ASSUME ChannelAssumption ==
  /\ Sizes \subseteq Nat \ {0} /\ TicksPerByte \in Nat \ {0}
  /\ {PropDelay, QueueCapacity, DropEveryNth, MaxArrivals, MaxClock} \subseteq Nat

VARIABLES
  pending,           \* the frames under way, in the order of their arrival
  server_free_rem,   \* ticks until the server is free
  arrivals,
  forwarded, dropped_nth, dropped_overflow,
  clock

vars == <<pending, server_free_rem, arrivals, forwarded, dropped_nth, dropped_overflow, clock>>

InTransit == [number : Nat, size : Sizes, service_rem : Nat, delivery_rem : Nat]

Init ==
  /\ pending = <<>>
  /\ server_free_rem = 0
  /\ arrivals = 0
  /\ forwarded = 0 /\ dropped_nth = 0 /\ dropped_overflow = 0
  /\ clock = 0

\* The bytes that have not cleared the server; the frame in service counts in
\* full.
queued_bytes == FoldLeft(LAMBDA sum, e : IF e.service_rem > 0 THEN sum + e.size ELSE sum, 0, pending)

-----------------------------------------------------------------------------
(* External transition.  The frame number arrivals + 1 arrives. *)

IsNth == DropEveryNth # 0 /\ (arrivals + 1) % DropEveryNth = 0

\* Mutant of Overflows: the frame itself does not count.
OverflowsLate(size) == QueueCapacity # 0 /\ queued_bytes > QueueCapacity

Overflows(size) == QueueCapacity # 0 /\ queued_bytes + size > QueueCapacity

DropNth ==
  /\ IsNth
  /\ arrivals' = arrivals + 1
  /\ dropped_nth' = dropped_nth + 1
  /\ UNCHANGED <<pending, server_free_rem, forwarded, dropped_overflow, clock>>

DropOverflow(size) ==
  /\ ~IsNth
  /\ Overflows(size)
  /\ arrivals' = arrivals + 1
  /\ dropped_overflow' = dropped_overflow + 1
  /\ UNCHANGED <<pending, server_free_rem, forwarded, dropped_nth, clock>>

\* Mutant of Enqueue: the service starts at the arrival.
EnqueueUnserved(size) ==
  /\ ~IsNth
  /\ ~Overflows(size)
  /\ arrivals' = arrivals + 1
  /\ server_free_rem' = server_free_rem + size * TicksPerByte
  /\ pending' = Append(pending, [number |-> arrivals', size |-> size,
                                 service_rem |-> size * TicksPerByte,
                                 delivery_rem |-> size * TicksPerByte + PropDelay])
  /\ UNCHANGED <<forwarded, dropped_nth, dropped_overflow, clock>>

Enqueue(size) ==
  /\ ~IsNth
  /\ ~Overflows(size)
  /\ arrivals' = arrivals + 1
  /\ server_free_rem' = server_free_rem + size * TicksPerByte
  /\ pending' = Append(pending, [number |-> arrivals', size |-> size,
                                 service_rem |-> server_free_rem',
                                 delivery_rem |-> server_free_rem' + PropDelay])
  /\ UNCHANGED <<forwarded, dropped_nth, dropped_overflow, clock>>

Arrive(size) ==
  /\ arrivals < MaxArrivals
  /\ DropNth \/ DropOverflow(size) \/ Enqueue(size)

-----------------------------------------------------------------------------
(* Internal transition and the passing of time *)

\* Only the front is looked at.
time_advance == Head(pending).delivery_rem

Forward ==
  /\ pending # <<>>
  /\ time_advance = 0
  /\ forwarded' = forwarded + 1
  /\ pending' = Tail(pending)
  /\ UNCHANGED <<server_free_rem, arrivals, dropped_nth, dropped_overflow, clock>>

\* Mutant of Less: below zero.
LessUnclamped(rem) == rem - 1

Less(rem) == IF rem > 1 THEN rem - 1 ELSE 0

\* Mutant of age: the server's own occupancy does not age.
AgeKeepingServer ==
  /\ pending' = [i \in DOMAIN pending |->
                   [pending[i] EXCEPT !.service_rem = Less(@), !.delivery_rem = Less(@)]]
  /\ UNCHANGED server_free_rem

age ==
  /\ pending' = [i \in DOMAIN pending |->
                   [pending[i] EXCEPT !.service_rem = Less(@), !.delivery_rem = Less(@)]]
  /\ server_free_rem' = Less(server_free_rem)

\* One tick, up to what time_advance allows.
Elapse ==
  /\ pending # <<>> => time_advance > 0
  /\ pending = <<>> => clock < MaxClock
  /\ age
  /\ clock' = clock + 1
  /\ UNCHANGED <<arrivals, forwarded, dropped_nth, dropped_overflow>>

Next ==
  \/ \E size \in Sizes : Arrive(size)
  \/ Forward
  \/ Elapse

Spec == Init /\ [][Next]_vars

\* The coordinator runs the channel when it is imminent, and time goes on.
FairSpec == Spec /\ WF_vars(Forward) /\ WF_vars(Elapse)

-----------------------------------------------------------------------------
\* Every variable holds values of its type.
TypeOK ==
  /\ pending \in Seq(InTransit)
  /\ server_free_rem \in Nat
  /\ arrivals \in 0 .. MaxArrivals
  /\ {forwarded, dropped_nth, dropped_overflow, clock} \subseteq Nat

\* The bytes queued never exceed the limit, and they are what the server has
\* to do: its backlog is at most the time they take and more than the time of
\* all but the first.  So no frame waits longer than a full queue takes, and
\* the server is never idle while bytes are queued (external_transition
\* and age keep the two apart).
QueueBoundsDelay ==
  LET InService(i) == pending[i].service_rem > 0 /\ \A j \in 1 .. i - 1 : pending[j].service_rem = 0
  IN  /\ QueueCapacity # 0 => queued_bytes <= QueueCapacity
      /\ server_free_rem <= TicksPerByte * queued_bytes
      /\ \A i \in DOMAIN pending : InService(i) =>
           server_free_rem > TicksPerByte * (queued_bytes - pending[i].size)

\* time_advance and internal_transition look at the front only: no frame
\* behind it is due earlier, and none is due while the front is not.
FrontIsImminent ==
  \A i, j \in DOMAIN pending : i < j =>
    /\ pending[i].number < pending[j].number
    /\ pending[i].delivery_rem < pending[j].delivery_rem

\* Ageing what remains is keeping to the absolute schedule, and every frame
\* that enters the queue leaves it.
Timed == INSTANCE TimedChannel WITH
  ServiceTimes <- {size * TicksPerByte : size \in Sizes},
  Jitters <- {0},
  server_free <- clock + server_free_rem,
  arrived <- arrivals,
  due <- [n \in {pending[i].number : i \in DOMAIN pending} |->
            clock + pending[CHOOSE i \in DOMAIN pending : pending[i].number = n].delivery_rem]
KeepsSchedule == Timed!TimedSpec
=============================================================================
