--------------------------- MODULE NetworkedControl ---------------------------
(***************************************************************************)
(* The networked control experiment (src/ckw10-ncs): six atomic models,    *)
(* driven by the event loop that run_once writes out by hand.              *)
(*                                                                         *)
(*   int1 -> sen -> nd -> hc -> wsum -> int2 -> int1,   int2 -> wsum       *)
(*                                                                         *)
(* int1 and int2 are the integrators of the plant, wsum its weighted sum,  *)
(* sen samples the output y every H, nd delays a sample by a random time   *)
(* in one buffer, and hc holds the last sample for the controller.         *)
(*                                                                         *)
(* Times are whole ticks, exact where the code has doubles.  The           *)
(* integrators and the sum belong to the cadmium library: when an          *)
(* integrator fires next and what it puts out are choices, and the sum     *)
(* answers an input at once.  A value is a quantum of the signal; the      *)
(* noise on a sample and the cost of the run are left out.                 *)
(***************************************************************************)
EXTENDS Integers

CONSTANTS
  H,            \* the sampling period
  TauMaxes,     \* the values tau_max takes in the sweep of main
  IntAdvances,  \* when an integrator may fire after a transition
  Quanta,       \* what it may put out
  TEnd,         \* t_end
  INF           \* infinity of the doubles

ASSUME ControlAssumption ==
  /\ H \in Nat \ {0} /\ TEnd \in Nat /\ TauMaxes \subseteq Nat \ {0}
  /\ INF \in Nat /\ \A tau \in TauMaxes : INF > TEnd + H + tau
  /\ IntAdvances \subseteq {n \in Nat : n = INF \/ n + TEnd < INF}
  /\ Quanta \subseteq Int /\ 0 \in Quanta

VARIABLES
  tau_max, \* the longest delay of the network in this run
  now,     \* t_next of the iteration before
  t,       \* t_*: when each model fires
  last,    \* last_*: its last transition
  sigma,   \* its own time to the next firing
  sen,     \* y_held of the sensor
  nd,      \* y_delayed
  hc,      \* y_held of the controller
  u1, u2,  \* the input of int1, and of int2 as the inputs it is the sum of
  sum,     \* the inputs of wsum
  out,     \* history: the last output of int1 and of int2
  samples, \* history: how many samples were taken
  clock    \* history: the time each model was told to pass

vars == <<tau_max, now, t, last, sigma, sen, nd, hc, u1, u2, sum, out, samples, clock>>

REF == 1

Models == {"int1", "int2", "wsum", "sen", "nd", "hc"}
Time == Nat

\* A sample: the value, and when it was taken.
Sample == [y : Quanta, taken : Time]

\* t_next + ta, where either may be infinite.
At(time, ta) == IF ta = INF THEN INF ELSE time + ta

Init ==
  /\ tau_max \in TauMaxes
  /\ now = 0
  /\ sigma = [m \in Models |-> CASE m \in {"int1", "int2", "hc"} -> 0
                                 [] m = "sen" -> H
                                 [] m \in {"wsum", "nd"} -> INF]
  /\ t = sigma
  /\ last = [m \in Models |-> 0]
  /\ clock = [m \in Models |-> 0]
  /\ sen = 0
  /\ nd = [y |-> 0, taken |-> 0]
  /\ hc = [y |-> 0, taken |-> 0]
  /\ out = [int1 |-> 0, int2 |-> 0]
  /\ u1 = 0
  /\ sum = [u |-> 0, x2 |-> 0]
  /\ u2 = [u |-> 0, x2 |-> 0]
  /\ samples = 0

\* The outputs that reach each model.
Sources(m) ==
  CASE m = "int1" -> {"int2"}
    [] m = "int2" -> {"wsum"}
    [] m = "wsum" -> {"int2", "hc"}
    [] m = "sen" -> {"int1"}
    [] m = "nd" -> {"sen"}
    [] m = "hc" -> {"nd"}

-----------------------------------------------------------------------------
(* One iteration of the loop, at time t_next, with the models in fired: the  *)
(* outputs are collected first, then the internal transitions take place,    *)
(* then the external ones.                                                   *)

Received(m, fired) == Sources(m) \cap fired # {}

\* Mutant of LastTransition: an external transition does not count as one.
LastInternal(m, t_next, fired) == IF m \in fired THEN t_next ELSE last[m]

\* last_* at the end of the iteration.
LastTransition(m, t_next, fired) ==
  IF m \in fired \/ Received(m, fired) THEN t_next ELSE last[m]

\* Mutant of Elapsed: an external transition is told the time itself.
ElapsedAbsolute(m, t_next, fired) == IF m \in fired THEN 0 ELSE t_next

\* What an external transition is told to have elapsed: none after an internal
\* one at the same time.
Elapsed(m, t_next, fired) == IF m \in fired THEN 0 ELSE t_next - last[m]

SensorAdvance(t_next, fired) ==
  (IF "sen" \in fired THEN H ELSE sigma["sen"])
    - (IF Received("sen", fired) THEN Elapsed("sen", t_next, fired) ELSE 0)

\* Mutant of Passive: the sample that the buffer releases still fills it.
PassiveBefore(fired) == sigma["nd"] = INF

\* nird is empty when a sample of this iteration reaches it.
Passive(fired) == sigma["nd"] = INF \/ "nd" \in fired

\* A sample finds the buffer empty and is delayed by tau, or is dropped.
NirdAdvance(t_next, fired, tau) ==
  IF ~Received("nd", fired) THEN IF "nd" \in fired THEN INF ELSE sigma["nd"]
  ELSE IF Passive(fired) THEN tau
  ELSE sigma["nd"] - Elapsed("nd", t_next, fired)

\* Mutant of AnswerAdvance: a model that has just fired does not fire again.
AnswerAdvanceOnce(m, fired) ==
  IF m \in fired THEN INF ELSE IF Received(m, fired) THEN 0 ELSE sigma[m]

\* wsum and hc answer an input at once.
AnswerAdvance(m, fired) ==
  IF Received(m, fired) THEN 0 ELSE IF m \in fired THEN INF ELSE sigma[m]

\* What there is to choose: when an integrator that fired or received fires next,
\* how long the network delays a sample, what an integrator puts out.
Choices(m, fired) ==
  IF m \in fired \/ Received(m, fired) THEN IntAdvances ELSE {sigma[m]}
Delays(fired) ==
  IF Received("nd", fired) /\ Passive(fired) THEN 0 .. tau_max ELSE {0}
Outputs(m, fired) == IF m \in fired THEN Quanta ELSE {out[m]}

Advances(t_next, fired, a1, a2, tau) ==
  [int1 |-> a1, int2 |-> a2, sen |-> SensorAdvance(t_next, fired),
   nd |-> NirdAdvance(t_next, fired, tau),
   wsum |-> AnswerAdvance("wsum", fired), hc |-> AnswerAdvance("hc", fired)]

\* The values that travel with the outputs; sen and nd put out what they held
\* before.
Route(t_next, fired, q1, q2) ==
  /\ out' = [int1 |-> q1, int2 |-> q2]
  /\ sen' = IF "int1" \in fired THEN q1 ELSE sen
  /\ u1' = IF "int2" \in fired THEN q2 ELSE u1
  /\ u2' = IF "wsum" \in fired THEN sum ELSE u2
  /\ nd' = IF "sen" \in fired /\ Passive(fired) THEN [y |-> sen, taken |-> t_next] ELSE nd
  /\ hc' = IF "nd" \in fired THEN nd ELSE hc
  /\ sum' = [u  |-> IF "hc" \in fired THEN REF - hc.y ELSE sum.u,
             x2 |-> IF "int2" \in fired THEN q2 ELSE sum.x2]
  /\ samples' = IF "sen" \in fired THEN samples + 1 ELSE samples

Iterate(t_next, fired) ==
  /\ \E q1 \in Outputs("int1", fired), q2 \in Outputs("int2", fired) :
       Route(t_next, fired, q1, q2)
  /\ \E a1 \in Choices("int1", fired), a2 \in Choices("int2", fired), tau \in Delays(fired) :
       sigma' = Advances(t_next, fired, a1, a2, tau)
  /\ t' = [m \in Models |-> IF m \in fired \/ Received(m, fired)
                            THEN At(t_next, sigma'[m]) ELSE t[m]]
  /\ last' = [m \in Models |-> LastTransition(m, t_next, fired)]
  /\ clock' = [m \in Models |->
                 clock[m] + (IF m \in fired THEN sigma[m] ELSE 0)
                   + (IF Received(m, fired) THEN Elapsed(m, t_next, fired) ELSE 0)]
  /\ now' = t_next
  /\ UNCHANGED tau_max

Earliest(time) == (\A m \in Models : time <= t[m]) /\ (\E m \in Models : t[m] = time)

Next == \E t_next \in 0 .. TEnd - 1 :
          Earliest(t_next) /\ Iterate(t_next, {m \in Models : t[m] = t_next})

Spec == Init /\ [][Next]_vars

-----------------------------------------------------------------------------
\* Every variable holds values of its type.
TypeOK ==
  /\ tau_max \in TauMaxes /\ now \in Time
  /\ t \in [Models -> Time] /\ last \in [Models -> Time]
  /\ sigma \in [Models -> Time] /\ clock \in [Models -> Time]
  /\ sen \in Quanta /\ nd \in Sample /\ hc \in Sample
  /\ u1 \in Quanta
  /\ sum \in [u : Int, x2 : Quanta] /\ u2 \in [u : Int, x2 : Quanta]
  /\ out \in [int1 : Quanta, int2 : Quanta]
  /\ samples \in Nat

\* "ELAPSED-TIME CONVENTION": a model is scheduled where its own sigma puts it
\* after its last transition, and the times it was told to pass sum up to that
\* transition, none twice; so the sensor takes its k-th sample at k * H,
\* whatever reaches it in between.
TimesAgree ==
  /\ \A m \in Models : t[m] = At(last[m], sigma[m]) /\ clock[m] = last[m]
  /\ t["sen"] = (samples + 1) * H

\* Whenever time moves on, every model works with the last output of its
\* sources: nothing that happened at one instant is left behind, in whatever
\* order the loop took it.
InputsAgree ==
  (\A m \in Models : now < t[m]) =>
    /\ sen = out.int1 /\ u1 = out.int2
    /\ sum = [u |-> REF - hc.y, x2 |-> out.int2]
    /\ u2 = sum

\* The controller never works with a sample older than a period and two delays,
\* although samples are dropped while the buffer is full; and no older than a
\* period and one delay when a delay fits into a period, as in the experiment.
MeasurementAge ==
  /\ now - hc.taken < H + 2 * tau_max
  /\ tau_max <= H => now - hc.taken <= H + tau_max
=============================================================================
