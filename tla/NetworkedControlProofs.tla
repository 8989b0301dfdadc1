------------------------ MODULE NetworkedControlProofs ------------------------
(***************************************************************************)
(* The invariants of NetworkedControl, for every period, every set of      *)
(* delays, every integrator and every length of the run.                   *)
(***************************************************************************)
EXTENDS NetworkedControl, TLAPS

\* Nothing is overdue, and a sigma is a time or INF.
Schedule ==
  /\ \A m \in Models : last[m] <= now /\ now <= t[m] /\ sigma[m] <= INF
  /\ sigma["sen"] <= H

\* What is not up to date at this instant is about to be.
Pending ==
  /\ sen = out.int1 /\ u1 = out.int2 /\ sum.x2 = out.int2
  /\ sum.u # REF - hc.y => t["hc"] = now
  /\ u2 # sum => t["wsum"] = now

\* The sample of the controller, the one in the buffer and the next one follow
\* one another; what is dropped is older than what the buffer still delays.
Ages ==
  /\ hc.taken <= now
  /\ sigma["nd"] = INF =>
       /\ t["sen"] < hc.taken + tau_max + H
       /\ tau_max <= H => t["sen"] <= hc.taken + H
  /\ sigma["nd"] # INF =>
       /\ nd.taken <= now /\ t["nd"] <= nd.taken + tau_max
       /\ nd.taken < hc.taken + tau_max + H
       /\ t["sen"] < t["nd"] + H \/ t["sen"] = nd.taken + H
       /\ tau_max <= H => nd.taken <= hc.taken + H /\ t["sen"] = nd.taken + H

IInv == TypeOK /\ TimesAgree /\ Schedule /\ Pending /\ Ages

\* The models start in step, with the controller's first output due.
LEMMA InitInv == Init => IInv
<1> SUFFICES ASSUME Init PROVE IInv
  OBVIOUS
<1> USE ControlAssumption DEF Init, Models, Time
<1>1. tau_max \in Nat /\ tau_max > 0 /\ INF > H
  OBVIOUS
<1>2. TypeOK
  BY DEF TypeOK, Sample
<1>3. TimesAgree
  <2>1. \A m \in Models : t[m] = At(last[m], sigma[m]) /\ clock[m] = last[m]
    BY <1>1 DEF At
  <2>2. t["sen"] = (samples + 1) * H
    OBVIOUS
  <2> QED BY <2>1, <2>2 DEF TimesAgree
<1>4. Schedule
  BY <1>1 DEF Schedule
<1>5. Pending
  BY DEF Pending
<1>6. Ages
  BY <1>1 DEF Ages
<1> QED BY <1>2, <1>3, <1>4, <1>5, <1>6 DEF IInv

\* A step that does not run the loop changes nothing.
LEMMA StutterInv == IInv /\ UNCHANGED vars => IInv'
BY DEF IInv, vars, TypeOK, TimesAgree, Schedule, Pending, Ages

\* What every iteration does to the times of every model.
LEMMA IterationTimes ==
  ASSUME IInv, NEW t_next \in 0 .. TEnd - 1, NEW fired \in SUBSET Models,
         fired = {m \in Models : t[m] = t_next}, Earliest(t_next), Iterate(t_next, fired)
  PROVE  /\ t_next \in Nat /\ t_next < INF /\ now <= t_next /\ now' = t_next
         /\ \A m \in Models : t_next <= t[m]
         /\ \A m \in fired : sigma[m] # INF /\ last[m] + sigma[m] = t_next
         /\ \A m \in Models : sigma'[m] \in Nat /\ sigma'[m] <= INF
         /\ \A m \in Models : m \in fired \/ Received(m, fired) \/ sigma'[m] = sigma[m]
         /\ sigma'["sen"] <= H
         /\ "sen" \in fired => sigma'["sen"] = H
         /\ "sen" \notin fired /\ Received("sen", fired) => At(t_next, sigma'["sen"]) = t["sen"]
<1> USE ControlAssumption
<1>1. /\ t_next \in Nat /\ t_next < INF /\ now <= t_next /\ now' = t_next
      /\ \A m \in Models : t_next <= t[m]
  BY DEF IInv, TypeOK, Schedule, Earliest, Iterate, Time, Models
<1>2. \A m \in fired : sigma[m] # INF /\ last[m] + sigma[m] = t_next
  BY <1>1 DEF IInv, TypeOK, TimesAgree, At, Time
<1>3. \A m \in Models : /\ m \in fired => Elapsed(m, t_next, fired) = 0
                        /\ m \notin fired => Elapsed(m, t_next, fired) = t_next - last[m]
                        /\ Elapsed(m, t_next, fired) \in Nat
  BY <1>1 DEF Elapsed, IInv, TypeOK, Schedule, Time
<1>4. \A m \in Models : m \notin fired /\ sigma[m] # INF =>
        /\ sigma[m] - Elapsed(m, t_next, fired) \in Nat
        /\ sigma[m] - Elapsed(m, t_next, fired) < INF
        /\ At(t_next, sigma[m] - Elapsed(m, t_next, fired)) = t[m]
  BY <1>1, <1>3 DEF At, IInv, TypeOK, TimesAgree, Schedule, Time
<1>5. PICK a1 \in Choices("int1", fired), a2 \in Choices("int2", fired), tau \in Delays(fired) :
        sigma' = Advances(t_next, fired, a1, a2, tau)
  BY DEF Iterate
<1>6. /\ sigma'["int1"] = a1 /\ sigma'["int2"] = a2
      /\ sigma'["sen"] = SensorAdvance(t_next, fired) /\ sigma'["nd"] = NirdAdvance(t_next, fired, tau)
      /\ sigma'["wsum"] = AnswerAdvance("wsum", fired) /\ sigma'["hc"] = AnswerAdvance("hc", fired)
  BY <1>5 DEF Advances
<1>7. \A m \in Models : sigma[m] \in Nat /\ sigma[m] <= INF
  BY DEF IInv, TypeOK, Schedule, Time
<1>8. \A m \in {"int1", "int2"} : /\ sigma'[m] \in Nat /\ sigma'[m] <= INF
                                  /\ m \in fired \/ Received(m, fired) \/ sigma'[m] = sigma[m]
  BY <1>6, <1>7 DEF Choices, Models
<1>9. \A m \in {"wsum", "hc"} : /\ sigma'[m] \in Nat /\ sigma'[m] <= INF
                                /\ m \in fired \/ Received(m, fired) \/ sigma'[m] = sigma[m]
  BY <1>6, <1>7 DEF AnswerAdvance, Models
<1>10. /\ sigma'["nd"] \in Nat /\ sigma'["nd"] <= INF
       /\ "nd" \in fired \/ Received("nd", fired) \/ sigma'["nd"] = sigma["nd"]
  <2>1. tau \in Nat /\ tau < INF
    BY DEF Delays, IInv, TypeOK
  <2>2. "nd" \in Models
    BY DEF Models
  <2> QED BY <1>4, <1>6, <1>7, <2>1, <2>2 DEF NirdAdvance, Passive
<1>11. /\ sigma'["sen"] \in Nat /\ sigma'["sen"] <= H /\ H < INF
       /\ "sen" \in fired \/ Received("sen", fired) \/ sigma'["sen"] = sigma["sen"]
       /\ "sen" \in fired => sigma'["sen"] = H
       /\ "sen" \notin fired /\ Received("sen", fired) => At(t_next, sigma'["sen"]) = t["sen"]
  <2>1. "sen" \in Models /\ sigma["sen"] <= H /\ H < INF /\ H \in Nat
    BY DEF Models, IInv, Schedule, TypeOK
  <2> QED BY <1>3, <1>4, <1>6, <1>7, <2>1 DEF SensorAdvance
<1> QED BY <1>1, <1>2, <1>8, <1>9, <1>10, <1>11 DEF Models

\* Times stay in step: a model that fires passes its sigma, one that only
\* receives passes what has elapsed, and both are then at t_next.
LEMMA TimesStep ==
  ASSUME IInv, NEW t_next \in 0 .. TEnd - 1, NEW fired \in SUBSET Models,
         fired = {m \in Models : t[m] = t_next}, Earliest(t_next), Iterate(t_next, fired)
  PROVE  TimesAgree' /\ Schedule' /\ (t \in [Models -> Time])' /\ (last \in [Models -> Time])'
           /\ (clock \in [Models -> Time])' /\ (samples \in Nat)'
<1> USE ControlAssumption
<1>1. /\ t_next \in Nat /\ t_next < INF /\ now <= t_next /\ now' = t_next
      /\ \A m \in Models : t_next <= t[m]
      /\ \A m \in fired : sigma[m] # INF /\ last[m] + sigma[m] = t_next
      /\ \A m \in Models : sigma'[m] \in Nat /\ sigma'[m] <= INF
      /\ \A m \in Models : m \in fired \/ Received(m, fired) \/ sigma'[m] = sigma[m]
      /\ sigma'["sen"] <= H
      /\ "sen" \in fired => sigma'["sen"] = H
      /\ "sen" \notin fired /\ Received("sen", fired) => At(t_next, sigma'["sen"]) = t["sen"]
  BY IterationTimes
<1>2. \A m \in Models :
        /\ t[m] = At(last[m], sigma[m]) /\ clock[m] = last[m] /\ last[m] <= now
        /\ t[m] \in Nat /\ last[m] \in Nat /\ sigma[m] \in Nat /\ sigma[m] <= INF
  BY DEF IInv, TypeOK, TimesAgree, Schedule, Time
<1>3. /\ t' = [m \in Models |-> IF m \in fired \/ Received(m, fired) THEN At(t_next, sigma'[m]) ELSE t[m]]
      /\ last' = [m \in Models |-> LastTransition(m, t_next, fired)]
      /\ clock' = [m \in Models |->
                     clock[m] + (IF m \in fired THEN sigma[m] ELSE 0)
                       + (IF Received(m, fired) THEN Elapsed(m, t_next, fired) ELSE 0)]
      /\ samples' = IF "sen" \in fired THEN samples + 1 ELSE samples
  BY DEF Iterate, Route
<1>4. \A m \in Models :
        /\ t'[m] = At(last'[m], sigma'[m]) /\ last'[m] <= t_next /\ t_next <= t'[m]
        /\ t'[m] \in Nat /\ last'[m] \in Nat
  <2> TAKE m \in Models
  <2>1. CASE m \in fired \/ Received(m, fired)
    <3>1. t'[m] = At(t_next, sigma'[m]) /\ last'[m] = t_next
      BY <1>3, <2>1 DEF LastTransition
    <3>2. At(t_next, sigma'[m]) \in Nat /\ t_next <= At(t_next, sigma'[m])
      BY <1>1 DEF At
    <3> QED BY <1>1, <3>1, <3>2
  <2>2. CASE ~(m \in fired \/ Received(m, fired))
    <3>1. t'[m] = t[m] /\ last'[m] = last[m] /\ sigma'[m] = sigma[m]
      BY <1>1, <1>3, <2>2 DEF LastTransition
    <3>2. last[m] <= now /\ t[m] \in Nat /\ last[m] \in Nat /\ t_next <= t[m]
      BY <1>1, <1>2
    <3>3. last[m] <= t_next
      BY <1>1, <3>2 DEF IInv, TypeOK, Time
    <3>4. t[m] = At(last[m], sigma[m])
      BY <1>2
    <3> QED BY <3>1, <3>2, <3>3, <3>4
  <2> QED BY <2>1, <2>2
<1>5. \A m \in Models : clock'[m] = last'[m]
  <2> TAKE m \in Models
  <2>1. CASE m \in fired
    BY <1>1, <1>2, <1>3, <2>1 DEF LastTransition, Elapsed
  <2>2. CASE m \notin fired
    BY <1>1, <1>2, <1>3, <2>2 DEF LastTransition, Elapsed
  <2> QED BY <2>1, <2>2
<1>6. t["sen"] = (samples + 1) * H /\ samples \in Nat /\ H \in Nat /\ "sen" \in Models
  BY DEF IInv, TypeOK, TimesAgree, Models
<1>7. t'["sen"] = (samples' + 1) * H
  <2>1. CASE "sen" \in fired
    <3>1. t["sen"] = t_next /\ t'["sen"] = t_next + H
      <4>1. H # INF
        BY DEF IInv, TypeOK
      <4> QED BY <1>1, <1>3, <1>6, <2>1, <4>1 DEF At
    <3>2. \A n \in Nat : (n + 1 + 1) * H = (n + 1) * H + H
      BY <1>6
    <3> QED BY <1>3, <1>6, <2>1, <3>1, <3>2
  <2>2. CASE "sen" \notin fired
    <3>1. t'["sen"] = t["sen"]
      BY <1>1, <1>3, <1>6, <2>2
    <3> QED BY <1>3, <1>6, <2>2, <3>1
  <2> QED BY <2>1, <2>2
<1>8. (t \in [Models -> Time])' /\ (last \in [Models -> Time])' /\ (clock \in [Models -> Time])'
  BY <1>3, <1>4, <1>5 DEF Time
<1>9. (samples \in Nat)'
  BY <1>3, <1>6
<1> QED BY <1>1, <1>4, <1>5, <1>7, <1>8, <1>9 DEF TimesAgree, Schedule

\* The values that travel keep their types.
LEMMA ValuesStep ==
  ASSUME IInv, NEW t_next \in 0 .. TEnd - 1, NEW fired \in SUBSET Models, Iterate(t_next, fired)
  PROVE  /\ (sen \in Quanta)' /\ (nd \in Sample)' /\ (hc \in Sample)' /\ (u1 \in Quanta)'
         /\ (sum \in [u : Int, x2 : Quanta])' /\ (u2 \in [u : Int, x2 : Quanta])'
         /\ (out \in [int1 : Quanta, int2 : Quanta])'
<1> USE ControlAssumption
<1>1. PICK q1 \in Outputs("int1", fired), q2 \in Outputs("int2", fired) : Route(t_next, fired, q1, q2)
  BY DEF Iterate
<1>2. q1 \in Quanta /\ q2 \in Quanta
  BY DEF Outputs, IInv, TypeOK
<1>3. hc.y \in Int /\ t_next \in Time
  <2>1. hc.y \in Quanta
    BY DEF IInv, TypeOK, Sample
  <2>2. Quanta \subseteq Int
    OBVIOUS
  <2>3. t_next \in Nat
    OBVIOUS
  <2> QED BY <2>1, <2>2, <2>3 DEF Time
<1>4. (sen \in Quanta)' /\ (u1 \in Quanta)' /\ (out \in [int1 : Quanta, int2 : Quanta])'
  BY <1>1, <1>2 DEF Route, IInv, TypeOK
<1>5. (nd \in Sample)' /\ (hc \in Sample)'
  BY <1>1, <1>3 DEF Route, IInv, TypeOK, Sample
<1>6. (sum \in [u : Int, x2 : Quanta])' /\ (u2 \in [u : Int, x2 : Quanta])'
  BY <1>1, <1>2, <1>3 DEF Route, IInv, TypeOK, REF
<1> QED BY <1>4, <1>5, <1>6

\* wsum and hc, when an output reaches them, are scheduled for this instant.
LEMMA AnswerStep ==
  ASSUME IInv, NEW t_next \in 0 .. TEnd - 1, NEW fired \in SUBSET Models, Iterate(t_next, fired),
         NEW m \in {"wsum", "hc"}, Received(m, fired)
  PROVE  t'[m] = now'
<1> USE ControlAssumption
<1>1. PICK a1 \in Choices("int1", fired), a2 \in Choices("int2", fired), tau \in Delays(fired) :
        sigma' = Advances(t_next, fired, a1, a2, tau)
  BY DEF Iterate
<1>2. sigma'[m] = 0
  BY <1>1 DEF Advances, AnswerAdvance
<1>3. t'[m] = At(t_next, sigma'[m]) /\ now' = t_next
  BY DEF Iterate, Models
<1>4. INF # 0 /\ t_next \in Nat
  BY DEF IInv, TypeOK
<1> QED BY <1>2, <1>3, <1>4 DEF At

\* A model that has not the last output of its source is scheduled for now.
LEMMA PendingStep ==
  ASSUME IInv, NEW t_next \in 0 .. TEnd - 1, NEW fired \in SUBSET Models,
         fired = {m \in Models : t[m] = t_next}, Earliest(t_next), Iterate(t_next, fired)
  PROVE  Pending'
<1>1. PICK q1 \in Outputs("int1", fired), q2 \in Outputs("int2", fired) : Route(t_next, fired, q1, q2)
  BY DEF Iterate
<1>2. /\ now <= t_next /\ t_next <= t["hc"] /\ t_next <= t["wsum"]
      /\ now \in Nat /\ t_next \in Nat /\ {"hc", "wsum"} \subseteq Models
  BY IterationTimes DEF Models, IInv, TypeOK, Time
<1>3. sum \in [u : Int, x2 : Quanta] /\ u2 \in [u : Int, x2 : Quanta]
  BY DEF IInv, TypeOK
<1>4. (sen = out.int1 /\ u1 = out.int2 /\ sum.x2 = out.int2)'
  BY <1>1 DEF Route, Outputs, IInv, Pending, TypeOK
<1>5. (sum.u # REF - hc.y => t["hc"] = now)'
  <2>1. CASE "nd" \in fired
    BY <2>1, AnswerStep DEF Received, Sources
  <2>2. CASE "nd" \notin fired
    <3>1. hc' = hc /\ sum'.u = IF "hc" \in fired THEN REF - hc.y ELSE sum.u
      BY <1>1, <2>2 DEF Route
    <3>2. "hc" \notin fired => sum.u = REF - hc.y
      BY <1>2 DEF IInv, Pending
    <3> QED BY <3>1, <3>2
  <2> QED BY <2>1, <2>2
<1>6. (u2 # sum => t["wsum"] = now)'
  <2>1. CASE "int2" \in fired \/ "hc" \in fired
    BY <2>1, AnswerStep DEF Received, Sources
  <2>2. CASE "int2" \notin fired /\ "hc" \notin fired
    <3>1. sum' = sum /\ u2' = IF "wsum" \in fired THEN sum ELSE u2
      BY <1>1, <1>3, <2>2 DEF Route
    <3>2. "wsum" \notin fired => u2 = sum
      BY <1>2 DEF IInv, Pending
    <3> QED BY <3>1, <3>2
  <2> QED BY <2>1, <2>2
<1> QED BY <1>4, <1>5, <1>6 DEF Pending

\* The ages of the samples after an iteration, by whether the buffer was full,
\* whether it is released, and whether a sample is taken.
LEMMA AgesStep ==
  ASSUME IInv, NEW t_next \in 0 .. TEnd - 1, NEW fired \in SUBSET Models,
         fired = {m \in Models : t[m] = t_next}, Earliest(t_next), Iterate(t_next, fired),
         TypeOK', TimesAgree', Schedule'
  PROVE  Ages'
<1> USE ControlAssumption
<1>1. /\ t_next \in Nat /\ t_next < INF /\ now <= t_next /\ now' = t_next /\ now \in Nat
      /\ t_next <= t["sen"] /\ t_next <= t["nd"] /\ t["sen"] \in Nat /\ t["nd"] \in Nat
      /\ "sen" \in fired <=> t["sen"] = t_next
      /\ "nd" \in fired <=> t["nd"] = t_next
      /\ "nd" \in fired => sigma["nd"] # INF
      /\ {"sen", "nd"} \subseteq Models
  BY IterationTimes DEF Models, IInv, TypeOK, Time
<1>2. /\ H \in Nat /\ H > 0 /\ tau_max \in Nat /\ tau_max > 0 /\ tau_max < INF /\ tau_max' = tau_max
      /\ hc.taken \in Nat /\ nd.taken \in Nat
  BY DEF Iterate, IInv, TypeOK, Sample, Time
<1>3. PICK a1 \in Choices("int1", fired), a2 \in Choices("int2", fired), tau \in Delays(fired) :
        sigma' = Advances(t_next, fired, a1, a2, tau)
  BY DEF Iterate
<1>4. /\ sigma'["nd"] = NirdAdvance(t_next, fired, tau)
      /\ Received("nd", fired) <=> "sen" \in fired
      /\ hc' = IF "nd" \in fired THEN nd ELSE hc
      /\ nd' = IF "sen" \in fired /\ Passive(fired) THEN [y |-> sen, taken |-> t_next] ELSE nd
      /\ samples' = IF "sen" \in fired THEN samples + 1 ELSE samples
  BY <1>3 DEF Advances, Received, Sources, Iterate, Route
<1>5. /\ "sen" \in fired => t'["sen"] = t_next + H
      /\ "sen" \notin fired => t'["sen"] = t["sen"]
  <2>1. t["sen"] = (samples + 1) * H /\ t'["sen"] = (samples' + 1) * H /\ samples \in Nat
    BY DEF IInv, TypeOK, TimesAgree
  <2>2. (samples + 1 + 1) * H = (samples + 1) * H + H
    BY <1>2, <2>1
  <2> QED BY <1>1, <1>4, <2>1, <2>2
<1>6. t'["nd"] = IF "nd" \in fired \/ "sen" \in fired THEN At(t_next, sigma'["nd"]) ELSE t["nd"]
  BY <1>1, <1>4 DEF Iterate
<1>7. /\ hc.taken <= now
      /\ sigma["nd"] = INF =>
           /\ t["sen"] < hc.taken + tau_max + H
           /\ tau_max <= H => t["sen"] <= hc.taken + H
      /\ sigma["nd"] # INF =>
           /\ nd.taken <= now /\ t["nd"] <= nd.taken + tau_max
           /\ nd.taken < hc.taken + tau_max + H
           /\ t["sen"] < t["nd"] + H \/ t["sen"] = nd.taken + H
           /\ tau_max <= H => nd.taken <= hc.taken + H /\ t["sen"] = nd.taken + H
  BY DEF IInv, Ages
<1>8. CASE "sen" \in fired /\ Passive(fired)
  <2>1. nd'.taken = t_next /\ sigma'["nd"] = tau /\ tau \in 0 .. tau_max
    BY <1>4, <1>8 DEF NirdAdvance, Delays
  <2>2. sigma'["nd"] # INF /\ t'["nd"] = t_next + tau /\ t'["sen"] = t_next + H
    BY <1>1, <1>2, <1>5, <1>6, <1>8, <2>1 DEF At
  <2>3. t_next < hc'.taken + tau_max + H /\ (tau_max <= H => t_next <= hc'.taken + H) /\ hc'.taken <= t_next
    BY <1>1, <1>2, <1>4, <1>7, <1>8 DEF Passive
  <2> QED BY <1>1, <1>2, <2>1, <2>2, <2>3 DEF Ages
<1>9. CASE "sen" \in fired /\ ~Passive(fired)
  <2>1. sigma["nd"] # INF /\ "nd" \notin fired /\ t_next < t["nd"] /\ nd' = nd /\ hc' = hc
    BY <1>1, <1>4, <1>9 DEF Passive
  <2>2. sigma'["nd"] = sigma["nd"] - (t_next - last["nd"])
    BY <1>4, <1>9, <2>1 DEF NirdAdvance, Elapsed
  <2>3. /\ t["nd"] = last["nd"] + sigma["nd"] /\ last["nd"] \in Nat /\ last["nd"] <= now
        /\ sigma["nd"] \in Nat /\ sigma["nd"] <= INF
    BY <1>1, <2>1 DEF IInv, TypeOK, TimesAgree, Schedule, At, Time
  <2>4. sigma'["nd"] # INF /\ t'["nd"] = t["nd"] /\ t'["sen"] = t_next + H
    BY <1>1, <1>5, <1>6, <1>9, <2>1, <2>2, <2>3 DEF At
  <2>5. tau_max > H
    BY <1>1, <1>2, <1>7, <1>9, <2>1
  <2> QED BY <1>1, <1>2, <1>7, <2>1, <2>4, <2>5 DEF Ages
<1>10. CASE "sen" \notin fired /\ "nd" \in fired
  <2>1. sigma'["nd"] = INF /\ hc' = nd /\ t'["sen"] = t["sen"]
    BY <1>4, <1>5, <1>10 DEF NirdAdvance
  <2> QED BY <1>1, <1>2, <1>7, <1>10, <2>1 DEF Ages
<1>11. CASE "sen" \notin fired /\ "nd" \notin fired
  <2>1. sigma'["nd"] = sigma["nd"] /\ hc' = hc /\ nd' = nd /\ t'["sen"] = t["sen"] /\ t'["nd"] = t["nd"]
    BY <1>4, <1>5, <1>6, <1>11 DEF NirdAdvance
  <2> QED BY <1>1, <1>2, <1>7, <2>1 DEF Ages
<1> QED BY <1>8, <1>9, <1>10, <1>11

\* Every iteration of the loop preserves the invariant.
LEMMA StepInv == IInv /\ [Next]_vars => IInv'
<1> SUFFICES ASSUME IInv, Next PROVE IInv'
  BY StutterInv
<1>1. PICK t_next \in 0 .. TEnd - 1 :
        Earliest(t_next) /\ Iterate(t_next, {m \in Models : t[m] = t_next})
  BY DEF Next
<1>2. PICK fired \in SUBSET Models :
        fired = {m \in Models : t[m] = t_next} /\ Earliest(t_next) /\ Iterate(t_next, fired)
  BY <1>1
<1>3. TimesAgree' /\ Schedule' /\ (t \in [Models -> Time])' /\ (last \in [Models -> Time])'
        /\ (clock \in [Models -> Time])' /\ (samples \in Nat)'
  BY <1>2, TimesStep
<1>4. (tau_max \in TauMaxes)' /\ (now \in Time)'
  BY <1>2, IterationTimes DEF Iterate, IInv, TypeOK, Time
<1>5. (sigma \in [Models -> Time])'
  <2>1. \A m \in Models : sigma'[m] \in Nat
    BY <1>2, IterationTimes
  <2>2. PICK a1 \in Choices("int1", fired), a2 \in Choices("int2", fired), tau \in Delays(fired) :
          sigma' = Advances(t_next, fired, a1, a2, tau)
    BY <1>2 DEF Iterate
  <2>3. sigma' = [m \in Models |-> sigma'[m]]
    BY <2>2 DEF Advances, Models
  <2> QED BY <2>1, <2>3 DEF Time
<1>6. TypeOK'
  BY <1>2, <1>3, <1>4, <1>5, ValuesStep DEF TypeOK
<1>7. Pending'
  BY <1>2, PendingStep
<1>8. Ages'
  BY <1>2, <1>3, <1>6, AgesStep
<1> QED BY <1>3, <1>6, <1>7, <1>8 DEF IInv

\* The inductive invariant holds throughout a run.
THEOREM Invariance == Spec => []IInv
BY InitInv, StepInv, PTL DEF Spec

\* Every variable of the experiment holds values of its type, whatever the
\* integrators and the network choose.
THEOREM TypeCorrect == Spec => []TypeOK
BY Invariance, PTL DEF IInv

\* The elapsed-time convention of run_once, for every period: no model is told
\* twice to pass the same time, and the sensor keeps its period.
THEOREM ModelsKeepTime == Spec => []TimesAgree
BY Invariance, PTL DEF IInv

\* Whenever time moves on, every model works with the last output of its
\* sources.
THEOREM InputsUpToDate == Spec => []InputsAgree
<1>1. IInv => InputsAgree
  <2> SUFFICES ASSUME IInv, \A m \in Models : now < t[m]
               PROVE  /\ sen = out.int1 /\ u1 = out.int2
                      /\ sum = [u |-> REF - hc.y, x2 |-> out.int2] /\ u2 = sum
    BY DEF InputsAgree
  <2>1. t["hc"] # now /\ t["wsum"] # now
    BY DEF Models, IInv, TypeOK, Time
  <2>2. sen = out.int1 /\ u1 = out.int2 /\ sum.x2 = out.int2 /\ sum.u = REF - hc.y /\ u2 = sum
    BY <2>1 DEF IInv, Pending
  <2>3. sum = [u |-> sum.u, x2 |-> sum.x2]
    BY DEF IInv, TypeOK
  <2> QED BY <2>2, <2>3
<1> QED BY <1>1, Invariance, PTL

\* How old the sample is that the controller works with, for every period and
\* every longest delay.
THEOREM SamplesAreFresh == Spec => []MeasurementAge
<1>1. IInv => MeasurementAge
  <2> SUFFICES ASSUME IInv PROVE MeasurementAge
    OBVIOUS
  <2>1. /\ now \in Nat /\ now <= t["sen"] /\ now <= t["nd"] /\ t["sen"] \in Nat /\ t["nd"] \in Nat
        /\ H \in Nat /\ tau_max \in Nat /\ hc.taken \in Nat /\ nd.taken \in Nat
    BY ControlAssumption DEF IInv, TypeOK, Schedule, Models, Sample, Time
  <2>2. CASE sigma["nd"] = INF
    BY <2>1, <2>2 DEF IInv, Ages, MeasurementAge
  <2>3. CASE sigma["nd"] # INF
    BY <2>1, <2>3 DEF IInv, Ages, MeasurementAge
  <2> QED BY <2>2, <2>3
<1> QED BY <1>1, Invariance, PTL
=============================================================================
