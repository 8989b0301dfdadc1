------------------------- MODULE LossyChannelProofs -------------------------
(***************************************************************************)
(* What the stochastic channel promises, for every set of service times,   *)
(* delay and range of jitter: although frames overtake one another and     *)
(* the channel searches its queue for the one to emit, the times that      *)
(* remain, aged together, add up to the absolute schedule of               *)
(* TimedChannel, and a frame overtakes another by no more than the range   *)
(* of the jitter.  That every frame is delivered in the end is liveness    *)
(* and left to the runs.                                                   *)
(***************************************************************************)
EXTENDS LossyChannel, TLAPS, FiniteNatSets

-----------------------------------------------------------------------------
(* The invariant: types, and numbers that identify the frames.               *)

\* Frames are queued in the order of their numbers, and none has a number yet
\* to come.
Numbered ==
  /\ \A i \in DOMAIN pending : pending[i].number <= arrivals
  /\ \A i, j \in DOMAIN pending : i < j => pending[i].number < pending[j].number

IInv == TypeOK /\ Numbered

\* What ageing does to a remaining time: it stays a natural number, and a
\* positive one loses a tick (Less).
LEMMA LessOfNat ==
  ASSUME NEW rem \in Nat
  PROVE  /\ Less(rem) \in Nat
         /\ Less(rem) >= rem - 1
         /\ rem > 0 => Less(rem) = rem - 1
         /\ rem = 0 => Less(rem) = 0
  BY DEF Less

\* The bounds and delays are natural numbers, and a draw of the jitter is one.
LEMMA DelaysAreNat ==
  /\ PropDelay \in Nat /\ MaxArrivals \in Nat
  /\ \A jitter \in JitterMin .. JitterMax : jitter \in Nat
  BY ChannelAssumption

\* A service takes time.
LEMMA ServiceTakesTime == \A service \in ServiceTimes : service \in Nat /\ service > 0
  BY ChannelAssumption

\* The fields of the frames under way (in_transit).
LEMMA FrameFields ==
  ASSUME pending \in Seq(InTransit), NEW i \in DOMAIN pending
  PROVE  /\ pending[i] \in InTransit
         /\ pending[i].number \in Nat /\ pending[i].service \in ServiceTimes
         /\ pending[i].delivery_rem \in Nat
  <1>1. pending[i] \in InTransit
    OBVIOUS
  <1> QED BY <1>1 DEF InTransit

\* The search of imminent_it finds a frame in a queue that is not empty, and
\* no other has less time left.
LEMMA ImminentExists ==
  ASSUME pending \in Seq(InTransit), pending # <<>>
  PROVE  /\ imminent_it \in DOMAIN pending
         /\ \A j \in DOMAIN pending :
              pending[imminent_it].delivery_rem <= pending[j].delivery_rem
  <1> DEFINE rems  == {pending[i].delivery_rem : i \in DOMAIN pending}
             Least(i) == \A j \in DOMAIN pending : pending[i].delivery_rem <= pending[j].delivery_rem
             least == {i \in DOMAIN pending : Least(i)}
  <1>1. \A i \in DOMAIN pending : i \in Nat /\ i > 0 /\ pending[i].delivery_rem \in Nat
    BY FrameFields
  <1>2. Len(pending) \in Nat /\ DOMAIN pending = 1 .. Len(pending) /\ DOMAIN pending # {}
    OBVIOUS
  <1>3. PICK r \in rems : \A q \in rems : r <= q
    <2>1. rems \subseteq Nat /\ rems # {}
      BY <1>1, <1>2
    <2> HIDE DEF rems
    <2> QED BY <2>1, LeastElement
  <1>4. least # {}
    BY <1>3
  <1>5. PICK i \in least : \A j \in least : i <= j
    <2>1. least \subseteq Nat
      BY <1>1
    <2> HIDE DEF least
    <2> QED BY <1>4, <2>1, LeastElement
  <1>6. i \in DOMAIN pending /\ Least(i)
    OBVIOUS
  <1>7. ASSUME NEW j \in 1 .. i - 1
        PROVE  pending[i].delivery_rem < pending[j].delivery_rem
    <2>1. j \in DOMAIN pending /\ j < i
      BY <1>2, <1>6
    <2>2. j \notin least
      BY <1>1, <1>5, <1>6, <2>1
    <2>3. PICK k \in DOMAIN pending : ~(pending[j].delivery_rem <= pending[k].delivery_rem)
      BY <2>1, <2>2
    <2>4. pending[i].delivery_rem <= pending[k].delivery_rem
      BY <1>6, <2>3
    <2> QED BY <1>1, <1>6, <2>1, <2>3, <2>4
  <1>8. \E n \in DOMAIN pending :
          /\ \A j \in DOMAIN pending : pending[n].delivery_rem <= pending[j].delivery_rem
          /\ \A j \in 1 .. n - 1 : pending[n].delivery_rem < pending[j].delivery_rem
    BY <1>6, <1>7
  <1> QED BY <1>8 DEF imminent_it

\* A frame leaves the middle of the queue: those behind it move up.
LEMMA RemovedAt ==
  ASSUME NEW S, NEW s \in Seq(S), NEW k \in DOMAIN s
  PROVE  /\ RemoveAt(s, k) \in Seq(S)
         /\ DOMAIN RemoveAt(s, k) = 1 .. Len(s) - 1
         /\ \A i \in 1 .. Len(s) - 1 :
              RemoveAt(s, k)[i] = IF i < k THEN s[i] ELSE s[i + 1]
  <1> DEFINE front == SubSeq(s, 1, k - 1)
             back  == SubSeq(s, k + 1, Len(s))
  <1>1. k \in Nat /\ k >= 1 /\ k <= Len(s) /\ Len(s) \in Nat
    OBVIOUS
  <1>2. front \in Seq(S) /\ Len(front) = k - 1 /\ \A i \in 1 .. k - 1 : front[i] = s[i]
    BY <1>1
  <1>3. /\ back \in Seq(S) /\ Len(back) = Len(s) - k
        /\ \A i \in 1 .. Len(s) - k : back[i] = s[k + i]
    BY <1>1
  <1> HIDE DEF front, back
  <1>4. RemoveAt(s, k) = front \o back
    BY DEF RemoveAt, front, back
  <1>5. front \o back \in Seq(S) /\ Len(front \o back) = Len(s) - 1
    BY <1>1, <1>2, <1>3
  <1>6. ASSUME NEW i \in 1 .. Len(s) - 1
        PROVE  (front \o back)[i] = IF i < k THEN s[i] ELSE s[i + 1]
    <2>1. CASE i < k
      BY <1>1, <1>2, <1>3, <2>1
    <2>2. CASE ~(i < k)
      <3>1. (front \o back)[i] = back[i - (k - 1)]
        BY <1>1, <1>2, <1>3, <2>2
      <3>2. i - (k - 1) \in 1 .. Len(s) - k /\ k + (i - (k - 1)) = i + 1
        BY <1>1, <2>2
      <3> QED BY <1>3, <2>2, <3>1, <3>2
    <2> QED BY <2>1, <2>2
  <1> QED BY <1>4, <1>5, <1>6

\* What the empty channel starts from is in the invariant.
LEMMA InitInv == Init => IInv
  <1> SUFFICES ASSUME Init PROVE IInv
    OBVIOUS
  <1>1. TypeOK
    BY DelaysAreNat DEF Init, TypeOK
  <1>2. DOMAIN pending = {}
    BY DEF Init
  <1> QED BY <1>1, <1>2 DEF IInv, Numbered

\* A frame that is queued keeps the invariant (external_transition).
LEMMA EnqueueInv ==
  ASSUME IInv, NEW service \in ServiceTimes, NEW jitter \in JitterMin .. JitterMax,
         Arrive(service), Enqueue(service, jitter)
  PROVE  IInv'
  <1> DEFINE frame == [number |-> arrivals + 1, service |-> service,
                       delivery_rem |-> server_free_rem + service + PropDelay + jitter]
  <1>1. service \in Nat /\ jitter \in Nat
    BY DelaysAreNat, ServiceTakesTime
  <1>2. arrivals \in Nat /\ server_free_rem \in Nat /\ arrivals < MaxArrivals /\ MaxArrivals \in Nat
    BY DelaysAreNat DEF IInv, TypeOK, Arrive
  <1>3. frame \in InTransit
    BY <1>1, <1>2, DelaysAreNat DEF InTransit
  <1>4. /\ pending' = Append(pending, frame)
        /\ arrivals' = arrivals + 1
        /\ server_free_rem' = server_free_rem + service
    BY DEF Enqueue
  <1>5. pending \in Seq(InTransit)
    BY DEF IInv, TypeOK
  <1>6. TypeOK'
    <2>1. pending' \in Seq(InTransit)
      BY <1>3, <1>4, <1>5
    <2>2. server_free_rem' \in Nat /\ arrivals' \in 0 .. MaxArrivals
      BY <1>1, <1>2, <1>4
    <2>3. ({forwarded, dropped_loss, clock} \subseteq Nat)'
      BY DEF IInv, TypeOK, Enqueue
    <2> QED BY <2>1, <2>2, <2>3 DEF TypeOK
  <1>7. frame.number = arrivals + 1
    OBVIOUS
  <1> HIDE DEF frame
  <1>8. /\ Len(pending) \in Nat /\ DOMAIN pending = 1 .. Len(pending)
        /\ DOMAIN pending' = 1 .. Len(pending) + 1
        /\ \A i \in DOMAIN pending : pending'[i] = pending[i]
        /\ pending'[Len(pending) + 1] = frame
    BY <1>4, <1>5
  <1>9. \A i \in DOMAIN pending : pending[i].number \in Nat /\ pending[i].number <= arrivals
    BY <1>5, FrameFields DEF IInv, Numbered
  <1>10. Numbered'
    <2>1. ASSUME NEW i \in DOMAIN pending' PROVE pending'[i].number <= arrivals'
      <3>1. CASE i = Len(pending) + 1
        BY <1>2, <1>4, <1>7, <1>8, <3>1
      <3>2. CASE i # Len(pending) + 1
        BY <1>2, <1>4, <1>8, <1>9, <3>2
      <3> QED BY <3>1, <3>2
    <2>2. ASSUME NEW i \in DOMAIN pending', NEW j \in DOMAIN pending', i < j
          PROVE  pending'[i].number < pending'[j].number
      <3>1. i \in DOMAIN pending
        BY <1>8, <2>2
      <3>2. CASE j = Len(pending) + 1
        BY <1>2, <1>7, <1>8, <1>9, <3>1, <3>2
      <3>3. CASE j # Len(pending) + 1
        <4>1. j \in DOMAIN pending
          BY <1>8, <3>3
        <4> QED BY <1>8, <2>2, <3>1, <4>1 DEF IInv, Numbered
      <3> QED BY <3>2, <3>3
    <2> QED BY <2>1, <2>2 DEF Numbered
  <1> QED BY <1>6, <1>10 DEF IInv

\* A lost frame changes counters only.
LEMMA DropInv ==
  ASSUME IInv, NEW service \in ServiceTimes, Arrive(service), Drop
  PROVE  IInv'
  <1>1. /\ UNCHANGED <<pending, server_free_rem, forwarded, clock>>
        /\ arrivals' = arrivals + 1 /\ arrivals < MaxArrivals
        /\ dropped_loss' = dropped_loss + 1
    BY DEF Drop, Arrive
  <1>2. TypeOK'
    BY <1>1, DelaysAreNat DEF IInv, TypeOK
  <1>3. \A i \in DOMAIN pending : pending[i].number \in Nat
    BY FrameFields DEF IInv, TypeOK
  <1>4. Numbered'
    BY <1>1, <1>3 DEF IInv, TypeOK, Numbered
  <1> QED BY <1>2, <1>4 DEF IInv

\* What a frame's departure does to the queue (internal_transition).
LEMMA ForwardFrames ==
  ASSUME IInv, Forward
  PROVE  /\ imminent_it \in DOMAIN pending
         /\ pending' \in Seq(InTransit)
         /\ Len(pending) \in Nat /\ DOMAIN pending = 1 .. Len(pending)
         /\ DOMAIN pending' = 1 .. Len(pending) - 1
         /\ \A i \in DOMAIN pending' :
              pending'[i] = IF i < imminent_it THEN pending[i] ELSE pending[i + 1]
  <1>1. pending \in Seq(InTransit) /\ pending # <<>> /\ pending' = RemoveAt(pending, imminent_it)
    BY DEF IInv, TypeOK, Forward
  <1>2. imminent_it \in DOMAIN pending
    BY <1>1, ImminentExists
  <1>3. Len(pending) \in Nat /\ DOMAIN pending = 1 .. Len(pending)
    BY <1>1
  <1> QED BY <1>1, <1>2, <1>3, RemovedAt

\* The others stay in their order.
LEMMA ForwardInv ==
  ASSUME IInv, Forward
  PROVE  IInv'
  <1>1. /\ UNCHANGED <<server_free_rem, arrivals, dropped_loss, clock>>
        /\ forwarded' = forwarded + 1
    BY DEF Forward
  <1>2. TypeOK'
    BY <1>1, ForwardFrames DEF IInv, TypeOK
  <1>3. ASSUME NEW i \in DOMAIN pending'
        PROVE  /\ i \in DOMAIN pending /\ i + 1 \in DOMAIN pending
               /\ pending'[i] = IF i < imminent_it THEN pending[i] ELSE pending[i + 1]
    BY ForwardFrames
  <1>4. \A i \in DOMAIN pending' : pending'[i].number <= arrivals'
    BY <1>1, <1>3 DEF IInv, Numbered
  <1>5. ASSUME NEW i \in DOMAIN pending', NEW j \in DOMAIN pending', i < j
        PROVE  pending'[i].number < pending'[j].number
    <2>1. i \in Nat /\ j \in Nat /\ imminent_it \in Nat
      BY ForwardFrames
    <2>2. PICK k \in {i, i + 1}, l \in {j, j + 1} :
            /\ k \in DOMAIN pending /\ l \in DOMAIN pending /\ k < l
            /\ pending'[i] = pending[k] /\ pending'[j] = pending[l]
      <3>1. CASE i < imminent_it
        <4>1. CASE j < imminent_it
          BY <1>3, <1>5, <3>1, <4>1
        <4>2. CASE ~(j < imminent_it)
          BY <1>3, <1>5, <2>1, <3>1, <4>2
        <4> QED BY <4>1, <4>2
      <3>2. CASE ~(i < imminent_it)
        BY <1>3, <1>5, <2>1, <3>2
      <3> QED BY <3>1, <3>2
    <2> QED BY <2>2 DEF IInv, Numbered
  <1>6. Numbered'
    BY <1>4, <1>5 DEF Numbered
  <1> QED BY <1>2, <1>6 DEF IInv

\* What a tick does to a frame: while the one imminent is not due, none is, so
\* each loses exactly one tick (age, time_advance).
LEMMA ElapseFrames ==
  ASSUME IInv, Elapse
  PROVE  /\ DOMAIN pending' = DOMAIN pending
         /\ pending' \in Seq(InTransit)
         /\ \A i \in DOMAIN pending :
              /\ pending[i].number \in Nat /\ pending'[i].number = pending[i].number
              /\ pending'[i].service = pending[i].service
              /\ pending[i].delivery_rem \in Nat /\ pending[i].delivery_rem > 0
              /\ pending'[i].delivery_rem = pending[i].delivery_rem - 1
  <1>1. pending \in Seq(InTransit)
    BY DEF IInv, TypeOK
  <1>2. Len(pending) \in Nat /\ DOMAIN pending = 1 .. Len(pending)
    BY <1>1
  <1>3. ASSUME NEW i \in DOMAIN pending
        PROVE  /\ pending[i] \in InTransit
               /\ pending[i].number \in Nat /\ pending[i].service \in ServiceTimes
               /\ pending[i].delivery_rem \in Nat
    BY <1>1, FrameFields
  <1>4. pending' = [i \in DOMAIN pending |-> [pending[i] EXCEPT !.delivery_rem = Less(@)]]
    BY DEF Elapse, age
  <1>5. ASSUME NEW i \in DOMAIN pending
        PROVE  /\ pending'[i] \in InTransit
               /\ pending'[i].number = pending[i].number
               /\ pending'[i].service = pending[i].service
               /\ pending'[i].delivery_rem = Less(pending[i].delivery_rem)
    <2>1. Less(pending[i].delivery_rem) \in Nat
      BY <1>3, LessOfNat
    <2>2. pending'[i] = [pending[i] EXCEPT !.delivery_rem = Less(@)]
      BY <1>4
    <2> QED BY <1>3, <2>1, <2>2 DEF InTransit
  <1>6. DOMAIN pending' = DOMAIN pending /\ pending' = [i \in 1 .. Len(pending) |-> pending'[i]]
    BY <1>2, <1>4
  <1>7. pending' \in Seq(InTransit)
    BY <1>2, <1>5, <1>6
  <1>8. ASSUME NEW i \in DOMAIN pending
        PROVE  pending[i].delivery_rem > 0
    <2>1. pending # <<>>
      BY <1>1
    <2>2. imminent_it \in DOMAIN pending /\ pending[imminent_it].delivery_rem <= pending[i].delivery_rem
      BY <1>1, <2>1, ImminentExists
    <2>3. pending[imminent_it].delivery_rem > 0
      BY <2>1 DEF Elapse, time_advance
    <2> QED BY <1>3, <2>2, <2>3
  <1> QED BY <1>3, <1>5, <1>6, <1>7, <1>8, LessOfNat

\* A tick keeps the invariant.
LEMMA ElapseInv ==
  ASSUME IInv, Elapse
  PROVE  IInv'
  <1>1. /\ server_free_rem \in Nat /\ server_free_rem' = Less(server_free_rem)
        /\ clock \in Nat /\ clock' = clock + 1
        /\ UNCHANGED <<arrivals, forwarded, dropped_loss>>
    BY DEF IInv, TypeOK, Elapse, age
  <1>2. server_free_rem' \in Nat
    BY <1>1, LessOfNat
  <1>3. TypeOK'
    <2>1. clock' \in Nat
      BY <1>1
    <2> QED BY <1>1, <1>2, <2>1, ElapseFrames DEF IInv, TypeOK
  <1>4. Numbered'
    BY <1>1, ElapseFrames DEF IInv, Numbered
  <1> QED BY <1>3, <1>4 DEF IInv

\* Every step of the channel keeps the invariant.
LEMMA StepInv == IInv /\ [Next]_vars => IInv'
  <1> SUFFICES ASSUME IInv, [Next]_vars PROVE IInv'
    OBVIOUS
  <1>1. CASE \E service \in ServiceTimes : Arrive(service)
    <2> PICK service \in ServiceTimes : Arrive(service)
      BY <1>1
    <2>1. CASE Drop
      BY <2>1, DropInv
    <2>2. CASE \E jitter \in JitterMin .. JitterMax : Enqueue(service, jitter)
      BY <2>2, EnqueueInv
    <2> QED BY <2>1, <2>2 DEF Arrive
  <1>2. CASE Forward
    BY <1>2, ForwardInv
  <1>3. CASE Elapse
    BY <1>3, ElapseInv
  <1>4. CASE UNCHANGED vars
    BY <1>4 DEF vars, IInv, TypeOK, Numbered
  <1> QED BY <1>1, <1>2, <1>3, <1>4 DEF Next

\* The invariant holds in every reachable state.
THEOREM Invariance == Spec => []IInv
  BY InitInv, StepInv, PTL DEF Spec

\* The variables of the channel always hold values of their types
\* (in_transit, state_type).
THEOREM TypeCorrect == Spec => []TypeOK
  BY Invariance, PTL DEF IInv

-----------------------------------------------------------------------------
(* The schedule.  due, as the channel has it, is a function of the frame     *)
(* numbers, which Numbered keeps apart.                                       *)

\* The due times read off the queue.
Due == [n \in {pending[i].number : i \in DOMAIN pending} |->
          clock + pending[CHOOSE i \in DOMAIN pending : pending[i].number = n].delivery_rem]

Numbers == {pending[i].number : i \in DOMAIN pending}

DueFacts ==
  /\ DOMAIN Due = Numbers
  /\ Due = [n \in Numbers |-> Due[n]]
  /\ \A i \in DOMAIN pending : Due[pending[i].number] = clock + pending[i].delivery_rem

\* Frame numbers occur once, so each frame is due when its own remaining time
\* is over.
LEMMA DueOfFrame == IInv => DueFacts
  <1> SUFFICES ASSUME IInv PROVE DueFacts
    OBVIOUS
  <1>1. DOMAIN Due = Numbers /\ Due = [n \in Numbers |-> Due[n]]
    BY DEF Due, Numbers
  <1>2. ASSUME NEW i \in DOMAIN pending
        PROVE  Due[pending[i].number] = clock + pending[i].delivery_rem
    <2> DEFINE k == CHOOSE j \in DOMAIN pending : pending[j].number = pending[i].number
    <2>1. k \in DOMAIN pending /\ pending[k].number = pending[i].number
      OBVIOUS
    <2>2. pending \in Seq(InTransit)
      BY DEF IInv, TypeOK
    <2>3. pending[i].number \in Nat /\ pending[k].number \in Nat
      BY <2>1, <2>2, FrameFields
    <2>4. i \in Nat /\ k \in Nat
      BY <2>1, <2>2
    <2>5. ~(i < k) /\ ~(k < i)
      BY <2>1, <2>3 DEF IInv, Numbered
    <2>6. k = i
      BY <2>4, <2>5
    <2>7. Due[pending[i].number] = clock + pending[k].delivery_rem
      BY DEF Due
    <2> QED BY <2>6, <2>7
  <1> QED BY <1>1, <1>2 DEF DueFacts

\* A frame that is queued is served when the server is free and due after its
\* propagation and its own jitter: Accept of the schedule (external_transition).
LEMMA EnqueueKeepsSchedule ==
  ASSUME IInv, IInv', NEW service \in ServiceTimes, NEW jitter \in JitterMin .. JitterMax,
         Arrive(service), Enqueue(service, jitter)
  PROVE  Timed!Accept(service, jitter)
  <1>1. service \in Nat /\ jitter \in Nat
    BY DelaysAreNat, ServiceTakesTime
  <1>2. server_free_rem \in Nat /\ clock \in Nat /\ arrivals \in Nat
    BY DelaysAreNat DEF IInv, TypeOK
  <1>3. pending \in Seq(InTransit)
    BY DEF IInv, TypeOK
  <1>4. /\ arrivals' = arrivals + 1 /\ clock' = clock
        /\ server_free_rem' = server_free_rem + service
        /\ pending' = Append(pending, [number |-> arrivals', service |-> service,
                                       delivery_rem |-> server_free_rem' + PropDelay + jitter])
    BY DEF Enqueue
  <1>5. /\ Len(pending) \in Nat /\ DOMAIN pending = 1 .. Len(pending)
        /\ DOMAIN pending' = 1 .. Len(pending) + 1
        /\ \A i \in DOMAIN pending : pending'[i] = pending[i]
        /\ pending'[Len(pending) + 1].number = arrivals'
        /\ pending'[Len(pending) + 1].delivery_rem = server_free_rem' + PropDelay + jitter
    BY <1>3, <1>4
  <1>6. Numbers' = Numbers \cup {arrivals'}
    BY <1>5 DEF Numbers
  <1>7. DueFacts /\ DueFacts'
    BY DueOfFrame, PTL
  <1>8. ASSUME NEW n \in Numbers'
        PROVE  Due'[n] = IF n = arrivals' THEN clock' + server_free_rem' + PropDelay + jitter
                         ELSE Due[n]
    <2>1. PICK i \in DOMAIN pending' : pending'[i].number = n
      BY DEF Numbers
    <2>2. Due'[n] = clock' + pending'[i].delivery_rem
      BY <1>7, <2>1 DEF DueFacts
    <2>3. CASE i = Len(pending) + 1
      <3>1. n = arrivals' /\ pending'[i].delivery_rem = server_free_rem' + PropDelay + jitter
        BY <1>5, <2>1, <2>3
      <3>2. clock' \in Nat /\ server_free_rem' \in Nat
        BY <1>1, <1>2, <1>4
      <3>3. clock' + (server_free_rem' + PropDelay + jitter)
              = clock' + server_free_rem' + PropDelay + jitter
        BY <1>1, <3>2, DelaysAreNat
      <3> QED BY <2>2, <3>1, <3>3
    <2>4. CASE i # Len(pending) + 1
      <3>1. i \in DOMAIN pending /\ pending'[i] = pending[i]
        BY <1>5, <2>4
      <3>2. n = pending[i].number /\ n <= arrivals /\ n \in Nat
        BY <1>3, <2>1, <3>1, FrameFields DEF IInv, Numbered
      <3>3. Due[n] = clock + pending[i].delivery_rem
        BY <1>7, <3>1, <3>2 DEF DueFacts
      <3>4. n # arrivals'
        BY <1>2, <1>4, <3>2
      <3> QED BY <1>4, <2>2, <3>1, <3>3, <3>4
    <2> QED BY <2>3, <2>4
  <1>9. /\ Due' = [n \in Numbers' |-> Due'[n]]
        /\ DOMAIN Due = Numbers
    BY <1>7 DEF DueFacts
  <1>10. Due' = [n \in Numbers \cup {arrivals'} |->
                   IF n = arrivals' THEN clock' + server_free_rem' + PropDelay + jitter ELSE Due[n]]
    BY <1>6, <1>8, <1>9
  <1>11. clock' + server_free_rem' = clock + server_free_rem + service
    BY <1>1, <1>2, <1>4
  <1> QED BY <1>4, <1>9, <1>10, <1>11 DEF Timed!Accept, Due

\* The frame that leaves is due, wherever it is in the queue, and the times of
\* the others stay: DeliverDue of the schedule (internal_transition).
LEMMA ForwardKeepsSchedule ==
  ASSUME IInv, IInv', Forward
  PROVE  \E n \in DOMAIN Due : Timed!DeliverDue(n)
  <1> DEFINE leaving == pending[imminent_it].number
  <1>1. UNCHANGED <<server_free_rem, arrivals, clock>> /\ clock \in Nat
    BY DEF Forward, IInv, TypeOK
  <1>2. DueFacts /\ DueFacts'
    BY DueOfFrame, PTL
  <1>3. pending \in Seq(InTransit) /\ imminent_it \in DOMAIN pending
    BY ForwardFrames DEF IInv, TypeOK
  <1>4. leaving \in Numbers /\ leaving \in DOMAIN Due /\ Due[leaving] = clock
    <2>1. pending[imminent_it].delivery_rem = 0
      BY DEF Forward, time_advance
    <2>2. Due[leaving] = clock + pending[imminent_it].delivery_rem /\ leaving \in Numbers
      BY <1>2, <1>3 DEF DueFacts, Numbers
    <2> QED BY <1>1, <1>2, <2>1, <2>2 DEF DueFacts
  <1>5. \A i \in DOMAIN pending : i # imminent_it => pending[i].number # leaving
    <2> SUFFICES ASSUME NEW i \in DOMAIN pending, i # imminent_it
                 PROVE  pending[i].number # leaving
      OBVIOUS
    <2>1. i < imminent_it \/ imminent_it < i
      BY <1>3
    <2>2. pending[i].number < leaving \/ leaving < pending[i].number
      BY <1>3, <2>1 DEF IInv, Numbered
    <2>3. leaving \in Nat /\ pending[i].number \in Nat
      BY <1>3, FrameFields
    <2> QED BY <2>2, <2>3
  <1> HIDE DEF leaving
  <1>6. ASSUME NEW i \in DOMAIN pending'
        PROVE  \E k \in DOMAIN pending : k # imminent_it /\ pending'[i] = pending[k]
    <2>1. i \in DOMAIN pending /\ i + 1 \in DOMAIN pending
      BY ForwardFrames
    <2>2. CASE i < imminent_it
      BY <1>3, <2>1, <2>2, ForwardFrames
    <2>3. CASE ~(i < imminent_it)
      <3>1. i + 1 # imminent_it
        BY <1>3, <2>1, <2>3
      <3> QED BY <2>1, <2>3, <3>1, ForwardFrames
    <2> QED BY <2>2, <2>3
  <1>7. ASSUME NEW k \in DOMAIN pending, k # imminent_it
        PROVE  \E i \in DOMAIN pending' : pending'[i] = pending[k]
    <2>1. k \in Nat /\ imminent_it \in Nat
      BY <1>3
    <2>2. CASE k < imminent_it
      <3>1. k \in DOMAIN pending'
        BY <1>3, <2>2, ForwardFrames
      <3> QED BY <2>2, <3>1, ForwardFrames
    <2>3. CASE ~(k < imminent_it)
      <3>1. k - 1 \in DOMAIN pending' /\ ~(k - 1 < imminent_it) /\ k - 1 + 1 = k
        BY <1>3, <1>7, <2>1, <2>3, ForwardFrames
      <3> QED BY <3>1, ForwardFrames
    <2> QED BY <2>2, <2>3
  <1>8. Numbers' = Numbers \ {leaving}
    <2>1. \A n \in Numbers' : n \in Numbers \ {leaving}
      BY <1>5, <1>6 DEF Numbers
    <2>2. \A n \in Numbers \ {leaving} : n \in Numbers'
      BY <1>7 DEF Numbers, leaving
    <2> QED BY <2>1, <2>2
  <1>9. ASSUME NEW n \in Numbers' PROVE Due'[n] = Due[n]
    <2>1. PICK i \in DOMAIN pending' : pending'[i].number = n
      BY DEF Numbers
    <2>2. PICK k \in DOMAIN pending : pending'[i] = pending[k]
      BY <1>6
    <2> QED BY <1>1, <1>2, <2>1, <2>2 DEF DueFacts
  <1>10. Due' = [n \in Numbers' |-> Due'[n]] /\ DOMAIN Due = Numbers
    BY <1>2 DEF DueFacts
  <1>11. Due' = [n \in DOMAIN Due \ {leaving} |-> Due[n]]
    BY <1>8, <1>9, <1>10
  <1>12. clock' + server_free_rem' = clock + server_free_rem
    BY <1>1
  <1>13. Timed!DeliverDue(leaving)
    BY <1>1, <1>4, <1>11, <1>12 DEF Timed!DeliverDue, Due, Timed!Restrict
  <1> QED BY <1>4, <1>13 DEF Timed!DeliverDue, Due

\* A tick takes nothing from an instant: what remains is a tick less and the
\* clock a tick more, Advance of the schedule (age).
LEMMA ElapseKeepsSchedule ==
  ASSUME IInv, IInv', Elapse
  PROVE  Timed!Advance
  <1>1. /\ server_free_rem \in Nat /\ server_free_rem' = Less(server_free_rem)
        /\ clock \in Nat /\ clock' = clock + 1
        /\ arrivals' = arrivals
    BY DEF IInv, TypeOK, Elapse, age
  <1>2. DueFacts /\ DueFacts'
    BY DueOfFrame, PTL
  <1>3. Numbers' = Numbers
    BY ElapseFrames DEF Numbers
  <1>4. ASSUME NEW n \in Numbers
        PROVE  Due[n] > clock /\ Due'[n] = Due[n]
    <2>1. PICK i \in DOMAIN pending : pending[i].number = n
      BY DEF Numbers
    <2>2. i \in DOMAIN pending' /\ pending'[i].number = n
      BY <2>1, ElapseFrames
    <2>3. Due[n] = clock + pending[i].delivery_rem /\ Due'[n] = clock' + pending'[i].delivery_rem
      BY <1>2, <2>1, <2>2 DEF DueFacts
    <2>4. /\ pending[i].delivery_rem \in Nat /\ pending[i].delivery_rem > 0
          /\ pending'[i].delivery_rem = pending[i].delivery_rem - 1
      BY <2>1, ElapseFrames
    <2> QED BY <1>1, <2>3, <2>4
  <1>5. Due' = Due /\ DOMAIN Due = Numbers
    BY <1>2, <1>3, <1>4 DEF DueFacts
  <1>6. clock' + server_free_rem' = IF clock + server_free_rem > clock
                                    THEN clock + server_free_rem ELSE clock'
    BY <1>1, LessOfNat
  <1>7. \A n \in DOMAIN Due : Due[n] > clock
    BY <1>4, <1>5
  <1> QED BY <1>1, <1>5, <1>6, <1>7 DEF Timed!Advance, Due

\* Every step of the channel is a step of the schedule or leaves it alone.
LEMMA StepKeepsSchedule ==
  IInv /\ IInv' /\ [Next]_vars => [Timed!TimedNext]_(Timed!channelVars)
  <1> SUFFICES ASSUME IInv, IInv', [Next]_vars
               PROVE  [Timed!TimedNext]_(Timed!channelVars)
    OBVIOUS
  <1>1. CASE \E service \in ServiceTimes : Arrive(service)
    <2> PICK service \in ServiceTimes : Arrive(service)
      BY <1>1
    <2>1. CASE Drop
      <3>1. Timed!Discard
        BY <2>1 DEF Drop, Timed!Discard
      <3> QED BY <3>1 DEF Timed!TimedNext
    <2>2. CASE \E jitter \in JitterMin .. JitterMax : Enqueue(service, jitter)
      <3>1. PICK jitter \in JitterMin .. JitterMax : Enqueue(service, jitter)
        BY <2>2
      <3>2. Timed!Accept(service, jitter)
        BY <3>1, EnqueueKeepsSchedule
      <3> QED BY <3>2 DEF Timed!TimedNext
    <2> QED BY <2>1, <2>2 DEF Arrive
  <1>2. CASE Forward
    <2>1. \E n \in DOMAIN Due : Timed!DeliverDue(n)
      BY <1>2, ForwardKeepsSchedule
    <2>2. Timed!TimedNext
      BY <2>1 DEF Timed!TimedNext, Due
    <2> QED BY <2>2
  <1>3. CASE Elapse
    BY <1>3, ElapseKeepsSchedule DEF Timed!TimedNext
  <1>4. CASE UNCHANGED vars
    BY <1>4 DEF vars, Timed!channelVars
  <1> QED BY <1>1, <1>2, <1>3, <1>4 DEF Next

\* The safety part of KeepsSchedule: ageing what remains and emitting the least
\* is keeping to the absolute schedule, jitter included (lossy_channel.hpp:145).
THEOREM RefinesSchedule ==
  Spec => Timed!TimedInit /\ [][Timed!TimedNext]_(Timed!channelVars)
  <1>1. Init => Timed!TimedInit
    <2> SUFFICES ASSUME Init PROVE Timed!TimedInit
      OBVIOUS
    <2>1. pending = <<>> /\ server_free_rem = 0 /\ clock = 0 /\ arrivals = 0
      BY DEF Init
    <2>2. {pending[i].number : i \in DOMAIN pending} = {}
      BY <2>1
    <2> QED BY <2>1, <2>2 DEF Timed!TimedInit
  <1> QED BY <1>1, Invariance, StepKeepsSchedule, PTL DEF Spec

-----------------------------------------------------------------------------
(* Overtaking.  A frame is due no later than one would be that the server    *)
(* took now with all the jitter there is, less the services behind it.       *)

\* The services of the first n frames of a queue, added up.
Served(q, n) == SumTo([i \in DOMAIN q |-> q[i].service], n)

\* OvertakesWithinJitter, on the services up to each frame.
Overtakes(q) ==
  \A i, j \in DOMAIN q : i < j =>
    q[j].delivery_rem - q[i].delivery_rem >= Served(q, j) - Served(q, i) - (JitterMax - JitterMin)
JitterBehindServer(q, free) ==
  \A i \in DOMAIN q :
    q[i].delivery_rem + Served(q, Len(q)) - Served(q, i) <= free + PropDelay + JitterMax

JitterInv == Overtakes(pending) /\ JitterBehindServer(pending, server_free_rem)

\* The fold over the frames of a queue is the sum of their services.
LEMMA FoldIsServed ==
  ASSUME NEW q \in Seq(InTransit)
  PROVE  FoldLeft(LAMBDA sum, e : sum + e.service, 0, q) = Served(q, Len(q))
<1> DEFINE v == [i \in DOMAIN q |-> q[i].service]
           Is(f) == f = [t \in SUBSET DOMAIN q |->
                           IF t = {} THEN 0 ELSE f[t \ {Max(t)}] + q[Max(t)].service]
           g == CHOOSE f : Is(f)
<1>1. Len(q) \in Nat /\ DOMAIN q = 1 .. Len(q)
  OBVIOUS
<1>2. ASSUME NEW t \in SUBSET DOMAIN q, t # {}
      PROVE  Max(t) = Largest(t) /\ v[Largest(t)] = q[Max(t)].service
  <2>1. Max(t) = Largest(t)
    BY DEF Max, Largest
  <2>2. Largest(t) \in DOMAIN q
    BY <1>1, <1>2, LargestIs
  <2> QED BY <2>1, <2>2
<1>3. ASSUME NEW f
      PROVE  Is(f) <=> Sums(v, Len(q), f)
  <2> DEFINE a == [t \in SUBSET DOMAIN q |-> IF t = {} THEN 0 ELSE f[t \ {Max(t)}] + q[Max(t)].service]
             b == [t \in SUBSET DOMAIN q |-> IF t = {} THEN 0 ELSE f[t \ {Largest(t)}] + v[Largest(t)]]
  <2>1. \A t \in SUBSET DOMAIN q : a[t] = b[t]
    BY <1>2
  <2>2. a = [t \in SUBSET DOMAIN q |-> a[t]] /\ b = [t \in SUBSET DOMAIN q |-> b[t]]
    OBVIOUS
  <2>3. a = b
    <3> HIDE DEF a, b
    <3>1. [t \in SUBSET DOMAIN q |-> a[t]] = [t \in SUBSET DOMAIN q |-> b[t]]
      BY <2>1
    <3> QED BY <2>2, <3>1
  <2>4. Sums(v, Len(q), f) <=> f = b
    BY <1>1 DEF Sums
  <2> QED BY <2>3, <2>4
<1>4. FoldLeft(LAMBDA sum, e : sum + e.service, 0, q) = g[DOMAIN q]
  BY DEF FoldLeft, MapThenFoldSet
<1>5. Is(g)
  <2>1. PICK f : Sums(v, Len(q), f)
    BY <1>1, SumsExist
  <2>2. Is(f)
    BY <1>3, <2>1
  <2> HIDE DEF Is
  <2> QED BY <2>2
<1>6. Sums(v, Len(q), g)
  BY <1>3, <1>5
<1> HIDE DEF g, v
<1>7. Len(q) <= Len(q) /\ g[1 .. Len(q)] = SumTo(v, Len(q))
  BY <1>1, <1>6, SumIs
<1> QED BY <1>1, <1>4, <1>7 DEF Served, v

\* What a queue's services add up to.
LEMMA ServedIs ==
  ASSUME NEW q \in Seq(InTransit)
  PROVE  /\ \A i \in DOMAIN q : q[i].service \in Nat /\ q[i].service > 0 /\ q[i].delivery_rem \in Nat
         /\ \A n \in 0 .. Len(q) : Served(q, n) \in Nat
         /\ \A n \in 0 .. Len(q) : \A m \in 0 .. n : Served(q, m) <= Served(q, n)
<1> DEFINE v == [i \in DOMAIN q |-> q[i].service]
<1>1. Len(q) \in Nat /\ DOMAIN q = 1 .. Len(q) /\ \A i \in DOMAIN q : q[i] \in InTransit
  OBVIOUS
<1>2. \A i \in DOMAIN q : q[i].service \in Nat /\ q[i].service > 0 /\ q[i].delivery_rem \in Nat
  BY <1>1, ServiceTakesTime DEF InTransit
<1>3. \A i \in 1 .. Len(q) : v[i] \in Nat
  BY <1>1, <1>2
<1>4. ASSUME NEW n \in 0 .. Len(q), NEW m \in 0 .. n
      PROVE  SumTo(v, n) \in Nat /\ SumTo(v, m) <= SumTo(v, n)
  <2> HIDE DEF v
  <2>1. n \in Nat /\ NatTo(v, n)
    BY <1>1, <1>3 DEF NatTo
  <2> QED BY <2>1, SumGrows
<1>5. \A n \in 0 .. Len(q) : n \in 0 .. n
  OBVIOUS
<1> QED BY <1>2, <1>4, <1>5 DEF Served

\* The services between two frames.
LEMMA BetweenIs ==
  ASSUME NEW q \in Seq(InTransit), NEW i \in DOMAIN q, NEW j \in DOMAIN q, i < j
  PROVE  FoldLeft(LAMBDA sum, e : sum + e.service, 0, SubSeq(q, i + 1, j)) = Served(q, j) - Served(q, i)
<1> DEFINE s == SubSeq(q, i + 1, j)
           v == [k \in DOMAIN q |-> q[k].service]
           w == [k \in DOMAIN s |-> s[k].service]
           n == j - i
           between == FoldLeft(LAMBDA sum, e : sum + e.service, 0, s)
<1>1. /\ i \in Nat /\ j \in Nat /\ n \in Nat /\ i + n = j /\ DOMAIN q = 1 .. Len(q) /\ Len(q) \in Nat
      /\ s \in Seq(InTransit) /\ Len(s) = n /\ DOMAIN s = 1 .. n
      /\ \A k \in 1 .. n : s[k] = q[i + k] /\ i + k \in DOMAIN q
  OBVIOUS
<1>2. NatTo(v, i)
  <2>1. \A k \in 1 .. i : k \in DOMAIN q
    BY <1>1
  <2> QED BY <2>1, ServedIs DEF NatTo
<1>3. NatTo(w, n) /\ GoesOn(v, i, w, n)
  BY <1>1, ServedIs DEF NatTo, GoesOn
<1>4. SumTo(v, i + n) = SumTo(v, i) + SumTo(w, n)
  <2> HIDE DEF v, w, n
  <2> QED BY <1>1, <1>2, <1>3, SumSplit
<1>5. between = SumTo(w, n)
  <2> HIDE DEF s
  <2>1. FoldLeft(LAMBDA sum, e : sum + e.service, 0, s) = Served(s, Len(s))
    BY <1>1, FoldIsServed
  <2> QED BY <1>1, <2>1 DEF Served
<1>6. SumTo(v, i + n) = Served(q, j) /\ SumTo(v, i) = Served(q, i) /\ SumTo(w, n) \in Nat
  <2>1. SumTo(w, n) \in Nat
    <3> HIDE DEF w, n
    <3> QED BY <1>1, <1>3, SumNat
  <2> QED BY <1>1, <2>1 DEF Served
<1>7. Served(q, i) \in Nat /\ Served(q, j) \in Nat
  <2>1. i \in 0 .. Len(q) /\ j \in 0 .. Len(q)
    BY <1>1
  <2> QED BY <2>1, ServedIs
<1> HIDE DEF between, v, w, n
<1>8. between = Served(q, j) - Served(q, i)
  BY <1>4, <1>5, <1>6, <1>7
<1> QED BY <1>8 DEF between

\* So Overtakes is what the runs check.
LEMMA OvertakesIs ==
  TypeOK /\ Overtakes(pending) => OvertakesWithinJitter
<1> SUFFICES ASSUME TypeOK, Overtakes(pending), NEW i \in DOMAIN pending, NEW j \in DOMAIN pending, i < j
    PROVE pending[j].delivery_rem - pending[i].delivery_rem
            >= FoldLeft(LAMBDA sum, e : sum + e.service, 0, SubSeq(pending, i + 1, j)) - (JitterMax - JitterMin)
  BY DEF OvertakesWithinJitter
<1>1. pending \in Seq(InTransit)
  BY DEF TypeOK
<1>2. FoldLeft(LAMBDA sum, e : sum + e.service, 0, SubSeq(pending, i + 1, j))
        = Served(pending, j) - Served(pending, i)
  BY <1>1, BetweenIs
<1>3. pending[j].delivery_rem - pending[i].delivery_rem
        >= Served(pending, j) - Served(pending, i) - (JitterMax - JitterMin)
  BY DEF Overtakes
<1> QED BY <1>2, <1>3

\* A new frame leaves the sums before it and adds its service.
LEMMA ServedAppend ==
  ASSUME NEW q \in Seq(InTransit), NEW r \in Seq(InTransit), NEW e \in InTransit, r = Append(q, e)
  PROVE  /\ \A n \in 0 .. Len(q) : Served(r, n) = Served(q, n)
         /\ Served(r, Len(q) + 1) = Served(q, Len(q)) + e.service
<1> DEFINE v == [k \in DOMAIN q |-> q[k].service]
           w == [k \in DOMAIN r |-> r[k].service]
<1>1. /\ Len(q) \in Nat /\ DOMAIN q = 1 .. Len(q) /\ DOMAIN r = 1 .. Len(q) + 1
      /\ \A k \in DOMAIN q : r[k] = q[k]
      /\ r[Len(q) + 1] = e
  OBVIOUS
<1>2. (\A k \in 1 .. Len(q) : v[k] = w[k]) /\ w[Len(q) + 1] = e.service
  BY <1>1
<1> HIDE DEF v, w
<1>3. ASSUME NEW n \in 0 .. Len(q) PROVE SumTo(v, n) = SumTo(w, n)
  <2>1. n \in Nat /\ SameTo(v, w, n)
    BY <1>1, <1>2 DEF SameTo
  <2> QED BY <2>1, SumSame
<1>4. SumTo(w, Len(q) + 1) = SumTo(w, Len(q)) + w[Len(q) + 1]
  BY <1>1, SumNext
<1>5. SumTo(w, Len(q)) = SumTo(v, Len(q))
  BY <1>1, <1>3
<1>6. /\ \A n \in 0 .. Len(q) : SumTo(w, n) = SumTo(v, n)
      /\ SumTo(w, Len(q) + 1) = SumTo(v, Len(q)) + e.service
  BY <1>2, <1>3, <1>4, <1>5
<1> QED BY <1>6 DEF Served, v, w

\* The empty channel has the property.
LEMMA InitJitter == Init => JitterInv
<1> SUFFICES ASSUME Init PROVE JitterInv
  OBVIOUS
<1>1. DOMAIN pending = {}
  BY DEF Init
<1> QED BY <1>1 DEF JitterInv, Overtakes, JitterBehindServer

\* A new frame is served after all the others and has its own jitter
\* (external_transition).
LEMMA EnqueueJitter ==
  ASSUME IInv, JitterInv, NEW service \in ServiceTimes, NEW jitter \in JitterMin .. JitterMax,
         Enqueue(service, jitter)
  PROVE  JitterInv'
<1> DEFINE frame == [number |-> arrivals + 1, service |-> service,
                     delivery_rem |-> server_free_rem + service + PropDelay + jitter]
           last  == Len(pending)
<1>1. /\ service \in Nat /\ jitter \in Nat /\ JitterMin \in Nat /\ JitterMax \in Nat /\ PropDelay \in Nat
      /\ JitterMin <= jitter /\ jitter <= JitterMax
  BY DelaysAreNat, ServiceTakesTime, ChannelAssumption
<1>2. arrivals \in Nat /\ server_free_rem \in Nat /\ pending \in Seq(InTransit)
  BY DelaysAreNat DEF IInv, TypeOK
<1>3. frame \in InTransit
  BY <1>1, <1>2 DEF InTransit
<1>4. /\ pending' = Append(pending, frame)
      /\ server_free_rem' = server_free_rem + service
  BY DEF Enqueue
<1>5. /\ frame.service = service
      /\ frame.delivery_rem = server_free_rem + service + PropDelay + jitter
  OBVIOUS
<1> HIDE DEF frame
<1>6. /\ last \in Nat /\ DOMAIN pending = 1 .. last
      /\ DOMAIN pending' = 1 .. last + 1 /\ Len(pending') = last + 1
      /\ \A i \in DOMAIN pending : pending'[i] = pending[i]
      /\ pending'[last + 1] = frame
      /\ pending' \in Seq(InTransit)
  BY <1>2, <1>3, <1>4
<1> HIDE DEF last
<1>7. /\ \A n \in 0 .. last : Served(pending', n) = Served(pending, n)
      /\ Served(pending', last + 1) = Served(pending, last) + service
  BY <1>2, <1>3, <1>4, <1>5, <1>6, ServedAppend DEF last
<1>8. \A n \in 0 .. last : Served(pending, n) \in Nat
  BY <1>2, ServedIs DEF last
<1>9. ASSUME NEW i \in DOMAIN pending
      PROVE  /\ i \in 0 .. last /\ pending[i].delivery_rem \in Nat
             /\ Served(pending, i) \in Nat /\ Served(pending, last) \in Nat
             /\ Served(pending', i) = Served(pending, i)
             /\ pending[i].delivery_rem + Served(pending, last) - Served(pending, i)
                  <= server_free_rem + PropDelay + JitterMax
  <2>1. i \in 0 .. last /\ last \in 0 .. last
    BY <1>6
  <2> QED BY <1>2, <1>7, <1>8, <2>1, FrameFields DEF JitterInv, JitterBehindServer, last
<1>10. Overtakes(pending')
  <2> SUFFICES ASSUME NEW i \in DOMAIN pending', NEW j \in DOMAIN pending', i < j
               PROVE  pending'[j].delivery_rem - pending'[i].delivery_rem
                        >= Served(pending', j) - Served(pending', i) - (JitterMax - JitterMin)
    BY DEF Overtakes
  <2>1. i \in DOMAIN pending
    BY <1>6
  <2>2. CASE j = last + 1
    <3>1. /\ pending'[j].delivery_rem = server_free_rem + service + PropDelay + jitter
          /\ Served(pending', j) = Served(pending, last) + service
      BY <1>5, <1>6, <1>7, <2>2
    <3>2. pending'[i] = pending[i]
      BY <1>6, <2>1
    <3>3. /\ pending[i].delivery_rem \in Nat
          /\ Served(pending, i) \in Nat /\ Served(pending, last) \in Nat
          /\ Served(pending', i) = Served(pending, i)
          /\ pending[i].delivery_rem + Served(pending, last) - Served(pending, i)
                <= server_free_rem + PropDelay + JitterMax
      BY <1>9, <2>1
    <3> QED BY <1>1, <1>2, <3>1, <3>2, <3>3
  <2>3. CASE j # last + 1
    <3>1. j \in DOMAIN pending
      BY <1>6, <2>3
    <3> QED BY <1>6, <1>9, <2>1, <3>1 DEF JitterInv, Overtakes
  <2> QED BY <2>2, <2>3
<1>11. JitterBehindServer(pending', server_free_rem')
  <2> SUFFICES ASSUME NEW i \in DOMAIN pending'
               PROVE  pending'[i].delivery_rem + Served(pending', last + 1) - Served(pending', i)
                        <= server_free_rem' + PropDelay + JitterMax
    BY <1>6 DEF JitterBehindServer
  <2>1. CASE i = last + 1
    <3>1. Served(pending', i) \in Nat
      <4>1. last \in 0 .. last
        BY <1>6
      <4> QED BY <1>1, <1>7, <1>8, <2>1, <4>1
    <3> QED BY <1>1, <1>2, <1>4, <1>5, <1>6, <2>1, <3>1
  <2>2. CASE i # last + 1
    <3>1. i \in DOMAIN pending
      BY <1>6, <2>2
    <3> QED BY <1>1, <1>2, <1>4, <1>6, <1>7, <1>9, <3>1
  <2> QED BY <2>1, <2>2
<1> QED BY <1>10, <1>11 DEF JitterInv

\* What a frame's leaving does to the sums.
LEMMA ServedRemoved ==
  ASSUME NEW q \in Seq(InTransit), NEW k \in DOMAIN q, NEW r \in Seq(InTransit),
         DOMAIN r = 1 .. Len(q) - 1,
         \A i \in DOMAIN r : r[i] = IF i < k THEN q[i] ELSE q[i + 1]
  PROVE  \A n \in 0 .. Len(q) - 1 :
           Served(r, n) = IF n < k THEN Served(q, n) ELSE Served(q, n + 1) - q[k].service
<1> DEFINE v == [i \in DOMAIN q |-> q[i].service]
           w == [i \in DOMAIN r |-> r[i].service]
           last == Len(q)
<1>1. last \in Nat /\ DOMAIN q = 1 .. last /\ k \in 1 .. last
  OBVIOUS
<1>2. NatTo(v, last)
  BY <1>1, ServedIs DEF NatTo
<1>3. Without(v, w, last, k)
  <2> SUFFICES ASSUME NEW i \in 1 .. last - 1 PROVE w[i] = IF i < k THEN v[i] ELSE v[i + 1]
    BY DEF Without
  <2>1. i \in DOMAIN q /\ i + 1 \in DOMAIN q /\ i \in DOMAIN r
    BY <1>1
  <2> QED BY <2>1
<1>4. v[k] = q[k].service
  OBVIOUS
<1> HIDE DEF v, w, last
<1>5. \A n \in 0 .. last - 1 : SumTo(w, n) = IF n < k THEN SumTo(v, n) ELSE SumTo(v, n + 1) - v[k]
  BY <1>1, <1>2, <1>3, SumRemoved
<1> QED BY <1>4, <1>5 DEF Served, v, w, last

\* A frame that leaves takes its service out of the sums: what is left between
\* two others is no more than it was (internal_transition).
LEMMA ForwardJitter ==
  ASSUME IInv, JitterInv, Forward
  PROVE  JitterInv'
<1> DEFINE last == Len(pending)
           k == imminent_it
           s == pending[imminent_it].service
           S(n) == Served(pending, n)
<1>0. pending \in Seq(InTransit)
  BY DEF IInv, TypeOK
<1>1. /\ k \in DOMAIN pending /\ pending' \in Seq(InTransit)
      /\ last \in Nat /\ DOMAIN pending = 1 .. last /\ DOMAIN pending' = 1 .. last - 1
      /\ \A i \in DOMAIN pending' : pending'[i] = IF i < k THEN pending[i] ELSE pending[i + 1]
  BY ForwardFrames
<1>2. Len(pending') = last - 1 /\ server_free_rem' = server_free_rem /\ server_free_rem \in Nat
  <2>1. last - 1 \in Nat
    BY <1>1
  <2>2. Len(pending') \in Nat /\ DOMAIN pending' = 1 .. Len(pending')
    <3>1. pending' \in Seq(InTransit)
      BY <1>1
    <3> QED BY <3>1
  <2>3. Len(pending') = last - 1
    <3> HIDE DEF last
    <3> QED BY <1>1, <2>1, <2>2
  <2> QED BY <2>3 DEF Forward, IInv, TypeOK
<1>3. \A n \in 0 .. last - 1 : Served(pending', n) = IF n < k THEN S(n) ELSE S(n + 1) - s
  BY <1>0, <1>1, ServedRemoved
<1>4. /\ s \in Nat
      /\ \A n \in 0 .. last : S(n) \in Nat
      /\ \A n \in 0 .. last : \A m \in 0 .. n : S(m) <= S(n)
      /\ \A i \in DOMAIN pending : pending[i].delivery_rem \in Nat
  BY <1>0, <1>1, ServedIs
<1>5. k \in Nat /\ k >= 1 /\ k <= last
  BY <1>1
<1>6. PropDelay \in Nat /\ JitterMin \in Nat /\ JitterMax \in Nat
  BY ChannelAssumption
<1>7. /\ \A i, j \in DOMAIN pending : i < j =>
           pending[j].delivery_rem - pending[i].delivery_rem >= S(j) - S(i) - (JitterMax - JitterMin)
      /\ \A i \in DOMAIN pending :
           pending[i].delivery_rem + S(last) - S(i) <= server_free_rem + PropDelay + JitterMax
  BY DEF JitterInv, Overtakes, JitterBehindServer
<1> HIDE DEF last, k, s, S
<1>8. ASSUME NEW i \in DOMAIN pending'
      PROVE  \E a \in DOMAIN pending :
               /\ pending'[i] = pending[a] /\ i <= a /\ S(a) \in Nat /\ a \in Nat
               /\ i < k => a = i /\ Served(pending', i) = S(a)
               /\ ~(i < k) => a = i + 1 /\ Served(pending', i) = S(a) - s
  <2>1. i \in Nat /\ i \in 0 .. last - 1 /\ i \in 0 .. last /\ i + 1 \in 0 .. last
        /\ i \in DOMAIN pending /\ i + 1 \in DOMAIN pending
    BY <1>1
  <2>2. CASE i < k
    BY <1>1, <1>3, <1>4, <2>1, <2>2
  <2>3. CASE ~(i < k)
    BY <1>1, <1>3, <1>4, <2>1, <2>3
  <2> QED BY <2>2, <2>3
<1>9. Overtakes(pending')
  <2> SUFFICES ASSUME NEW i \in DOMAIN pending', NEW j \in DOMAIN pending', i < j
               PROVE  pending'[j].delivery_rem - pending'[i].delivery_rem
                        >= Served(pending', j) - Served(pending', i) - (JitterMax - JitterMin)
    BY DEF Overtakes
  <2>1. PICK a \in DOMAIN pending :
          /\ pending'[i] = pending[a] /\ S(a) \in Nat /\ a \in Nat
          /\ i < k => a = i /\ Served(pending', i) = S(a)
          /\ ~(i < k) => a = i + 1 /\ Served(pending', i) = S(a) - s
    BY <1>8
  <2>2. PICK b \in DOMAIN pending :
          /\ pending'[j] = pending[b] /\ j <= b /\ S(b) \in Nat /\ b \in Nat
          /\ j < k => b = j /\ Served(pending', j) = S(b)
          /\ ~(j < k) => b = j + 1 /\ Served(pending', j) = S(b) - s
    BY <1>8
  <2>3. i \in Nat /\ j \in Nat
    BY <1>1
  <2>4. a < b
    BY <1>5, <2>1, <2>2, <2>3
  <2>5. Served(pending', j) - Served(pending', i) <= S(b) - S(a)
    BY <1>4, <1>5, <2>1, <2>2, <2>3
  <2>6. pending[b].delivery_rem - pending[a].delivery_rem >= S(b) - S(a) - (JitterMax - JitterMin)
    BY <1>7, <2>4
  <2>7. Served(pending', j) \in Int /\ Served(pending', i) \in Int
    BY <1>4, <2>1, <2>2
  <2>8. pending[a].delivery_rem \in Nat /\ pending[b].delivery_rem \in Nat
    BY <1>4
  <2> QED BY <1>6, <2>1, <2>2, <2>5, <2>6, <2>7, <2>8
<1>10. JitterBehindServer(pending', server_free_rem')
  <2> SUFFICES ASSUME NEW i \in DOMAIN pending'
               PROVE  pending'[i].delivery_rem + Served(pending', last - 1) - Served(pending', i)
                        <= server_free_rem + PropDelay + JitterMax
    BY <1>2 DEF JitterBehindServer
  <2>1. PICK a \in DOMAIN pending :
          /\ pending'[i] = pending[a] /\ S(a) \in Nat /\ a \in Nat
          /\ i < k => a = i /\ Served(pending', i) = S(a)
          /\ ~(i < k) => a = i + 1 /\ Served(pending', i) = S(a) - s
    BY <1>8
  <2>2. last - 1 \in 0 .. last - 1 /\ last - 1 \in 0 .. last /\ last \in 0 .. last /\ (last - 1) + 1 = last
    BY <1>1
  <2>3. S(last) \in Nat /\ S(last - 1) \in Nat /\ S(last - 1) <= S(last)
    BY <1>4, <2>2
  <2>4. Served(pending', last - 1) = IF last - 1 < k THEN S(last - 1) ELSE S(last) - s
    BY <1>3, <2>2
  <2>5. i \in Nat /\ i <= last - 1
    BY <1>1
  <2>6. Served(pending', last - 1) - Served(pending', i) <= S(last) - S(a)
    <3>1. CASE last - 1 < k
      <4>1. i < k
        BY <1>1, <1>5, <2>5, <3>1
      <4> QED BY <2>1, <2>3, <2>4, <3>1, <4>1
    <3>2. CASE ~(last - 1 < k)
      BY <1>4, <1>5, <2>1, <2>3, <2>4, <2>5, <3>2
    <3> QED BY <3>1, <3>2
  <2>7. Served(pending', last - 1) \in Int /\ Served(pending', i) \in Int
    BY <1>4, <2>1, <2>3, <2>4
  <2>8. pending[a].delivery_rem \in Nat
        /\ pending[a].delivery_rem + S(last) - S(a) <= server_free_rem + PropDelay + JitterMax
    BY <1>4, <1>7
  <2> QED BY <1>2, <1>6, <2>1, <2>3, <2>6, <2>7, <2>8
<1> QED BY <1>9, <1>10 DEF JitterInv

\* A tick takes as much from all the frames, and no more from the server (age).
LEMMA ElapseJitter ==
  ASSUME IInv, JitterInv, Elapse
  PROVE  JitterInv'
<1>1. pending \in Seq(InTransit) /\ server_free_rem \in Nat /\ server_free_rem' = Less(server_free_rem)
  BY DEF IInv, TypeOK, Elapse, age
<1>2. server_free_rem' \in Nat /\ server_free_rem' >= server_free_rem - 1
  BY <1>1, LessOfNat
<1>3. /\ DOMAIN pending' = DOMAIN pending /\ pending' \in Seq(InTransit)
      /\ \A i \in DOMAIN pending :
           /\ pending'[i].service = pending[i].service
           /\ pending[i].delivery_rem \in Nat /\ pending'[i].delivery_rem = pending[i].delivery_rem - 1
  BY ElapseFrames
<1>4. Len(pending) \in Nat /\ DOMAIN pending = 1 .. Len(pending) /\ Len(pending') = Len(pending)
  BY <1>1, <1>3
<1>5. \A n \in 0 .. Len(pending) : Served(pending', n) = Served(pending, n) /\ Served(pending, n) \in Nat
  <2>1. [i \in DOMAIN pending' |-> pending'[i].service] = [i \in DOMAIN pending |-> pending[i].service]
    BY <1>3
  <2> QED BY <1>1, <2>1, ServedIs DEF Served
<1>6. \A i \in DOMAIN pending : Served(pending', i) = Served(pending, i) /\ Served(pending, i) \in Nat
  <2>1. \A i \in DOMAIN pending : i \in 0 .. Len(pending)
    BY <1>4
  <2> QED BY <1>5, <2>1
<1>7. Served(pending', Len(pending')) = Served(pending, Len(pending)) /\ Served(pending, Len(pending)) \in Nat
  BY <1>4, <1>5
<1>8. PropDelay \in Nat /\ JitterMin \in Nat /\ JitterMax \in Nat
  BY ChannelAssumption
<1>9. Overtakes(pending')
  <2> SUFFICES ASSUME NEW i \in DOMAIN pending, NEW j \in DOMAIN pending, i < j
               PROVE  pending'[j].delivery_rem - pending'[i].delivery_rem
                        >= Served(pending', j) - Served(pending', i) - (JitterMax - JitterMin)
    BY <1>3 DEF Overtakes
  <2>1. pending[j].delivery_rem - pending[i].delivery_rem
          >= Served(pending, j) - Served(pending, i) - (JitterMax - JitterMin)
    BY DEF JitterInv, Overtakes
  <2> QED BY <1>3, <1>6, <1>8, <2>1
<1>10. JitterBehindServer(pending', server_free_rem')
  <2> SUFFICES ASSUME NEW i \in DOMAIN pending
               PROVE  pending'[i].delivery_rem + Served(pending', Len(pending')) - Served(pending', i)
                        <= server_free_rem' + PropDelay + JitterMax
    BY <1>3 DEF JitterBehindServer
  <2>1. pending[i].delivery_rem + Served(pending, Len(pending)) - Served(pending, i)
          <= server_free_rem + PropDelay + JitterMax
    BY DEF JitterInv, JitterBehindServer
  <2>2. /\ pending[i].delivery_rem \in Nat /\ pending'[i].delivery_rem = pending[i].delivery_rem - 1
        /\ Served(pending', i) = Served(pending, i) /\ Served(pending, i) \in Nat
    BY <1>3, <1>6
  <2>3. pending'[i].delivery_rem + Served(pending', Len(pending')) - Served(pending', i)
          = (pending[i].delivery_rem + Served(pending, Len(pending)) - Served(pending, i)) - 1
    BY <1>7, <2>2
  <2>4. pending[i].delivery_rem + Served(pending, Len(pending)) - Served(pending, i) \in Int
    BY <1>7, <2>2
  <2> QED BY <1>1, <1>2, <1>8, <2>1, <2>3, <2>4
<1> QED BY <1>9, <1>10 DEF JitterInv

\* Jitter reorders frames, but whatever leaves before an earlier arrival was
\* served at most the range of the jitter after it (lossy_channel.hpp:9-12).
THEOREM OvertakesOnlyByJitter == Spec => []OvertakesWithinJitter
<1>1. IInv /\ JitterInv /\ [Next]_vars => JitterInv'
  <2> SUFFICES ASSUME IInv, JitterInv, [Next]_vars PROVE JitterInv'
    OBVIOUS
  <2>1. CASE \E service \in ServiceTimes : Arrive(service)
    <3> PICK service \in ServiceTimes : Arrive(service)
      BY <2>1
    <3>1. CASE Drop
      <4>1. UNCHANGED <<pending, server_free_rem>>
        BY <3>1 DEF Drop
      <4> QED BY <4>1 DEF JitterInv
    <3>2. CASE \E jitter \in JitterMin .. JitterMax : Enqueue(service, jitter)
      BY <3>2, EnqueueJitter
    <3> QED BY <3>1, <3>2 DEF Arrive
  <2>2. CASE Forward
    BY <2>2, ForwardJitter
  <2>3. CASE Elapse
    BY <2>3, ElapseJitter
  <2>4. CASE UNCHANGED vars
    BY <2>4 DEF vars, JitterInv
  <2> QED BY <2>1, <2>2, <2>3, <2>4 DEF Next
<1>2. IInv /\ JitterInv => OvertakesWithinJitter
  BY OvertakesIs DEF IInv, JitterInv
<1> QED BY <1>1, <1>2, InitJitter, Invariance, PTL DEF Spec

=============================================================================
