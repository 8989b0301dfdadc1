----------------------- MODULE BottleneckChannelProofs -----------------------
(***************************************************************************)
(* What the deterministic channel promises, for every set of sizes, rate,  *)
(* delay, queue limit and drop pattern: the front of the queue is always   *)
(* the frame due first, the bytes in the queue bound what the server has   *)
(* to do and keep to the limit, and the times that remain, aged together,  *)
(* add up to the absolute schedule of TimedChannel.  That every frame is   *)
(* delivered in the end is liveness and left to the runs.                  *)
(***************************************************************************)
EXTENDS BottleneckChannel, TLAPS, FiniteNatSets

-----------------------------------------------------------------------------
(* The invariant.  FrontIsImminent alone is not inductive: a new frame goes  *)
(* behind the others only because none of them is due after what the server *)
(* has to do, and its number is new only because none exceeds arrivals.      *)

\* Every frame under way has arrived, and leaves no later than one that is
\* served when the server is free and then propagates.
BehindServer ==
  \A i \in DOMAIN pending :
    /\ pending[i].number <= arrivals
    /\ pending[i].delivery_rem <= server_free_rem + PropDelay

IInv == TypeOK /\ BehindServer /\ FrontIsImminent

\* What ageing does to a remaining time: it stays a natural number, and a
\* positive one loses a tick (Less).
LEMMA LessOfNat ==
  ASSUME NEW rem \in Nat
  PROVE  /\ Less(rem) \in Nat
         /\ Less(rem) >= rem - 1
         /\ rem > 0 => Less(rem) = rem - 1
         /\ rem = 0 => Less(rem) = 0
  BY DEF Less

\* A service time is a positive number of ticks, so that a frame queued behind
\* another is due later (external_transition).
LEMMA ServiceTakesTime ==
  ASSUME NEW size \in Sizes
  PROVE  size \in Nat \ {0} /\ size * TicksPerByte \in Nat \ {0}
  <1>1. size \in Nat \ {0} /\ TicksPerByte \in Nat \ {0}
    BY ChannelAssumption
  <1>2. \A a, b \in Nat \ {0} : a * b \in Nat \ {0}
    OBVIOUS
  <1> QED BY <1>1, <1>2

\* The bounds and delays are natural numbers.
LEMMA DelaysAreNat == PropDelay \in Nat /\ QueueCapacity \in Nat /\ MaxArrivals \in Nat
  BY ChannelAssumption

\* The fields of the frames under way (in_transit).
LEMMA FrameFields ==
  ASSUME pending \in Seq(InTransit), NEW i \in DOMAIN pending
  PROVE  /\ pending[i] \in InTransit
         /\ pending[i].number \in Nat /\ pending[i].size \in Sizes
         /\ pending[i].service_rem \in Nat /\ pending[i].delivery_rem \in Nat
  <1>1. pending[i] \in InTransit
    OBVIOUS
  <1> QED BY <1>1 DEF InTransit

\* What the empty channel starts from is in the invariant.
LEMMA InitInv == Init => IInv
  <1> SUFFICES ASSUME Init PROVE IInv
    OBVIOUS
  <1>1. TypeOK
    BY DelaysAreNat DEF Init, TypeOK
  <1>2. DOMAIN pending = {}
    BY DEF Init
  <1> QED BY <1>1, <1>2 DEF IInv, BehindServer, FrontIsImminent

\* A frame that is queued keeps the invariant (external_transition): it is due
\* after all the others.
LEMMA EnqueueInv ==
  ASSUME IInv, NEW size \in Sizes, Arrive(size), Enqueue(size)
  PROVE  IInv'
  <1> DEFINE work  == size * TicksPerByte
             frame == [number |-> arrivals + 1, size |-> size,
                       service_rem |-> server_free_rem + work,
                       delivery_rem |-> server_free_rem + work + PropDelay]
  <1>1. work \in Nat /\ work > 0
    BY ServiceTakesTime
  <1>2. arrivals \in Nat /\ server_free_rem \in Nat /\ arrivals < MaxArrivals /\ MaxArrivals \in Nat
    BY DelaysAreNat DEF IInv, TypeOK, Arrive
  <1> HIDE DEF work
  <1>3. frame \in InTransit
    BY <1>1, <1>2, DelaysAreNat DEF InTransit
  <1>4. /\ pending' = Append(pending, frame)
        /\ arrivals' = arrivals + 1
        /\ server_free_rem' = server_free_rem + work
    BY DEF Enqueue, work
  <1>5. pending \in Seq(InTransit)
    BY DEF IInv, TypeOK
  <1>6. TypeOK'
    <2>1. pending' \in Seq(InTransit)
      BY <1>3, <1>4, <1>5
    <2>2. server_free_rem' \in Nat /\ arrivals' \in 0 .. MaxArrivals
      BY <1>1, <1>2, <1>4
    <2>3. ({forwarded, dropped_nth, dropped_overflow, clock} \subseteq Nat)'
      BY DEF IInv, TypeOK, Enqueue
    <2> QED BY <2>1, <2>2, <2>3 DEF TypeOK
  <1>7. /\ Len(pending) \in Nat /\ DOMAIN pending = 1 .. Len(pending)
        /\ DOMAIN pending' = 1 .. Len(pending) + 1
        /\ \A i \in DOMAIN pending : pending'[i] = pending[i]
        /\ pending'[Len(pending) + 1] = frame
    BY <1>4, <1>5
  <1>8. \A i \in DOMAIN pending : /\ pending[i].number \in Nat
                                  /\ pending[i].delivery_rem \in Nat
    BY <1>5, FrameFields
  <1>9. /\ frame.number = arrivals + 1
        /\ frame.delivery_rem = server_free_rem + work + PropDelay
    OBVIOUS
  <1> HIDE DEF frame
  <1>10. BehindServer'
    <2> SUFFICES ASSUME NEW i \in DOMAIN pending'
                 PROVE  /\ pending'[i].number <= arrivals'
                        /\ pending'[i].delivery_rem <= server_free_rem' + PropDelay
      BY DEF BehindServer
    <2>1. CASE i = Len(pending) + 1
      BY <1>1, <1>2, <1>4, <1>7, <1>9, <2>1, DelaysAreNat
    <2>2. CASE i # Len(pending) + 1
      <3>1. i \in DOMAIN pending
        BY <1>7, <2>2
      <3>2. pending[i].number <= arrivals /\ pending[i].delivery_rem <= server_free_rem + PropDelay
        BY <3>1 DEF IInv, BehindServer
      <3> QED BY <1>1, <1>2, <1>4, <1>7, <1>8, <3>1, <3>2, DelaysAreNat
    <2> QED BY <2>1, <2>2
  <1>11. FrontIsImminent'
    <2> SUFFICES ASSUME NEW i \in DOMAIN pending', NEW j \in DOMAIN pending', i < j
                 PROVE  /\ pending'[i].number < pending'[j].number
                        /\ pending'[i].delivery_rem < pending'[j].delivery_rem
      BY DEF FrontIsImminent
    <2>1. i \in DOMAIN pending
      BY <1>7
    <2>2. CASE j = Len(pending) + 1
      <3>1. pending[i].number <= arrivals /\ pending[i].delivery_rem <= server_free_rem + PropDelay
        BY <2>1 DEF IInv, BehindServer
      <3> QED BY <1>1, <1>2, <1>7, <1>8, <1>9, <2>1, <2>2, <3>1, DelaysAreNat
    <2>3. CASE j # Len(pending) + 1
      <3>1. j \in DOMAIN pending
        BY <1>7, <2>3
      <3> QED BY <1>7, <2>1, <3>1 DEF IInv, FrontIsImminent
    <2> QED BY <2>2, <2>3
  <1> QED BY <1>6, <1>10, <1>11 DEF IInv

\* A dropped frame changes counters only.
LEMMA DropInv ==
  ASSUME IInv, NEW size \in Sizes, Arrive(size), DropNth \/ DropOverflow(size)
  PROVE  IInv'
  <1>1. /\ UNCHANGED <<pending, server_free_rem, forwarded, clock>>
        /\ arrivals' = arrivals + 1 /\ arrivals < MaxArrivals
        /\ dropped_nth' \in {dropped_nth, dropped_nth + 1}
        /\ dropped_overflow' \in {dropped_overflow, dropped_overflow + 1}
    BY DEF DropNth, DropOverflow, Arrive
  <1>2. TypeOK'
    BY <1>1, DelaysAreNat DEF IInv, TypeOK
  <1>3. \A i \in DOMAIN pending : pending[i].number \in Nat
    BY FrameFields DEF IInv, TypeOK
  <1>4. BehindServer'
    BY <1>1, <1>3 DEF IInv, TypeOK, BehindServer
  <1>5. FrontIsImminent'
    BY <1>1 DEF IInv, FrontIsImminent
  <1> QED BY <1>2, <1>4, <1>5 DEF IInv

\* The front leaves and the order of the others stays (internal_transition).
LEMMA ForwardInv ==
  ASSUME IInv, Forward
  PROVE  IInv'
  <1>1. pending \in Seq(InTransit) /\ pending # <<>> /\ pending' = Tail(pending)
    BY DEF IInv, TypeOK, Forward
  <1>2. /\ UNCHANGED <<server_free_rem, arrivals, dropped_nth, dropped_overflow, clock>>
        /\ forwarded' = forwarded + 1
    BY DEF Forward
  <1>3. pending' \in Seq(InTransit)
    BY <1>1
  <1>4. TypeOK'
    BY <1>2, <1>3 DEF IInv, TypeOK
  <1>5. \A i \in DOMAIN pending' : i + 1 \in DOMAIN pending /\ pending'[i] = pending[i + 1]
    BY <1>1
  <1>6. BehindServer'
    BY <1>2, <1>5 DEF IInv, BehindServer
  <1>7. FrontIsImminent'
    <2> SUFFICES ASSUME NEW i \in DOMAIN pending', NEW j \in DOMAIN pending', i < j
                 PROVE  /\ pending'[i].number < pending'[j].number
                        /\ pending'[i].delivery_rem < pending'[j].delivery_rem
      BY DEF FrontIsImminent
    <2>1. i \in Nat /\ j \in Nat
      BY <1>3
    <2>2. i + 1 < j + 1
      BY <2>1
    <2> QED BY <1>5, <2>2 DEF IInv, FrontIsImminent
  <1> QED BY <1>4, <1>6, <1>7 DEF IInv

\* What a tick does to a frame: while the front is not due, no frame is, so
\* each loses exactly one tick (age, time_advance).
LEMMA ElapseFrames ==
  ASSUME IInv, Elapse
  PROVE  /\ DOMAIN pending' = DOMAIN pending
         /\ pending' \in Seq(InTransit)
         /\ \A i \in DOMAIN pending :
              /\ pending[i].number \in Nat /\ pending'[i].number = pending[i].number
              /\ pending'[i].size = pending[i].size
              /\ pending'[i].service_rem = Less(pending[i].service_rem)
              /\ pending[i].delivery_rem \in Nat /\ pending[i].delivery_rem > 0
              /\ pending'[i].delivery_rem = pending[i].delivery_rem - 1
  <1>1. pending \in Seq(InTransit)
    BY DEF IInv, TypeOK
  <1>2. Len(pending) \in Nat /\ DOMAIN pending = 1 .. Len(pending)
    BY <1>1
  <1>3. ASSUME NEW i \in DOMAIN pending
        PROVE  /\ pending[i] \in InTransit
               /\ pending[i].number \in Nat /\ pending[i].size \in Sizes
               /\ pending[i].service_rem \in Nat /\ pending[i].delivery_rem \in Nat
    BY <1>1, FrameFields
  <1>4. pending' = [i \in DOMAIN pending |->
                      [pending[i] EXCEPT !.service_rem = Less(@), !.delivery_rem = Less(@)]]
    BY DEF Elapse, age
  <1>5. ASSUME NEW i \in DOMAIN pending
        PROVE  /\ pending'[i] \in InTransit
               /\ pending'[i].number = pending[i].number
               /\ pending'[i].size = pending[i].size
               /\ pending'[i].service_rem = Less(pending[i].service_rem)
               /\ pending'[i].delivery_rem = Less(pending[i].delivery_rem)
    <2>1. Less(pending[i].service_rem) \in Nat /\ Less(pending[i].delivery_rem) \in Nat
      BY <1>3, LessOfNat
    <2>2. pending'[i] = [pending[i] EXCEPT !.service_rem = Less(@), !.delivery_rem = Less(@)]
      BY <1>4
    <2> QED BY <1>3, <2>1, <2>2 DEF InTransit
  <1>6. DOMAIN pending' = DOMAIN pending /\ pending' = [i \in 1 .. Len(pending) |-> pending'[i]]
    BY <1>2, <1>4
  <1>7. pending' \in Seq(InTransit)
    BY <1>2, <1>5, <1>6
  <1>8. ASSUME NEW i \in DOMAIN pending
        PROVE  pending[i].delivery_rem > 0
    <2>1. 1 \in DOMAIN pending /\ pending[1].delivery_rem > 0
      <3>1. pending # <<>>
        BY <1>1
      <3> QED BY <1>1, <1>2, <3>1 DEF Elapse, time_advance
    <2>2. CASE i = 1
      BY <2>1, <2>2
    <2>3. CASE i # 1
      <3>1. 1 < i
        BY <1>2, <2>3
      <3>2. pending[1].delivery_rem < pending[i].delivery_rem
        BY <2>1, <3>1 DEF IInv, FrontIsImminent
      <3> QED BY <1>3, <2>1, <3>2
    <2> QED BY <2>2, <2>3
  <1> QED BY <1>3, <1>5, <1>6, <1>7, <1>8, LessOfNat

\* A tick keeps the invariant: remaining times that are all positive stay
\* apart, and the server's own loses at most as much as theirs (age).
LEMMA ElapseInv ==
  ASSUME IInv, Elapse
  PROVE  IInv'
  <1>1. /\ server_free_rem \in Nat /\ server_free_rem' = Less(server_free_rem)
        /\ clock \in Nat /\ clock' = clock + 1
        /\ UNCHANGED <<arrivals, forwarded, dropped_nth, dropped_overflow>>
    BY DEF IInv, TypeOK, Elapse, age
  <1>2. server_free_rem' \in Nat /\ server_free_rem' >= server_free_rem - 1
    BY <1>1, LessOfNat
  <1>3. TypeOK'
    <2>1. clock' \in Nat
      BY <1>1
    <2> QED BY <1>1, <1>2, <2>1, ElapseFrames DEF IInv, TypeOK
  <1>4. BehindServer'
    <2> SUFFICES ASSUME NEW i \in DOMAIN pending
                 PROVE  /\ pending'[i].number <= arrivals'
                        /\ pending'[i].delivery_rem <= server_free_rem' + PropDelay
      BY ElapseFrames DEF BehindServer
    <2>1. pending[i].number <= arrivals /\ pending[i].delivery_rem <= server_free_rem + PropDelay
      BY DEF IInv, BehindServer
    <2> QED BY <1>1, <1>2, <2>1, ElapseFrames, DelaysAreNat
  <1>5. FrontIsImminent'
    <2> SUFFICES ASSUME NEW i \in DOMAIN pending, NEW j \in DOMAIN pending, i < j
                 PROVE  /\ pending'[i].number < pending'[j].number
                        /\ pending'[i].delivery_rem < pending'[j].delivery_rem
      BY ElapseFrames DEF FrontIsImminent
    <2>1. /\ pending[i].number < pending[j].number
          /\ pending[i].delivery_rem < pending[j].delivery_rem
      BY DEF IInv, FrontIsImminent
    <2> QED BY <2>1, ElapseFrames
  <1> QED BY <1>3, <1>4, <1>5 DEF IInv

\* Every step of the channel keeps the invariant.
LEMMA StepInv == IInv /\ [Next]_vars => IInv'
  <1> SUFFICES ASSUME IInv, [Next]_vars PROVE IInv'
    OBVIOUS
  <1>1. CASE \E size \in Sizes : Arrive(size)
    <2> PICK size \in Sizes : Arrive(size)
      BY <1>1
    <2>1. CASE Enqueue(size)
      BY <2>1, EnqueueInv
    <2>2. CASE DropNth \/ DropOverflow(size)
      BY <2>2, DropInv
    <2> QED BY <2>1, <2>2 DEF Arrive
  <1>2. CASE Forward
    BY <1>2, ForwardInv
  <1>3. CASE Elapse
    BY <1>3, ElapseInv
  <1>4. CASE UNCHANGED vars
    BY <1>4 DEF vars, IInv, TypeOK, BehindServer, FrontIsImminent
  <1> QED BY <1>1, <1>2, <1>3, <1>4 DEF Next

\* The invariant holds in every reachable state.
THEOREM Invariance == Spec => []IInv
  BY InitInv, StepInv, PTL DEF Spec

\* The variables of the channel always hold values of their types
\* (in_transit, state_type).
THEOREM TypeCorrect == Spec => []TypeOK
  BY Invariance, PTL DEF IInv

\* time_advance and internal_transition may look at the front only.
THEOREM FrontLeavesFirst == Spec => []FrontIsImminent
  BY Invariance, PTL DEF IInv

-----------------------------------------------------------------------------
(* The schedule.  due, as the channel has it, is a function of the frame     *)
(* numbers; FrontIsImminent makes it one.                                    *)

\* The due times read off the queue.
Due == [n \in {pending[i].number : i \in DOMAIN pending} |->
          clock + pending[CHOOSE i \in DOMAIN pending : pending[i].number = n].delivery_rem]

Numbers == {pending[i].number : i \in DOMAIN pending}

DueFacts ==
  /\ DOMAIN Due = Numbers
  /\ Due = [n \in Numbers |-> Due[n]]
  /\ \A i \in DOMAIN pending : Due[pending[i].number] = clock + pending[i].delivery_rem

\* Frame numbers occur once, so each frame is due when its own remaining time
\* is over.
LEMMA DueOfFrame == IInv => DueFacts
  <1> SUFFICES ASSUME IInv PROVE DueFacts
    OBVIOUS
  <1>1. DOMAIN Due = Numbers /\ Due = [n \in Numbers |-> Due[n]]
    BY DEF Due, Numbers
  <1>2. ASSUME NEW i \in DOMAIN pending
        PROVE  Due[pending[i].number] = clock + pending[i].delivery_rem
    <2> DEFINE k == CHOOSE j \in DOMAIN pending : pending[j].number = pending[i].number
    <2>1. k \in DOMAIN pending /\ pending[k].number = pending[i].number
      OBVIOUS
    <2>2. pending \in Seq(InTransit)
      BY DEF IInv, TypeOK
    <2>3. pending[i].number \in Nat /\ pending[k].number \in Nat
      BY <2>1, <2>2, FrameFields
    <2>4. i \in Nat /\ k \in Nat
      BY <2>1, <2>2
    <2>5. ~(i < k) /\ ~(k < i)
      BY <2>1, <2>3 DEF IInv, FrontIsImminent
    <2>6. k = i
      BY <2>4, <2>5
    <2>7. Due[pending[i].number] = clock + pending[k].delivery_rem
      BY DEF Due
    <2> QED BY <2>6, <2>7
  <1> QED BY <1>1, <1>2 DEF DueFacts

\* A frame that is queued is served when the server is free and due after its
\* propagation: Accept of the schedule (external_transition).
LEMMA EnqueueKeepsSchedule ==
  ASSUME IInv, IInv', NEW size \in Sizes, Arrive(size), Enqueue(size)
  PROVE  Timed!Accept(size * TicksPerByte, 0)
  <1> DEFINE work == size * TicksPerByte
  <1>1. work \in Nat /\ work > 0
    BY ServiceTakesTime
  <1>2. server_free_rem \in Nat /\ clock \in Nat /\ arrivals \in Nat
    BY DelaysAreNat DEF IInv, TypeOK
  <1>3. pending \in Seq(InTransit)
    BY DEF IInv, TypeOK
  <1>4. /\ arrivals' = arrivals + 1 /\ clock' = clock
        /\ server_free_rem' = server_free_rem + work
        /\ pending' = Append(pending, [number |-> arrivals', size |-> size,
                                       service_rem |-> server_free_rem',
                                       delivery_rem |-> server_free_rem' + PropDelay])
    BY DEF Enqueue
  <1> HIDE DEF work
  <1>5. /\ Len(pending) \in Nat /\ DOMAIN pending = 1 .. Len(pending)
        /\ DOMAIN pending' = 1 .. Len(pending) + 1
        /\ \A i \in DOMAIN pending : pending'[i] = pending[i]
        /\ pending'[Len(pending) + 1].number = arrivals'
        /\ pending'[Len(pending) + 1].delivery_rem = server_free_rem' + PropDelay
    BY <1>3, <1>4
  <1>6. Numbers' = Numbers \cup {arrivals'}
    BY <1>5 DEF Numbers
  <1>7. DueFacts /\ DueFacts'
    BY DueOfFrame, PTL
  <1>8. ASSUME NEW n \in Numbers'
        PROVE  Due'[n] = IF n = arrivals' THEN clock' + server_free_rem' + PropDelay + 0 ELSE Due[n]
    <2>1. PICK i \in DOMAIN pending' : pending'[i].number = n
      BY DEF Numbers
    <2>2. Due'[n] = clock' + pending'[i].delivery_rem
      BY <1>7, <2>1 DEF DueFacts
    <2>3. CASE i = Len(pending) + 1
      <3>1. n = arrivals' /\ pending'[i].delivery_rem = server_free_rem' + PropDelay
        BY <1>5, <2>1, <2>3
      <3> QED BY <1>1, <1>2, <1>4, <2>2, <3>1, DelaysAreNat
    <2>4. CASE i # Len(pending) + 1
      <3>1. i \in DOMAIN pending /\ pending'[i] = pending[i]
        BY <1>5, <2>4
      <3>2. n = pending[i].number /\ n <= arrivals /\ n \in Nat
        BY <1>3, <2>1, <3>1, FrameFields DEF IInv, BehindServer
      <3>3. Due[n] = clock + pending[i].delivery_rem
        BY <1>7, <3>1, <3>2 DEF DueFacts
      <3> QED BY <1>2, <1>4, <2>2, <3>1, <3>2, <3>3
    <2> QED BY <2>3, <2>4
  <1>9. /\ Due' = [n \in Numbers' |-> Due'[n]]
        /\ DOMAIN Due = Numbers
    BY <1>7 DEF DueFacts
  <1>10. Due' = [n \in Numbers \cup {arrivals'} |->
                   IF n = arrivals' THEN clock' + server_free_rem' + PropDelay + 0 ELSE Due[n]]
    BY <1>6, <1>8, <1>9
  <1>11. clock' + server_free_rem' = clock + server_free_rem + work
    BY <1>1, <1>2, <1>4
  <1> QED BY <1>4, <1>9, <1>10, <1>11 DEF Timed!Accept, Due, work

\* The front leaves at the instant it is due, and the times of the others stay:
\* DeliverDue of the schedule (internal_transition).
LEMMA ForwardKeepsSchedule ==
  ASSUME IInv, IInv', Forward
  PROVE  Timed!DeliverDue(Head(pending).number) /\ Head(pending).number \in DOMAIN Due
  <1> DEFINE front == Head(pending).number
  <1>1. pending \in Seq(InTransit) /\ pending # <<>> /\ pending' = Tail(pending)
    BY DEF IInv, TypeOK, Forward
  <1>2. UNCHANGED <<server_free_rem, arrivals, clock>> /\ clock \in Nat
    BY DEF Forward, IInv, TypeOK
  <1>3. DueFacts /\ DueFacts'
    BY DueOfFrame, PTL
  <1>4. /\ Len(pending) \in Nat /\ DOMAIN pending = 1 .. Len(pending)
        /\ 1 \in DOMAIN pending /\ front = pending[1].number
        /\ Head(pending).delivery_rem = pending[1].delivery_rem
        /\ DOMAIN pending' = 1 .. Len(pending) - 1
        /\ \A i \in DOMAIN pending' : pending'[i] = pending[i + 1]
    BY <1>1
  <1>5. front \in DOMAIN Due /\ Due[front] = clock
    <2>1. pending[1].delivery_rem = 0
      BY <1>4 DEF Forward, time_advance
    <2>2. Due[front] = clock + pending[1].delivery_rem /\ front \in Numbers
      BY <1>3, <1>4 DEF DueFacts, Numbers
    <2> QED BY <1>2, <1>3, <2>1, <2>2 DEF DueFacts
  <1>6. \A i \in DOMAIN pending : i # 1 => pending[i].number # front
    <2> SUFFICES ASSUME NEW i \in DOMAIN pending, i # 1
                 PROVE  pending[i].number # front
      OBVIOUS
    <2>1. 1 < i
      BY <1>4
    <2>2. pending[1].number < pending[i].number
      BY <1>4, <2>1 DEF IInv, FrontIsImminent
    <2>3. pending[1].number \in Nat /\ pending[i].number \in Nat
      BY <1>1, <1>4, FrameFields
    <2> QED BY <1>4, <2>2, <2>3
  <1> HIDE DEF front
  <1>7. Numbers' = Numbers \ {front}
    <2>1. ASSUME NEW n \in Numbers' PROVE n \in Numbers \ {front}
      <3>1. PICK i \in DOMAIN pending' : pending'[i].number = n
        BY DEF Numbers
      <3>2. i + 1 \in DOMAIN pending /\ i + 1 # 1 /\ pending[i + 1].number = n
        BY <1>4, <3>1
      <3> QED BY <1>6, <3>2 DEF Numbers
    <2>2. ASSUME NEW n \in Numbers \ {front} PROVE n \in Numbers'
      <3>1. PICK i \in DOMAIN pending : pending[i].number = n
        BY DEF Numbers
      <3>2. i # 1
        BY <1>4, <3>1
      <3>3. i - 1 \in DOMAIN pending' /\ pending'[i - 1] = pending[i]
        BY <1>4, <3>2
      <3> QED BY <3>1, <3>3 DEF Numbers
    <2> QED BY <2>1, <2>2
  <1>8. ASSUME NEW n \in Numbers' PROVE Due'[n] = Due[n]
    <2>1. PICK i \in DOMAIN pending' : pending'[i].number = n
      BY DEF Numbers
    <2>2. i + 1 \in DOMAIN pending /\ pending'[i] = pending[i + 1]
      BY <1>4, <2>1
    <2> QED BY <1>2, <1>3, <2>1, <2>2 DEF DueFacts
  <1>9. Due' = [n \in Numbers' |-> Due'[n]] /\ DOMAIN Due = Numbers
    BY <1>3 DEF DueFacts
  <1>10. Due' = [n \in DOMAIN Due \ {front} |-> Due[n]]
    BY <1>7, <1>8, <1>9
  <1>11. Due' = Restrict(Due, DOMAIN Due \ {front})
    BY <1>10 DEF Restrict
  <1>12. clock' + server_free_rem' = clock + server_free_rem
    BY <1>2
  <1> QED BY <1>2, <1>5, <1>11, <1>12 DEF Timed!DeliverDue, Due, front, Restrict, Timed!Restrict

\* A tick takes nothing from an instant: what remains is a tick less and the
\* clock a tick more, Advance of the schedule (age).
LEMMA ElapseKeepsSchedule ==
  ASSUME IInv, IInv', Elapse
  PROVE  Timed!Advance
  <1>1. /\ server_free_rem \in Nat /\ server_free_rem' = Less(server_free_rem)
        /\ clock \in Nat /\ clock' = clock + 1
        /\ arrivals' = arrivals
    BY DEF IInv, TypeOK, Elapse, age
  <1>2. DueFacts /\ DueFacts'
    BY DueOfFrame, PTL
  <1>3. Numbers' = Numbers
    BY ElapseFrames DEF Numbers
  <1>4. ASSUME NEW n \in Numbers
        PROVE  Due[n] > clock /\ Due'[n] = Due[n]
    <2>1. PICK i \in DOMAIN pending : pending[i].number = n
      BY DEF Numbers
    <2>2. i \in DOMAIN pending' /\ pending'[i].number = n
      BY <2>1, ElapseFrames
    <2>3. Due[n] = clock + pending[i].delivery_rem /\ Due'[n] = clock' + pending'[i].delivery_rem
      BY <1>2, <2>1, <2>2 DEF DueFacts
    <2>4. /\ pending[i].delivery_rem \in Nat /\ pending[i].delivery_rem > 0
          /\ pending'[i].delivery_rem = pending[i].delivery_rem - 1
      BY <2>1, ElapseFrames
    <2> QED BY <1>1, <2>3, <2>4
  <1>5. Due' = Due /\ DOMAIN Due = Numbers
    BY <1>2, <1>3, <1>4 DEF DueFacts
  <1>6. clock' + server_free_rem' = IF clock + server_free_rem > clock
                                    THEN clock + server_free_rem ELSE clock'
    BY <1>1, LessOfNat
  <1>7. \A n \in DOMAIN Due : Due[n] > clock
    BY <1>4, <1>5
  <1> QED BY <1>1, <1>5, <1>6, <1>7 DEF Timed!Advance, Due

\* Every step of the channel is a step of the schedule or leaves it alone.
LEMMA StepKeepsSchedule ==
  IInv /\ IInv' /\ [Next]_vars => [Timed!TimedNext]_(Timed!channelVars)
  <1> SUFFICES ASSUME IInv, IInv', [Next]_vars
               PROVE  [Timed!TimedNext]_(Timed!channelVars)
    OBVIOUS
  <1>1. CASE \E size \in Sizes : Arrive(size)
    <2> PICK size \in Sizes : Arrive(size)
      BY <1>1
    <2>1. CASE Enqueue(size)
      <3>1. Timed!Accept(size * TicksPerByte, 0)
        BY <2>1, EnqueueKeepsSchedule
      <3>2. size * TicksPerByte \in {s * TicksPerByte : s \in Sizes} /\ 0 \in {0}
        OBVIOUS
      <3>3. Timed!TimedNext
        BY <3>1, <3>2 DEF Timed!TimedNext
      <3> QED BY <3>3
    <2>2. CASE DropNth \/ DropOverflow(size)
      <3>1. UNCHANGED <<pending, server_free_rem, clock>> /\ arrivals' = arrivals + 1
        BY <2>2 DEF DropNth, DropOverflow
      <3>2. Timed!Discard
        BY <3>1 DEF Timed!Discard
      <3> QED BY <3>2 DEF Timed!TimedNext
    <2> QED BY <2>1, <2>2 DEF Arrive
  <1>2. CASE Forward
    <2>1. Timed!DeliverDue(Head(pending).number) /\ Head(pending).number \in DOMAIN Due
      BY <1>2, ForwardKeepsSchedule
    <2>2. \E n \in DOMAIN Due : Timed!DeliverDue(n)
      BY <2>1 DEF Timed!DeliverDue, Due
    <2>3. Timed!TimedNext
      BY <2>2 DEF Timed!TimedNext, Due
    <2> QED BY <2>3
  <1>3. CASE Elapse
    BY <1>3, ElapseKeepsSchedule DEF Timed!TimedNext
  <1>4. CASE UNCHANGED vars
    BY <1>4 DEF vars, Timed!channelVars
  <1> QED BY <1>1, <1>2, <1>3, <1>4 DEF Next

\* The safety part of KeepsSchedule: ageing what remains, frame by frame, is
\* keeping to the absolute schedule departure = max(now, server_free) +
\* service and delivery = departure + propagation (bottleneck_channel.hpp:8-9).
THEOREM RefinesSchedule ==
  Spec => Timed!TimedInit /\ [][Timed!TimedNext]_(Timed!channelVars)
  <1>1. Init => Timed!TimedInit
    <2> SUFFICES ASSUME Init PROVE Timed!TimedInit
      OBVIOUS
    <2>1. pending = <<>> /\ server_free_rem = 0 /\ clock = 0 /\ arrivals = 0
      BY DEF Init
    <2>2. {pending[i].number : i \in DOMAIN pending} = {}
      BY <2>1
    <2> QED BY <2>1, <2>2 DEF Timed!TimedInit
  <1> QED BY <1>1, Invariance, StepKeepsSchedule, PTL DEF Spec

-----------------------------------------------------------------------------
(* The queue and the delay.  What the server has to do is what the frames    *)
(* have left of their service, and each of them follows the one before it.   *)

\* The bytes of the first n frames of a queue that have not cleared the server.
QueuedBy(q) == [i \in DOMAIN q |-> IF q[i].service_rem > 0 THEN q[i].size ELSE 0]
Queued(q, n) == SumTo(QueuedBy(q), n)

Rem(q, n) == IF n = 0 THEN 0 ELSE q[n].service_rem
Work(q, n) == q[n].size * TicksPerByte

\* The server is free when the last frame is served; each frame's service ends
\* its own time after that of the frame before, or is under way or over; and no
\* frame is due before it is served.
ServiceLine(q, free) ==
  /\ free = Rem(q, Len(q))
  /\ \A i \in DOMAIN q :
       /\ Rem(q, i) <= Rem(q, i - 1) + Work(q, i)
       /\ Rem(q, i - 1) > 0 => Rem(q, i) = Rem(q, i - 1) + Work(q, i)
       /\ Rem(q, i) <= q[i].delivery_rem

WithinCapacity(q) == QueueCapacity # 0 => Queued(q, Len(q)) <= QueueCapacity

QueueInv == ServiceLine(pending, server_free_rem) /\ WithinCapacity(pending)

\* The fields of frames, and what their bytes add up to.
LEMMA QueuedIs ==
  ASSUME NEW q \in Seq(InTransit)
  PROVE  /\ Len(q) \in Nat /\ DOMAIN q = 1 .. Len(q) /\ TicksPerByte \in Nat
         /\ \A i \in DOMAIN q : /\ q[i].size \in Nat /\ q[i].service_rem \in Nat
                                /\ q[i].delivery_rem \in Nat
                                /\ Work(q, i) \in Nat /\ Work(q, i) > 0
         /\ \A n \in 0 .. Len(q) : Rem(q, n) \in Nat
         /\ NatTo(QueuedBy(q), Len(q))
         /\ Queued(q, Len(q)) \in Nat
<1>1. Len(q) \in Nat /\ DOMAIN q = 1 .. Len(q) /\ \A i \in DOMAIN q : q[i] \in InTransit
  OBVIOUS
<1>2. ASSUME NEW i \in DOMAIN q
      PROVE  /\ q[i].size \in Nat /\ q[i].service_rem \in Nat /\ q[i].delivery_rem \in Nat
             /\ Work(q, i) \in Nat /\ Work(q, i) > 0
  <2>1. q[i].size \in Sizes /\ q[i].service_rem \in Nat /\ q[i].delivery_rem \in Nat
    BY <1>1 DEF InTransit
  <2>2. q[i].size \in Nat /\ q[i].size * TicksPerByte \in Nat \ {0}
    BY <2>1, ServiceTakesTime
  <2> QED BY <2>1, <2>2 DEF Work
<1>3. NatTo(QueuedBy(q), Len(q))
  BY <1>1, <1>2 DEF NatTo, QueuedBy
<1>4. Queued(q, Len(q)) \in Nat
  BY <1>1, <1>3, SumNat DEF Queued
<1>5. \A n \in 0 .. Len(q) : Rem(q, n) \in Nat
  BY <1>1, <1>2 DEF Rem
<1>6. TicksPerByte \in Nat
  BY ChannelAssumption
<1> QED BY <1>1, <1>2, <1>3, <1>4, <1>5, <1>6

\* The fold over the frames of a queue is the sum of their bytes.
LEMMA FoldIsQueued ==
  ASSUME NEW q \in Seq(InTransit)
  PROVE  FoldLeft(LAMBDA sum, e : IF e.service_rem > 0 THEN sum + e.size ELSE sum, 0, q)
           = Queued(q, Len(q))
<1> DEFINE v == QueuedBy(q)
           Is(f) == f = [t \in SUBSET DOMAIN q |->
                           IF t = {} THEN 0
                           ELSE IF q[Max(t)].service_rem > 0 THEN f[t \ {Max(t)}] + q[Max(t)].size
                                ELSE f[t \ {Max(t)}]]
           g == CHOOSE f : Is(f)
<1>1. Len(q) \in Nat /\ DOMAIN q = 1 .. Len(q) /\ NatTo(v, Len(q))
  BY QueuedIs
<1>2. ASSUME NEW t \in SUBSET DOMAIN q, t # {}
      PROVE  /\ Max(t) = Largest(t) /\ t \ {Max(t)} \in SUBSET DOMAIN q
             /\ q[Max(t)].service_rem > 0 => v[Largest(t)] = q[Max(t)].size
             /\ ~(q[Max(t)].service_rem > 0) => v[Largest(t)] = 0
  <2>1. Max(t) = Largest(t)
    BY DEF Max, Largest
  <2>2. Largest(t) \in DOMAIN q
    BY <1>1, <1>2, LargestIs
  <2> QED BY <2>1, <2>2 DEF QueuedBy
<1> HIDE DEF v
<1>3. ASSUME NEW f, \A t \in SUBSET DOMAIN q : f[t] \in Nat
      PROVE  Is(f) <=> Sums(v, Len(q), f)
  <2> DEFINE a == [t \in SUBSET DOMAIN q |->
                    IF t = {} THEN 0
                    ELSE IF q[Max(t)].service_rem > 0 THEN f[t \ {Max(t)}] + q[Max(t)].size
                         ELSE f[t \ {Max(t)}]]
             b == [t \in SUBSET DOMAIN q |-> IF t = {} THEN 0 ELSE f[t \ {Largest(t)}] + v[Largest(t)]]
  <2>1. ASSUME NEW t \in SUBSET DOMAIN q PROVE a[t] = b[t]
    <3>1. CASE t = {}
      BY <3>1
    <3>2. CASE t # {}
      <4>1. f[t \ {Max(t)}] \in Nat
        BY <1>2, <1>3, <3>2
      <4>2. b[t] = f[t \ {Max(t)}] + v[Largest(t)]
        BY <1>2, <3>2
      <4>3. CASE q[Max(t)].service_rem > 0
        <5>1. a[t] = f[t \ {Max(t)}] + q[Max(t)].size /\ v[Largest(t)] = q[Max(t)].size
          BY <1>2, <3>2, <4>3
        <5> QED BY <4>2, <5>1
      <4>4. CASE ~(q[Max(t)].service_rem > 0)
        <5>1. a[t] = f[t \ {Max(t)}] /\ v[Largest(t)] = 0
          BY <1>2, <3>2, <4>4
        <5> HIDE DEF a, b
        <5> QED BY <4>1, <4>2, <5>1
      <4> QED BY <4>3, <4>4
    <3> QED BY <3>1, <3>2
  <2>2. a = [t \in SUBSET DOMAIN q |-> a[t]] /\ b = [t \in SUBSET DOMAIN q |-> b[t]]
    OBVIOUS
  <2>3. a = b
    <3> HIDE DEF a, b
    <3>1. [t \in SUBSET DOMAIN q |-> a[t]] = [t \in SUBSET DOMAIN q |-> b[t]]
      BY <2>1
    <3> QED BY <2>2, <3>1
  <2>4. Sums(v, Len(q), f) <=> f = b
    BY <1>1 DEF Sums
  <2> QED BY <2>3, <2>4
<1>4. FoldLeft(LAMBDA sum, e : IF e.service_rem > 0 THEN sum + e.size ELSE sum, 0, q) = g[DOMAIN q]
  BY DEF FoldLeft, MapThenFoldSet
<1>5. Is(g)
  <2>1. PICK f : Sums(v, Len(q), f)
    BY <1>1, SumsExist
  <2>2. SomeSums(v, Len(q), f)
    BY <2>1 DEF Sums, SomeSums
  <2>3. \A t \in SUBSET DOMAIN q : f[t] \in Nat
    BY <1>1, <2>2, SomeSumsNat
  <2>4. Is(f)
    BY <1>3, <2>1, <2>3
  <2> HIDE DEF Is
  <2> QED BY <2>4
<1>6. Sums(v, Len(q), g)
  <2> HIDE DEF g
  <2>1. ASSUME NEW t \in SUBSET DOMAIN q, t # {}
        PROVE  g[t] \in {g[t \ {Largest(t)}], g[t \ {Largest(t)}] + v[Largest(t)]}
    <3>1. g[t] = IF q[Max(t)].service_rem > 0 THEN g[t \ {Max(t)}] + q[Max(t)].size
                 ELSE g[t \ {Max(t)}]
      BY <1>5, <2>1
    <3> QED BY <1>2, <2>1, <3>1
  <2>2. g[{}] = 0
    BY <1>5
  <2>3. SomeSums(v, Len(q), g)
    BY <1>1, <2>1, <2>2 DEF SomeSums
  <2>4. \A t \in SUBSET DOMAIN q : g[t] \in Nat
    BY <1>1, <2>3, SomeSumsNat
  <2> HIDE DEF Is
  <2> QED BY <1>3, <1>5, <2>4
<1> HIDE DEF g
<1>7. Len(q) <= Len(q) /\ g[1 .. Len(q)] = SumTo(v, Len(q))
  BY <1>1, <1>6, SumIs
<1> QED BY <1>1, <1>4, <1>7 DEF Queued, v

\* So the server's backlog is that of the bytes queued, less what the frame in
\* service has had of it.
LEMMA LineIsQueue ==
  ASSUME NEW q \in Seq(InTransit), NEW free, ServiceLine(q, free)
  PROVE  /\ free <= TicksPerByte * Queued(q, Len(q))
         /\ \A i \in DOMAIN q :
              q[i].service_rem > 0 /\ (\A j \in 1 .. i - 1 : q[j].service_rem = 0) =>
                free > TicksPerByte * (Queued(q, Len(q)) - q[i].size)
<1> DEFINE last == Len(q)
           w == [i \in DOMAIN q |-> IF q[i].service_rem > 0 THEN Work(q, i) ELSE 0]
<1>1. /\ last \in Nat /\ DOMAIN q = 1 .. last /\ TicksPerByte \in Nat
      /\ \A i \in DOMAIN q : /\ q[i].size \in Nat /\ q[i].service_rem \in Nat
                             /\ Work(q, i) \in Nat /\ Work(q, i) > 0
      /\ \A n \in 0 .. last : Rem(q, n) \in Nat
      /\ NatTo(QueuedBy(q), last) /\ Queued(q, last) \in Nat
  BY QueuedIs
<1>2. NatTo(w, last)
  BY <1>1 DEF NatTo
<1>3. SumTo(w, last) = TicksPerByte * Queued(q, last)
  <2>1. Times(QueuedBy(q), w, last, TicksPerByte)
    <3> SUFFICES ASSUME NEW i \in 1 .. last PROVE w[i] = TicksPerByte * QueuedBy(q)[i]
      BY DEF Times
    <3>1. q[i].size \in Nat /\ TicksPerByte \in Nat /\ i \in DOMAIN q
      BY <1>1
    <3>2. q[i].size * TicksPerByte = TicksPerByte * q[i].size /\ TicksPerByte * 0 = 0
      BY <3>1
    <3> QED BY <3>1, <3>2 DEF Work, QueuedBy
  <2> HIDE DEF w
  <2> QED BY <1>1, <2>1, SumTimes DEF Queued
<1>4. ASSUME NEW n \in Nat, n + 1 <= last
      PROVE  /\ n + 1 \in DOMAIN q /\ Rem(q, n) \in Nat /\ Rem(q, n + 1) \in Nat
             /\ Rem(q, n + 1) = q[n + 1].service_rem
             /\ Work(q, n + 1) \in Nat /\ Work(q, n + 1) > 0
             /\ Rem(q, n + 1) <= Rem(q, n) + Work(q, n + 1)
             /\ Rem(q, n) > 0 => Rem(q, n + 1) = Rem(q, n) + Work(q, n + 1)
             /\ w[n + 1] = IF Rem(q, n + 1) > 0 THEN Work(q, n + 1) ELSE 0
             /\ SumTo(w, n + 1) = SumTo(w, n) + w[n + 1]
             /\ SumTo(w, n) \in Nat
  <2>1. n + 1 \in DOMAIN q /\ n \in 0 .. last /\ n + 1 \in 0 .. last /\ (n + 1) - 1 = n
    BY <1>1, <1>4
  <2>2. Rem(q, n + 1) = q[n + 1].service_rem
    BY <2>1 DEF Rem
  <2>3. w[n + 1] = IF Rem(q, n + 1) > 0 THEN Work(q, n + 1) ELSE 0
    BY <2>1, <2>2
  <2> HIDE DEF w
  <2>4. NatTo(w, n)
    <3>1. \A i \in 1 .. n : i \in 1 .. last
      BY <1>1, <1>4
    <3> QED BY <1>2, <3>1 DEF NatTo
  <2>5. SumTo(w, n + 1) = SumTo(w, n) + w[n + 1] /\ SumTo(w, n) \in Nat
    BY <2>4, SumNext, SumNat
  <2>6. /\ Rem(q, n + 1) <= Rem(q, n) + Work(q, n + 1)
        /\ Rem(q, n) > 0 => Rem(q, n + 1) = Rem(q, n) + Work(q, n + 1)
    BY <2>1 DEF ServiceLine
  <2> QED BY <1>1, <2>1, <2>2, <2>3, <2>5, <2>6
<1> HIDE DEF w, last
<1>5. Rem(q, last) <= SumTo(w, last)
  <2> DEFINE P == {n \in Nat : n <= last => Rem(q, n) <= SumTo(w, n)}
  <2>1. 0 \in P
    BY SumZero DEF Rem
  <2>2. ASSUME NEW n \in P PROVE n + 1 \in P
    <3>1. SUFFICES ASSUME n + 1 <= last PROVE Rem(q, n + 1) <= SumTo(w, n + 1)
      OBVIOUS
    <3>2. n \in Nat /\ Rem(q, n) <= SumTo(w, n)
      BY <1>1, <3>1
    <3>3. /\ Rem(q, n) \in Nat /\ Rem(q, n + 1) \in Nat
          /\ Work(q, n + 1) \in Nat
          /\ Rem(q, n + 1) <= Rem(q, n) + Work(q, n + 1)
          /\ w[n + 1] = IF Rem(q, n + 1) > 0 THEN Work(q, n + 1) ELSE 0
          /\ SumTo(w, n + 1) = SumTo(w, n) + w[n + 1]
          /\ SumTo(w, n) \in Nat
      BY <1>4, <3>1, <3>2
    <3> QED BY <3>2, <3>3
  <2> HIDE DEF P
  <2>3. P \in SUBSET Nat
    BY DEF P
  <2>4. P = Nat
    BY <2>1, <2>2, <2>3, SetInduction
  <2>5. last \in P /\ last <= last
    BY <1>1, <2>4
  <2> QED BY <2>5 DEF P
<1>6. free = Rem(q, last)
  BY DEF ServiceLine, last
<1>7. ASSUME NEW i \in DOMAIN q, q[i].service_rem > 0, \A j \in 1 .. i - 1 : q[j].service_rem = 0
      PROVE  free > TicksPerByte * (Queued(q, last) - q[i].size)
  <2> DEFINE P == {n \in Nat : n <= last =>
                     IF n < i THEN SumTo(w, n) = 0
                     ELSE Rem(q, n) > 0 /\ Rem(q, n) > SumTo(w, n) - Work(q, i)}
  <2>1. i \in Nat /\ i >= 1 /\ i <= last
    BY <1>1
  <2>2. 0 \in P
    BY <2>1, SumZero
  <2>3. ASSUME NEW n \in P PROVE n + 1 \in P
    <3>1. SUFFICES ASSUME n + 1 <= last
                   PROVE  IF n + 1 < i THEN SumTo(w, n + 1) = 0
                          ELSE Rem(q, n + 1) > 0 /\ Rem(q, n + 1) > SumTo(w, n + 1) - Work(q, i)
      OBVIOUS
    <3>2. n \in Nat /\ IF n < i THEN SumTo(w, n) = 0
                       ELSE Rem(q, n) > 0 /\ Rem(q, n) > SumTo(w, n) - Work(q, i)
      BY <1>1, <3>1
    <3>3. /\ n + 1 \in DOMAIN q /\ Rem(q, n) \in Nat /\ Rem(q, n + 1) \in Nat
          /\ Rem(q, n + 1) = q[n + 1].service_rem
          /\ Work(q, n + 1) \in Nat /\ Work(q, n + 1) > 0
          /\ Rem(q, n) > 0 => Rem(q, n + 1) = Rem(q, n) + Work(q, n + 1)
          /\ w[n + 1] = IF Rem(q, n + 1) > 0 THEN Work(q, n + 1) ELSE 0
          /\ SumTo(w, n + 1) = SumTo(w, n) + w[n + 1]
          /\ SumTo(w, n) \in Nat
      BY <1>4, <3>1, <3>2
    <3>4. CASE n + 1 < i
      <4>1. n + 1 \in 1 .. i - 1 /\ n < i
        BY <2>1, <3>2, <3>4
      <4>2. Rem(q, n + 1) = 0
        BY <1>7, <3>3, <4>1
      <4> QED BY <3>2, <3>3, <3>4, <4>1, <4>2
    <3>5. CASE n + 1 = i
      <4>1. n < i /\ ~(n + 1 < i)
        BY <2>1, <3>2, <3>5
      <4>2. Rem(q, n + 1) > 0 /\ Work(q, n + 1) = Work(q, i)
        BY <1>7, <3>3, <3>5
      <4> QED BY <3>2, <3>3, <4>1, <4>2
    <3>6. CASE n + 1 > i
      <4>1. ~(n < i) /\ ~(n + 1 < i)
        BY <2>1, <3>2, <3>6
      <4>2. Work(q, i) \in Nat
        BY <1>1
      <4> QED BY <3>2, <3>3, <4>1, <4>2
    <3> QED BY <2>1, <3>2, <3>4, <3>5, <3>6
  <2> HIDE DEF P
  <2>4. P \in SUBSET Nat
    BY DEF P
  <2>5. P = Nat
    BY <2>2, <2>3, <2>4, SetInduction
  <2>6. last \in P /\ last <= last /\ ~(last < i)
    BY <1>1, <2>1, <2>5
  <2>7. Rem(q, last) > SumTo(w, last) - Work(q, i)
    BY <2>6 DEF P
  <2>8. \A a, b, c \in Nat : c * a - b * c = c * (a - b)
    OBVIOUS
  <2>9. TicksPerByte * Queued(q, last) - Work(q, i) = TicksPerByte * (Queued(q, last) - q[i].size)
    BY <1>1, <2>8 DEF Work
  <2> QED BY <1>3, <1>6, <2>7, <2>9
<1> QED BY <1>3, <1>5, <1>6, <1>7 DEF last

\* QueueInv is what the runs check.
LEMMA QueueBoundsIs ==
  TypeOK /\ QueueInv => QueueBoundsDelay
<1> SUFFICES ASSUME TypeOK, QueueInv PROVE QueueBoundsDelay
  OBVIOUS
<1>1. pending \in Seq(InTransit)
  BY DEF TypeOK
<1>2. queued_bytes = Queued(pending, Len(pending))
  BY <1>1, FoldIsQueued DEF queued_bytes
<1>3. ServiceLine(pending, server_free_rem) /\ WithinCapacity(pending)
  BY DEF QueueInv
<1> QED BY <1>1, <1>2, <1>3, LineIsQueue DEF QueueBoundsDelay, WithinCapacity

\* The empty channel has nothing to do.
LEMMA InitQueue == Init => QueueInv
<1> SUFFICES ASSUME Init PROVE QueueInv
  OBVIOUS
<1>1. pending = <<>> /\ server_free_rem = 0 /\ DOMAIN pending = {} /\ Len(pending) = 0
  BY DEF Init
<1>2. Queued(pending, 0) = 0
  BY SumZero DEF Queued
<1> QED BY <1>1, <1>2, DelaysAreNat DEF QueueInv, ServiceLine, WithinCapacity, Rem

\* A frame that is queued is served after the last, and its bytes were counted
\* (external_transition).
LEMMA EnqueueQueue ==
  ASSUME IInv, QueueInv, NEW size \in Sizes, Enqueue(size)
  PROVE  QueueInv'
<1> DEFINE work  == size * TicksPerByte
           frame == [number |-> arrivals + 1, size |-> size,
                     service_rem |-> server_free_rem + work,
                     delivery_rem |-> server_free_rem + work + PropDelay]
           last == Len(pending)
<1>1. work \in Nat /\ work > 0 /\ size \in Nat /\ PropDelay \in Nat /\ QueueCapacity \in Nat
  BY ServiceTakesTime, DelaysAreNat
<1>2. arrivals \in Nat /\ server_free_rem \in Nat /\ pending \in Seq(InTransit)
  BY DelaysAreNat DEF IInv, TypeOK
<1> HIDE DEF work
<1>3. frame \in InTransit
  BY <1>1, <1>2 DEF InTransit
<1>4. /\ pending' = Append(pending, frame)
      /\ server_free_rem' = server_free_rem + work
      /\ QueueCapacity # 0 => ~(queued_bytes + size > QueueCapacity)
  BY DEF Enqueue, work, Overflows
<1>5. /\ frame.size = size /\ frame.service_rem = server_free_rem + work
      /\ frame.delivery_rem = server_free_rem + work + PropDelay
  OBVIOUS
<1> HIDE DEF frame
<1>6. /\ last \in Nat /\ DOMAIN pending = 1 .. last
      /\ DOMAIN pending' = 1 .. last + 1 /\ Len(pending') = last + 1
      /\ \A i \in DOMAIN pending : pending'[i] = pending[i]
      /\ pending'[last + 1] = frame
  BY <1>2, <1>3, <1>4
<1>7. queued_bytes = Queued(pending, last) /\ Queued(pending, last) \in Nat
  BY <1>2, FoldIsQueued, QueuedIs DEF queued_bytes
<1>8. /\ server_free_rem = Rem(pending, last)
      /\ \A i \in DOMAIN pending :
           /\ Rem(pending, i) <= Rem(pending, i - 1) + Work(pending, i)
           /\ Rem(pending, i - 1) > 0 => Rem(pending, i) = Rem(pending, i - 1) + Work(pending, i)
           /\ Rem(pending, i) <= pending[i].delivery_rem
  BY DEF QueueInv, ServiceLine
<1> HIDE DEF last
<1>9. \A n \in 0 .. last : Rem(pending', n) = Rem(pending, n)
  BY <1>6 DEF Rem
<1>10. Rem(pending', last + 1) = server_free_rem + work /\ Work(pending', last + 1) = work
  BY <1>5, <1>6 DEF Rem, Work, work
<1>11. ServiceLine(pending', server_free_rem')
  <2>1. ASSUME NEW i \in DOMAIN pending'
        PROVE  /\ Rem(pending', i) <= Rem(pending', i - 1) + Work(pending', i)
               /\ Rem(pending', i - 1) > 0 =>
                    Rem(pending', i) = Rem(pending', i - 1) + Work(pending', i)
               /\ Rem(pending', i) <= pending'[i].delivery_rem
    <3>1. CASE i = last + 1
      <4>1. i - 1 = last /\ last \in 0 .. last
        BY <1>6, <3>1
      <4>2. Rem(pending', i - 1) = server_free_rem
        BY <1>8, <1>9, <4>1
      <4>3. pending'[i].delivery_rem = server_free_rem + work + PropDelay
        BY <1>5, <1>6, <3>1
      <4> QED BY <1>1, <1>2, <1>10, <3>1, <4>2, <4>3
    <3>2. CASE i # last + 1
      <4>1. i \in DOMAIN pending /\ i \in 0 .. last /\ i - 1 \in 0 .. last
        BY <1>6, <3>2
      <4>2. pending'[i] = pending[i] /\ Work(pending', i) = Work(pending, i)
        BY <1>6, <4>1 DEF Work
      <4> QED BY <1>8, <1>9, <4>1, <4>2
    <3> QED BY <3>1, <3>2
  <2> QED BY <1>4, <1>6, <1>10, <2>1 DEF ServiceLine
<1>12. WithinCapacity(pending')
  <2> DEFINE v == QueuedBy(pending)
             w == QueuedBy(pending')
  <2>1. SameTo(w, v, last) /\ w[last + 1] = size
    <3>1. last + 1 \in DOMAIN pending' /\ frame.service_rem > 0
      BY <1>1, <1>2, <1>5, <1>6
    <3> QED BY <1>5, <1>6, <3>1 DEF SameTo, QueuedBy
  <2> HIDE DEF v, w
  <2>2. SumTo(w, last + 1) = SumTo(w, last) + w[last + 1] /\ SumTo(w, last) = SumTo(v, last)
    BY <1>6, <2>1, SumNext, SumSame
  <2>3. Queued(pending', last + 1) = Queued(pending, last) + size
    BY <2>1, <2>2 DEF Queued, v, w
  <2> QED BY <1>1, <1>4, <1>6, <1>7, <2>3 DEF WithinCapacity
<1> QED BY <1>11, <1>12 DEF QueueInv

\* The frame that leaves has been served (internal_transition).
LEMMA ForwardQueue ==
  ASSUME IInv, QueueInv, Forward
  PROVE  QueueInv'
<1> DEFINE last == Len(pending)
           rest == last - 1
<1>1. /\ pending \in Seq(InTransit) /\ pending # <<>> /\ pending' = Tail(pending)
      /\ server_free_rem' = server_free_rem
  BY DEF IInv, TypeOK, Forward
<1>2. /\ last \in Nat /\ DOMAIN pending = 1 .. last /\ rest \in Nat /\ 1 + rest = last
      /\ 1 \in DOMAIN pending /\ Head(pending) = pending[1]
      /\ DOMAIN pending' = 1 .. rest /\ Len(pending') = rest
      /\ \A i \in 1 .. rest : pending'[i] = pending[i + 1]
  BY <1>1
<1>3. /\ server_free_rem = Rem(pending, last)
      /\ \A i \in DOMAIN pending :
           /\ Rem(pending, i) <= Rem(pending, i - 1) + Work(pending, i)
           /\ Rem(pending, i - 1) > 0 => Rem(pending, i) = Rem(pending, i - 1) + Work(pending, i)
           /\ Rem(pending, i) <= pending[i].delivery_rem
  BY DEF QueueInv, ServiceLine
<1>4. Rem(pending, 1) = 0
  <2>1. pending[1].delivery_rem = 0
    BY <1>2 DEF Forward, time_advance
  <2>2. Rem(pending, 1) <= 0
    BY <1>2, <1>3, <2>1
  <2>3. Rem(pending, 1) \in Nat
    <3>1. 1 \in 0 .. last
      BY <1>2
    <3> QED BY <1>1, <3>1, QueuedIs
  <2> QED BY <2>2, <2>3
<1>5. NatTo(QueuedBy(pending), last) /\ Queued(pending, last) \in Nat /\ QueueCapacity \in Nat
  BY <1>1, QueuedIs, DelaysAreNat
<1> HIDE DEF last, rest
<1>6. \A n \in 0 .. rest : Rem(pending', n) = Rem(pending, n + 1)
  BY <1>2, <1>4 DEF Rem
<1>7. ServiceLine(pending', server_free_rem')
  <2>1. ASSUME NEW i \in DOMAIN pending'
        PROVE  /\ Rem(pending', i) <= Rem(pending', i - 1) + Work(pending', i)
               /\ Rem(pending', i - 1) > 0 =>
                    Rem(pending', i) = Rem(pending', i - 1) + Work(pending', i)
               /\ Rem(pending', i) <= pending'[i].delivery_rem
    <3>1. i \in 0 .. rest /\ i - 1 \in 0 .. rest /\ i + 1 \in DOMAIN pending
          /\ (i + 1) - 1 = i /\ (i - 1) + 1 = i
      BY <1>2
    <3>2. pending'[i] = pending[i + 1] /\ Work(pending', i) = Work(pending, i + 1)
      BY <1>2 DEF Work
    <3>3. Rem(pending', i) = Rem(pending, i + 1) /\ Rem(pending', i - 1) = Rem(pending, i)
      BY <1>6, <3>1
    <3> QED BY <1>3, <3>1, <3>2, <3>3
  <2>2. Rem(pending', rest) = Rem(pending, last)
    <3>1. rest \in 0 .. rest /\ rest + 1 = last
      BY <1>2
    <3> QED BY <1>6, <3>1
  <2> QED BY <1>1, <1>2, <1>3, <2>1, <2>2 DEF ServiceLine
<1>8. Queued(pending', rest) \in Nat /\ Queued(pending', rest) <= Queued(pending, last)
  <2> DEFINE v == QueuedBy(pending)
             w == QueuedBy(pending')
  <2>1. NatTo(v, 1) /\ NatTo(w, rest) /\ GoesOn(v, 1, w, rest)
    <3>1. \A i \in 1 .. rest : 1 + i \in 1 .. last /\ 1 + i \in DOMAIN pending /\ 1 + i = i + 1
                               /\ i \in DOMAIN pending'
      BY <1>2
    <3>2. \A i \in 1 .. rest : v[1 + i] = w[i]
      BY <1>2, <3>1 DEF QueuedBy
    <3>3. \A i \in 1 .. last : v[i] \in Nat
      BY <1>5 DEF NatTo
    <3>4. NatTo(w, rest) /\ GoesOn(v, 1, w, rest)
      BY <3>1, <3>2, <3>3 DEF NatTo, GoesOn
    <3>5. NatTo(v, 1)
      BY <1>2, <3>3 DEF NatTo
    <3> QED BY <3>4, <3>5
  <2> HIDE DEF v, w
  <2>2. SumTo(v, 1 + rest) = SumTo(v, 1) + SumTo(w, rest)
    BY <1>2, <2>1, SumSplit
  <2>3. SumTo(v, 1) \in Nat /\ SumTo(w, rest) \in Nat
    BY <1>2, <2>1, SumNat
  <2>4. SumTo(w, rest) \in Nat /\ SumTo(w, rest) <= SumTo(v, last)
    BY <1>2, <2>2, <2>3
  <2> QED BY <2>4 DEF Queued, v, w
<1>9. WithinCapacity(pending')
  BY <1>2, <1>5, <1>8 DEF WithinCapacity, QueueInv, last
<1> QED BY <1>7, <1>9 DEF QueueInv

\* A tick ends the service of a frame, and the next has all its own to come (age).
LEMMA ElapseQueue ==
  ASSUME IInv, QueueInv, Elapse
  PROVE  QueueInv'
<1> DEFINE last == Len(pending)
<1>1. pending \in Seq(InTransit) /\ server_free_rem' = Less(server_free_rem)
  BY DEF IInv, TypeOK, Elapse, age
<1>2. /\ DOMAIN pending' = DOMAIN pending /\ pending' \in Seq(InTransit)
      /\ \A i \in DOMAIN pending :
           /\ pending'[i].size = pending[i].size
           /\ pending'[i].service_rem = Less(pending[i].service_rem)
           /\ pending[i].delivery_rem \in Nat /\ pending[i].delivery_rem > 0
           /\ pending'[i].delivery_rem = pending[i].delivery_rem - 1
  BY ElapseFrames
<1>3. /\ last \in Nat /\ DOMAIN pending = 1 .. last /\ Len(pending') = last
      /\ \A i \in DOMAIN pending : /\ pending[i].size \in Nat /\ pending[i].service_rem \in Nat
                                   /\ Work(pending, i) \in Nat /\ Work(pending, i) > 0
      /\ \A n \in 0 .. last : Rem(pending, n) \in Nat
      /\ NatTo(QueuedBy(pending), last) /\ Queued(pending, last) \in Nat
      /\ NatTo(QueuedBy(pending'), last) /\ Queued(pending', last) \in Nat
  <2>1. Len(pending') = last
    <3>1. last \in Nat /\ DOMAIN pending = 1 .. last
      BY <1>1
    <3>2. Len(pending') \in Nat /\ DOMAIN pending' = 1 .. Len(pending')
      BY <1>2, QueuedIs
    <3> HIDE DEF last
    <3> QED BY <1>2, <3>1, <3>2
  <2> QED BY <1>1, <1>2, <2>1, QueuedIs
<1>4. /\ server_free_rem = Rem(pending, last)
      /\ \A i \in DOMAIN pending :
           /\ Rem(pending, i) <= Rem(pending, i - 1) + Work(pending, i)
           /\ Rem(pending, i - 1) > 0 => Rem(pending, i) = Rem(pending, i - 1) + Work(pending, i)
           /\ Rem(pending, i) <= pending[i].delivery_rem
  BY DEF QueueInv, ServiceLine
<1> HIDE DEF last
<1>5. \A n \in 0 .. last : Rem(pending', n) = Less(Rem(pending, n))
  <2>1. Less(0) = 0
    BY LessOfNat
  <2> QED BY <1>2, <1>3, <2>1 DEF Rem
<1>6. ServiceLine(pending', server_free_rem')
  <2>1. ASSUME NEW i \in DOMAIN pending'
        PROVE  /\ Rem(pending', i) <= Rem(pending', i - 1) + Work(pending', i)
               /\ Rem(pending', i - 1) > 0 =>
                    Rem(pending', i) = Rem(pending', i - 1) + Work(pending', i)
               /\ Rem(pending', i) <= pending'[i].delivery_rem
    <3>1. i \in DOMAIN pending /\ i \in 0 .. last /\ i - 1 \in 0 .. last
      BY <1>2, <1>3
    <3>2. Work(pending', i) = Work(pending, i)
      BY <1>2, <3>1 DEF Work
    <3>3. /\ Rem(pending', i) = Less(Rem(pending, i)) /\ Rem(pending', i - 1) = Less(Rem(pending, i - 1))
          /\ Rem(pending, i) \in Nat /\ Rem(pending, i - 1) \in Nat
          /\ Work(pending, i) \in Nat /\ Work(pending, i) > 0
      BY <1>3, <1>5, <3>1
    <3>4. /\ Rem(pending, i) <= Rem(pending, i - 1) + Work(pending, i)
          /\ Rem(pending, i - 1) > 0 => Rem(pending, i) = Rem(pending, i - 1) + Work(pending, i)
          /\ Rem(pending, i) <= pending[i].delivery_rem
      BY <1>4, <3>1
    <3>5. pending[i].delivery_rem \in Nat /\ pending[i].delivery_rem > 0
          /\ pending'[i].delivery_rem = pending[i].delivery_rem - 1
      BY <1>2, <3>1
    <3>6. \A n \in Nat : Less(n) = IF n > 1 THEN n - 1 ELSE 0
      BY DEF Less
    <3> HIDE DEF Less
    <3>7. Rem(pending', i) <= pending'[i].delivery_rem
      BY <3>3, <3>4, <3>5, <3>6
    <3>8. /\ Rem(pending', i) <= Rem(pending', i - 1) + Work(pending', i)
          /\ Rem(pending', i - 1) > 0 => Rem(pending', i) = Rem(pending', i - 1) + Work(pending', i)
      BY <3>2, <3>3, <3>4, <3>6
    <3> QED BY <3>7, <3>8
  <2>2. Rem(pending', last) = Less(Rem(pending, last))
    <3>1. last \in 0 .. last
      BY <1>3
    <3> QED BY <1>5, <3>1
  <2> QED BY <1>1, <1>3, <1>4, <2>1, <2>2 DEF ServiceLine
<1>7. Queued(pending', last) <= Queued(pending, last)
  <2>1. LessTo(QueuedBy(pending'), QueuedBy(pending), last)
    <3> SUFFICES ASSUME NEW i \in DOMAIN pending
                 PROVE  QueuedBy(pending')[i] <= QueuedBy(pending)[i]
      BY <1>3 DEF LessTo
    <3>1. pending[i].service_rem \in Nat /\ pending[i].size \in Nat /\ pending'[i].size = pending[i].size
          /\ pending'[i].service_rem = Less(pending[i].service_rem) /\ i \in DOMAIN pending'
      BY <1>2, <1>3
    <3>2. pending'[i].service_rem > 0 => pending[i].service_rem > 0
      BY <3>1 DEF Less
    <3> QED BY <3>1, <3>2 DEF QueuedBy
  <2> QED BY <1>3, <2>1, SumLess DEF Queued
<1>8. WithinCapacity(pending')
  BY <1>3, <1>7, DelaysAreNat DEF WithinCapacity, QueueInv, last
<1> QED BY <1>6, <1>8 DEF QueueInv

\* The bytes queued never exceed the limit and are what the server has to do, up
\* to what the frame in service has had of it (bottleneck_channel.hpp:101-117).
THEOREM QueueBounds == Spec => []QueueBoundsDelay
<1>1. IInv /\ QueueInv /\ [Next]_vars => QueueInv'
  <2> SUFFICES ASSUME IInv, QueueInv, [Next]_vars PROVE QueueInv'
    OBVIOUS
  <2>1. CASE \E size \in Sizes : Arrive(size)
    <3> PICK size \in Sizes : Arrive(size)
      BY <2>1
    <3>1. CASE Enqueue(size)
      BY <3>1, EnqueueQueue
    <3>2. CASE DropNth \/ DropOverflow(size)
      <4>1. UNCHANGED <<pending, server_free_rem>>
        BY <3>2 DEF DropNth, DropOverflow
      <4> QED BY <4>1 DEF QueueInv
    <3> QED BY <3>1, <3>2 DEF Arrive
  <2>2. CASE Forward
    BY <2>2, ForwardQueue
  <2>3. CASE Elapse
    BY <2>3, ElapseQueue
  <2>4. CASE UNCHANGED vars
    BY <2>4 DEF vars, QueueInv
  <2> QED BY <2>1, <2>2, <2>3, <2>4 DEF Next
<1>2. IInv /\ QueueInv => QueueBoundsDelay
  BY QueueBoundsIs DEF IInv
<1> QED BY <1>1, <1>2, InitQueue, Invariance, PTL DEF Spec

=============================================================================
