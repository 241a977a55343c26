--------------------------- MODULE SmPwm01cProofs ---------------------------
(***************************************************************************)
(* SmPwm01c for every clock, sample time and set of channels: its types,   *)
(* the low time it counts and what a sample of it can be at most, how high *)
(* the exponential average gets and that its readings keep their scale,    *)
(* and, built with the moving average, that it implements DustSensor.      *)
(***************************************************************************)
EXTENDS SmPwm01c, SmPwmValueProofs

\* Clock values are numbers below the modulus.
LEMMA ClockValue ==
  ASSUME NEW n \in Int
  PROVE  n % ClockMod \in Times
<1>1. ClockMod \in Nat \ {0}
  BY PulsesFitClock
<1> QED BY <1>1, Remainder DEF Times

-----------------------------------------------------------------------------
(* Types.                                                                  *)

\* What a channel's average ranges over, in the build at hand.
Averages == IF MovingAverage THEN CircBufs ELSE Samples

\* A concentration fits a slot of the buffer.
LEMMA ConcentrationIsSample ==
  ASSUME NEW n \in Nat
  PROVE  Concentration(n) \in Samples
BY ConcentrationFits DEF IsUint16, Samples

\* A sample updates an average to an average.
LEMMA UpdatedIsAverage ==
  ASSUME NEW a \in Averages, NEW s \in Samples
  PROVE  Updated(a, s) \in Averages
<1>1. CASE MovingAverage
  BY <1>1, PushIsBuf DEF Averages, Updated
<1>2. CASE ~ MovingAverage
  BY <1>2, ExpAverageFits DEF Averages, Updated, IsUint16, Samples
<1> QED BY <1>1, <1>2

\* The cleared buffer is a buffer.
LEMMA EmptyIsBuf == EmptyBuf \in CircBufs
<1>1. 0 \in Slots /\ 0 \in Samples
  BY BufferLenIsPositive DEF Slots, Samples
<1> QED BY <1>1 DEF EmptyBuf, CircBufs

\* The cleared average is an average.
LEMMA NoAverageIsAverage == NoAverage \in Averages
BY EmptyIsBuf DEF NoAverage, Averages, Samples

\* One sample of every channel keeps the averages' type.
LEMMA SampleKeepsAverages ==
  ASSUME TypeOK, SampleTimerCb
  PROVE  average' \in [Channels -> Averages]
<1> SUFFICES ASSUME NEW c \in Channels
             PROVE  Updated(average[c], Concentration(lpo[c])) \in Averages
  BY DEF SampleTimerCb
<1>1. lpo[c] \in Nat
  BY PulsesFitClock DEF TypeOK, Times
<1>2. average[c] \in Averages
  BY DEF TypeOK, Averages
<1> QED BY <1>1, <1>2, ConcentrationIsSample, UpdatedIsAverage

\* The initial types.
LEMMA TypeInit == Init => TypeOK
<1> SUFFICES ASSUME Init PROVE TypeOK
  OBVIOUS
<1>1. 0 \in Times /\ 0 \in 0 .. MaxPulse
  BY PulsesFitClock DEF Times
<1>2. average \in [Channels -> Averages]
  BY NoAverageIsAverage DEF Init
<1>3. timer \in NotSet .. SampleTime
  BY CurveConstants DEF Init, NotSet
<1> QED BY <1>1, <1>2, <1>3 DEF Init, TypeOK, Averages

\* Every interrupt and every call keeps the types.
LEMMA TypeStep == TypeOK /\ [Next]_vars => TypeOK'
<1> SUFFICES ASSUME TypeOK, [Next]_vars PROVE TypeOK'
  OBVIOUS
<1>clock. ClockMod \in Nat \ {0} /\ SampleTime \in NotSet .. SampleTime /\ NotSet \in NotSet .. SampleTime
  BY PulsesFitClock, CurveConstants DEF NotSet
<1>zero. 0 \in Times /\ 0 \in 0 .. MaxPulse
  BY PulsesFitClock DEF Times
<1>1. ASSUME NEW c \in Channels, Edge(c) PROVE TypeOK'
  <2>1. unsampled' \in [Channels -> Times]
    <3>1. (unsampled[c] + pulse[c]) % ClockMod \in Times
      <4>1. unsampled[c] + pulse[c] \in Int
        BY DEF TypeOK, Times
      <4> QED BY <4>1, ClockValue
    <3> QED BY <1>1, <3>1 DEF Edge, TypeOK
  <2>2. pulse' \in [Channels -> 0 .. MaxPulse]
    BY <1>1, <1>zero DEF Edge, TypeOK
  <2>3. pin' \in [Channels -> {"low", "high"}]
    BY <1>1 DEF Edge, TypeOK
  <2>4. pending' \in [Channels -> BOOLEAN] /\ missed' \in [Channels -> BOOLEAN]
    BY <1>1 DEF Edge, TypeOK
  <2> QED BY <1>1, <2>1, <2>2, <2>3, <2>4 DEF Edge, TypeOK, Times
<1>2. ASSUME Tick PROVE TypeOK'
  <2>1. now' \in Times
    <3>1. now + 1 \in Int
      BY DEF TypeOK, Times
    <3> QED BY <1>2, <3>1, ClockValue DEF Tick
  <2>2. timer' \in NotSet .. SampleTime
    BY <1>2, <1>clock, CurveConstants DEF Tick, NoInterruptWaits, TypeOK, NotSet
  <2>3. pulse' \in [Channels -> 0 .. MaxPulse]
    <3> SUFFICES ASSUME NEW c \in Channels
                 PROVE  (IF pin[c] = "low" THEN pulse[c] + 1 ELSE pulse[c]) \in 0 .. MaxPulse
      BY <1>2 DEF Tick
    <3> QED BY <1>2, PulsesFitClock DEF Tick, TypeOK
  <2> QED BY <1>2, <2>1, <2>2, <2>3 DEF Tick, TypeOK, Times, histVars
<1>3. ASSUME NEW c \in Channels, PinCb(c) PROVE TypeOK'
  <2>1. lpo' \in [Channels -> Times]
    <3>1. (lpo[c] + now - start_time[c]) % ClockMod \in Times
      <4>1. lpo[c] + now - start_time[c] \in Int
        BY DEF TypeOK, Times
      <4> QED BY <4>1, ClockValue
    <3> QED BY <1>3, <3>1 DEF PinCb, TypeOK
  <2>2. start_time' \in [Channels -> Times]
    BY <1>3 DEF PinCb, TypeOK
  <2>3. pending' \in [Channels -> BOOLEAN]
    BY <1>3 DEF PinCb, TypeOK
  <2> QED BY <1>3, <2>1, <2>2, <2>3 DEF PinCb, TypeOK, Times, histVars
<1>4. ASSUME SampleTimerCb PROVE TypeOK'
  <2>1. unsampled' \in [Channels -> Times]
    <3> SUFFICES ASSUME NEW c \in Channels
                 PROVE  (unsampled[c] - lpo[c]) % ClockMod \in Times
      BY <1>4, <1>zero DEF SampleTimerCb
    <3>1. unsampled[c] - lpo[c] \in Int
      BY DEF TypeOK, Times
    <3> QED BY <3>1, ClockValue
  <2>2. missed' \in [Channels -> BOOLEAN]
    BY <1>4 DEF SampleTimerCb, TypeOK
  <2>3. lpo' \in [Channels -> Times]
    BY <1>4, <1>zero DEF SampleTimerCb
  <2>4. average' \in [Channels -> Averages]
    BY <1>4, SampleKeepsAverages
  <2>5. timer' \in NotSet .. SampleTime
    BY <1>4, <1>clock DEF SampleTimerCb
  <2> QED BY <1>4, <2>1, <2>2, <2>3, <2>4, <2>5 DEF SampleTimerCb, TypeOK, Averages, Times, pinVars
<1>5. ASSUME Start PROVE TypeOK'
  <2>1. average' \in [Channels -> Averages]
    BY <1>5, NoAverageIsAverage DEF Start
  <2>2. missed' \in [Channels -> BOOLEAN]
    BY <1>5 DEF Start, TypeOK
  <2>3. lpo' \in [Channels -> Times] /\ unsampled' \in [Channels -> Times]
    BY <1>5, <1>zero DEF Start
  <2> QED BY <1>5, <1>clock, <2>1, <2>2, <2>3 DEF Start, TypeOK, Averages, Times, pinVars
<1>6. ASSUME Stop PROVE TypeOK'
  BY <1>6, <1>clock DEF Stop, TypeOK, Times, pinVars, histVars
<1>7. CASE UNCHANGED vars
  BY <1>7 DEF vars, pinVars, histVars, TypeOK, Times
<1> QED BY <1>1, <1>2, <1>3, <1>4, <1>5, <1>6, <1>7 DEF Next, Edges, Interrupts, Use

\* The clock, the low times and the samples stay within their C types, and no
\* pulse is taken for longer than the sensor's longest.
THEOREM TypeCorrect == Spec => []TypeOK
BY TypeInit, TypeStep, PTL DEF Spec

-----------------------------------------------------------------------------
(* Every pulse is counted once.                                            *)

\* The time a pin's interrupt would measure now.
Since(c) == (now - start_time[c]) % ClockMod

\* While no edge was missed: a low pin's interrupt has noted when the pulse
\* began, and only a pulse that is over and whose interrupt has not run yet
\* is still to be counted.
Measured(c) ==
  /\ pin[c] = "low" /\ ~ pending[c] => Since(c) = pulse[c]
  /\ pin[c] = "low" /\ pending[c] => pulse[c] = 0
  /\ pin[c] = "high" /\ pending[c] => unsampled[c] = (lpo[c] + Since(c)) % ClockMod
  /\ ~ (pin[c] = "high" /\ pending[c]) => lpo[c] = unsampled[c]

CountInv == \A c \in Channels : ~ missed[c] => Measured(c)

\* Nothing is counted before the first start.
LEMMA CountInit == Init => CountInv
BY DEF Init, CountInv, Measured

\* One more tick is measured as one more, also when the clock wraps.
LEMMA TickIsMeasured ==
  ASSUME TypeOK, NEW c \in Channels, Since(c) = pulse[c], pulse[c] < MaxPulse
  PROVE  (((now + 1) % ClockMod) - start_time[c]) % ClockMod = pulse[c] + 1
<1> DEFINE k == ClockMod
           s == start_time[c]
           p == pulse[c]
           now1 == now + 1
           gap == now - s
<1>1. k \in Nat \ {0} /\ now \in Int /\ s \in Int /\ p \in 0 .. MaxPulse /\ p + 1 \in 0 .. k - 1
  BY PulsesFitClock DEF TypeOK, Times
<1>2. now1 \in Int /\ -s \in Int /\ gap \in Int
  BY <1>1
<1>3. gap % k = p
  BY DEF Since
<1> HIDE DEF k, p, s
<1>4. ((now1 % k) + (-s)) % k = (now1 + (-s)) % k
  <2> HIDE DEF now1
  <2> QED BY <1>1, <1>2, ReduceTerm
<1>5. ((gap % k) + 1) % k = (gap + 1) % k
  <2> DEFINE one == 1
  <2>1. one \in Int
    OBVIOUS
  <2> HIDE DEF gap, one
  <2>2. ((gap % k) + one) % k = (gap + one) % k
    BY <1>1, <1>2, <2>1, ReduceTerm
  <2> QED BY <2>2 DEF one
<1>6. (p + 1) % k = p + 1
  BY <1>1, Small
<1>7. now1 + (-s) = gap + 1
  BY <1>1
<1>8. (now1 % k) \in Int
  BY <1>1, <1>2, Remainder
<1>9. (now1 % k) + (-s) = (now1 % k) - s
  BY <1>1, <1>8
<1> QED BY <1>3, <1>4, <1>5, <1>6, <1>7, <1>9 DEF k, s, p

\* What PinCb adds is the time since the pulse began.
LEMMA PulseIsAdded ==
  ASSUME TypeOK, NEW c \in Channels
  PROVE  (lpo[c] + now - start_time[c]) % ClockMod = (lpo[c] + Since(c)) % ClockMod
<1> DEFINE k == ClockMod
           gap == now - start_time[c]
           l == lpo[c]
<1>1. k \in Nat \ {0} /\ gap \in Int /\ l \in Int /\ now \in Int /\ start_time[c] \in Int
  BY PulsesFitClock DEF TypeOK, Times
<1>2. l + now - start_time[c] = gap + l
  BY <1>1
<1> HIDE DEF k, gap, l
<1>3. ((gap % k) + l) % k = (gap + l) % k
  BY <1>1, ReduceTerm
<1>4. gap % k \in Int
  BY <1>1, Remainder
<1>5. (gap % k) + l = l + (gap % k)
  BY <1>1, <1>4
<1> QED BY <1>2, <1>3, <1>5 DEF Since, k, gap, l

\* The sample takes what was counted and leaves the pulse that waits for its
\* interrupt to the next one.
LEMMA PulseIsLeft ==
  ASSUME TypeOK, NEW c \in Channels, unsampled[c] = (lpo[c] + Since(c)) % ClockMod
  PROVE  (unsampled[c] - lpo[c]) % ClockMod = (0 + Since(c)) % ClockMod
<1> DEFINE k == ClockMod
           l == lpo[c]
           s == Since(c)
           t == l + s
<1>1. k \in Nat \ {0} /\ l \in Int
  BY PulsesFitClock DEF TypeOK, Times
<1>2. s \in Int
  <2>1. now - start_time[c] \in Int
    BY DEF TypeOK, Times
  <2> QED BY <1>1, <2>1, Remainder DEF Since
<1> HIDE DEF k, l, s
<1>3. t \in Int /\ -l \in Int /\ t + (-l) = 0 + s
  BY <1>1, <1>2
<1> HIDE DEF t
<1>4. ((t % k) + (-l)) % k = (t + (-l)) % k
  BY <1>1, <1>3, ReduceTerm
<1>5. (t % k) \in Int
  BY <1>1, <1>3, Remainder
<1>6. (t % k) + (-l) = (t % k) - l
  BY <1>1, <1>5
<1>7. unsampled[c] = t % k
  BY DEF k, l, s, t
<1> QED BY <1>3, <1>4, <1>6, <1>7 DEF k, l, s

\* Every step keeps the count of the pulses.
LEMMA CountStep == TypeOK /\ CountInv /\ [Next]_vars => CountInv'
<1> SUFFICES ASSUME TypeOK, CountInv, [Next]_vars,
                    NEW d \in Channels, ~ missed'[d]
             PROVE  Measured(d)'
  BY DEF CountInv
<1>types. /\ ClockMod \in Nat \ {0} /\ MaxPulse < ClockMod
          /\ lpo[d] \in Times /\ unsampled[d] \in Times /\ pulse[d] \in 0 .. MaxPulse
          /\ pin[d] \in {"low", "high"} /\ pending[d] \in BOOLEAN /\ missed[d] \in BOOLEAN
          /\ now \in Times
  BY PulsesFitClock DEF TypeOK
<1>inv. ~ missed[d] => Measured(d)
  BY DEF CountInv
<1>1. ASSUME NEW c \in Channels, Edge(c) PROVE Measured(d)'
  <2>1. CASE c # d
    <3>1. UNCHANGED <<pin[d], pending[d], pulse[d], unsampled[d], missed[d], now, start_time, lpo>>
      BY <1>1, <2>1 DEF Edge, TypeOK
    <3> QED BY <3>1, <1>inv DEF Measured, Since
  <2>2. CASE c = d
    <3>1. ~ missed[d] /\ ~ pending[d] /\ irq
      BY <1>1, <2>2 DEF Edge, TypeOK
    <3>2. Measured(d)
      BY <3>1, <1>inv
    <3>3. pending'[d] /\ UNCHANGED <<now, start_time, lpo>>
      BY <1>1, <2>2, <3>1 DEF Edge, TypeOK
    <3>4. CASE pin[d] = "high"
      <4>1. pin'[d] = "low" /\ pulse'[d] = 0 /\ UNCHANGED unsampled
        BY <1>1, <2>2, <3>4 DEF Edge, TypeOK
      <4> QED BY <3>1, <3>2, <3>3, <3>4, <4>1 DEF Measured
    <3>5. CASE pin[d] = "low"
      <4>1. pin'[d] = "high" /\ unsampled'[d] = (unsampled[d] + pulse[d]) % ClockMod
        BY <1>1, <2>2, <3>5 DEF Edge, TypeOK
      <4>2. Since(d) = pulse[d] /\ unsampled[d] = lpo[d]
        BY <3>1, <3>2, <3>5 DEF Measured
      <4> QED BY <3>3, <4>1, <4>2 DEF Measured, Since
    <3> QED BY <3>4, <3>5, <1>types
  <2> QED BY <2>1, <2>2
<1>2. ASSUME Tick PROVE Measured(d)'
  <2>1. ~ missed[d] /\ ~ pending[d] /\ Measured(d)
    BY <1>2, <1>inv DEF Tick, NoInterruptWaits, histVars
  <2>2. UNCHANGED <<pin, pending, start_time, lpo, unsampled>> /\ now' = (now + 1) % ClockMod
    BY <1>2 DEF Tick, histVars
  <2>3. CASE pin[d] = "low"
    <3>1. pulse[d] < MaxPulse /\ pulse'[d] = pulse[d] + 1
      BY <1>2, <2>3, <1>types DEF Tick
    <3>2. Since(d) = pulse[d]
      BY <2>1, <2>3 DEF Measured
    <3>3. Since(d)' = pulse[d] + 1
      BY <2>2, <3>1, <3>2, TickIsMeasured DEF Since
    <3> QED BY <2>1, <2>2, <2>3, <3>1, <3>3 DEF Measured
  <2>4. CASE pin[d] # "low"
    BY <2>1, <2>2, <2>4 DEF Measured
  <2> QED BY <2>3, <2>4
<1>3. ASSUME NEW c \in Channels, PinCb(c) PROVE Measured(d)'
  <2>1. UNCHANGED <<now, pin, pulse, unsampled, missed>>
    BY <1>3 DEF PinCb, histVars
  <2>2. Measured(d)
    BY <2>1, <1>inv
  <2>3. CASE c # d
    <3>1. UNCHANGED <<pending[d], start_time[d], lpo[d]>>
      BY <1>3, <2>3 DEF PinCb, TypeOK
    <3> QED BY <2>1, <2>2, <3>1 DEF Measured, Since
  <2>4. CASE c = d
    <3>1. pending[d] /\ ~ pending'[d]
      BY <1>3, <2>4 DEF PinCb, TypeOK
    <3>2. CASE pin[d] = "low"
      <4>1. start_time'[d] = now /\ UNCHANGED lpo
        BY <1>3, <2>4, <3>2 DEF PinCb, TypeOK
      <4>2. Since(d)' = 0
        <5>1. now - now = 0 /\ 0 \in 0 .. ClockMod - 1
          BY <1>types DEF Times
        <5> QED BY <1>types, <2>1, <4>1, <5>1, Small DEF Since
      <4> QED BY <2>1, <2>2, <3>1, <3>2, <4>1, <4>2 DEF Measured
    <3>3. CASE pin[d] = "high"
      <4>1. lpo'[d] = (lpo[d] + now - start_time[d]) % ClockMod
        BY <1>3, <2>4, <3>3 DEF PinCb, TypeOK
      <4>2. unsampled[d] = (lpo[d] + Since(d)) % ClockMod
        BY <2>2, <3>1, <3>3 DEF Measured
      <4> QED BY <2>1, <3>1, <3>3, <4>1, <4>2, PulseIsAdded DEF Measured
    <3> QED BY <3>2, <3>3, <1>types
  <2> QED BY <2>3, <2>4
<1>4. ASSUME SampleTimerCb PROVE Measured(d)'
  <2>1. UNCHANGED <<now, pin, pulse, pending, start_time>> /\ lpo'[d] = 0
    BY <1>4 DEF SampleTimerCb, pinVars
  <2>2. unsampled'[d] = IF missed[d] THEN 0 ELSE (unsampled[d] - lpo[d]) % ClockMod
    BY <1>4 DEF SampleTimerCb
  <2>3. CASE missed[d]
    <3>1. pin[d] = "high" /\ ~ pending[d]
      BY <1>4, <2>3, <1>types DEF SampleTimerCb
    <3> QED BY <2>1, <2>2, <2>3, <3>1 DEF Measured
  <2>4. CASE ~ missed[d]
    <3>1. Measured(d) /\ Since(d)' = Since(d)
      BY <2>1, <2>4, <1>inv DEF Since
    <3>2. CASE pin[d] = "high" /\ pending[d]
      <4>1. unsampled'[d] = (0 + Since(d)) % ClockMod
        BY <2>2, <2>4, <3>1, <3>2, PulseIsLeft DEF Measured
      <4> QED BY <2>1, <3>1, <3>2, <4>1 DEF Measured
    <3>3. CASE ~ (pin[d] = "high" /\ pending[d])
      <4>1. unsampled[d] - lpo[d] = 0 /\ 0 \in 0 .. ClockMod - 1
        BY <3>1, <3>3, <1>types DEF Measured, Times
      <4>2. unsampled'[d] = 0
        BY <2>2, <2>4, <4>1, <1>types, Small
      <4> QED BY <2>1, <3>1, <3>3, <4>2 DEF Measured
    <3> QED BY <3>2, <3>3
  <2> QED BY <2>3, <2>4
<1>5. ASSUME Start PROVE Measured(d)'
  <2>1. /\ UNCHANGED <<now, pin, pulse, pending, start_time>>
        /\ lpo'[d] = 0 /\ unsampled'[d] = 0 /\ ~ pending[d]
    BY <1>5 DEF Start, NoInterruptWaits, pinVars
  <2>2. pin[d] = "low" => Measured(d)
    BY <1>5, <1>inv DEF Start
  <2> QED BY <2>1, <2>2 DEF Measured, Since
<1>6. ASSUME Stop PROVE Measured(d)'
  BY <1>6, <1>inv DEF Stop, pinVars, histVars, Measured, Since
<1>7. CASE UNCHANGED vars
  BY <1>7, <1>inv DEF vars, pinVars, histVars, Measured, Since
<1> QED BY <1>1, <1>2, <1>3, <1>4, <1>5, <1>6, <1>7 DEF Next, Edges, Interrupts, Use

\* Whatever the sample time, the clock's modulus and the order of edges,
\* interrupts, samples, starts and stops: while every edge had its interrupt,
\* the low time the samples are computed from is that of the pulses since.
THEOREM PulsesAreCounted == Spec => []LowTimeIsCounted
<1>1. CountInv => LowTimeIsCounted
  BY DEF CountInv, Measured, LowTimeIsCounted
<1> QED BY <1>1, TypeInit, TypeStep, CountInit, CountStep, PTL DEF Spec

-----------------------------------------------------------------------------
(* What a sample can hold.                                                 *)

\* The low time of a pulse that is not counted yet: it goes on, or has ended and
\* its interrupt has not run.
Uncounted(c) == IF pin[c] = "low" \/ pending[c] THEN pulse[c] ELSE 0

\* The pulse that goes on belongs to the bound: it may have begun before the
\* sample, and will be counted whole.  What its interrupt measures is its length.
Holds(c) ==
  /\ pin[c] = "high" /\ pending[c] => Since(c) = pulse[c]
  /\ timer # NotSet => lpo[c] + Uncounted(c) <= (SampleTime - timer) + MaxPulse

HoldInv == \A c \in Channels : ~ missed[c] => Holds(c)

\* No sample is under way before the first start.
LEMMA HoldInit == Init => HoldInv
BY DEF Init, HoldInv, Holds

\* What is carried from one instant to the next, and what time adds.
LEMMA CarryAdds ==
  ASSUME NEW a \in Int, NEW b \in Int, NEW t \in Int, NEW u \in Int,
         NEW s \in Int, NEW m \in Int, b <= a + (t - u), a <= (s - t) + m
  PROVE  b <= (s - u) + m
OBVIOUS

\* Edges, time and pin interrupts: between two samples the low time, counted or not,
\* grows by no more than the time that goes by.
LEMMA CarryStep ==
  ASSUME TypeOK, CountInv, HoldInv, NEW d \in Channels, ~ missed'[d],
         \/ Edges \/ Tick \/ UNCHANGED vars
         \/ \E c \in Channels : PinCb(c)
  PROVE  /\ ~ missed[d] /\ UNCHANGED average
         /\ pin'[d] = "high" /\ pending'[d] => Since(d)' = pulse'[d]
         /\ timer' # NotSet <=> timer # NotSet
         /\ lpo'[d] + Uncounted(d)' \in Nat
         /\ timer # NotSet =>
              lpo'[d] + Uncounted(d)' <= lpo[d] + Uncounted(d) + (timer - timer')
<1> DEFINE Grows == timer # NotSet =>
                      lpo'[d] + Uncounted(d)' <= lpo[d] + Uncounted(d) + (timer - timer')
           Goal == /\ ~ missed[d] /\ UNCHANGED average
                   /\ pin'[d] = "high" /\ pending'[d] => Since(d)' = pulse'[d]
                   /\ timer' # NotSet <=> timer # NotSet
                   /\ Grows
<1>types. /\ ClockMod \in Nat \ {0} /\ MaxPulse \in Nat /\ SampleTime \in Nat \ {0}
          /\ lpo[d] \in Nat /\ pulse[d] \in 0 .. MaxPulse
          /\ pin[d] \in {"low", "high"} /\ pending[d] \in BOOLEAN /\ missed[d] \in BOOLEAN
          /\ timer \in -1 .. SampleTime /\ NotSet = -1 /\ now \in Int /\ start_time[d] \in Int
  BY PulsesFitClock, CurveConstants DEF TypeOK, Times, NotSet
<1>next. lpo'[d] + Uncounted(d)' \in Nat
  <2>1. [Next]_vars
    BY DEF Next, Interrupts
  <2>2. TypeOK'
    BY <2>1, TypeStep
  <2>3. lpo'[d] \in Nat /\ pulse'[d] \in 0 .. MaxPulse
    BY <2>2, <1>types DEF TypeOK, Times
  <2> QED BY <2>3, <1>types DEF Uncounted
<1>inv. ~ missed[d] => Holds(d) /\ Measured(d)
  BY DEF HoldInv, CountInv
<1>u. Uncounted(d) \in Nat
  BY <1>types DEF Uncounted
<1>1. ASSUME NEW c \in Channels, Edge(c) PROVE Goal
  <2>0. UNCHANGED <<now, timer, start_time, lpo, average>>
    BY <1>1 DEF Edge
  <2>1. CASE c # d
    <3>1. UNCHANGED <<pin[d], pending[d], pulse[d], missed[d]>>
      BY <1>1, <2>1 DEF Edge, TypeOK
    <3>2. UNCHANGED <<Uncounted(d), Since(d)>>
      BY <2>0, <3>1 DEF Since, Uncounted
    <3> QED BY <2>0, <3>1, <3>2, <1>inv, <1>types, <1>u DEF Holds
  <2>2. CASE c = d
    <3>1. ~ missed[d] /\ ~ pending[d]
      BY <1>1, <2>2 DEF Edge, TypeOK
    <3>2. Measured(d)
      BY <3>1, <1>inv
    <3>3. CASE pin[d] = "high"
      <4>1. pin'[d] = "low" /\ pulse'[d] = 0
        BY <1>1, <2>2, <3>3 DEF Edge, TypeOK
      <4>2. Uncounted(d)' = 0
        BY <4>1 DEF Uncounted
      <4> QED BY <2>0, <3>1, <4>1, <4>2, <1>types, <1>u
    <3>4. CASE pin[d] = "low"
      <4>1. pin'[d] = "high" /\ pulse'[d] = pulse[d]
        BY <1>1, <2>2, <3>4 DEF Edge, TypeOK
      <4>2. Since(d)' = Since(d) /\ Since(d) = pulse[d]
        BY <2>0, <3>1, <3>2, <3>4 DEF Since, Measured
      <4>3. Uncounted(d)' <= Uncounted(d) /\ Uncounted(d)' \in Int
        BY <3>4, <4>1, <1>types DEF Uncounted
      <4> QED BY <2>0, <3>1, <4>1, <4>2, <4>3, <1>types, <1>u
    <3> QED BY <3>3, <3>4, <1>types
  <2> QED BY <2>1, <2>2
<1>2. ASSUME Tick PROVE Goal
  <2>1. ~ missed[d] /\ ~ pending[d] /\ timer # 0
    BY <1>2 DEF Tick, NoInterruptWaits, histVars
  <2>2. /\ UNCHANGED <<pin, pending, lpo, average>>
        /\ timer' = IF timer = NotSet THEN NotSet ELSE timer - 1
        /\ pulse'[d] = IF pin[d] = "low" THEN pulse[d] + 1 ELSE pulse[d]
    BY <1>2 DEF Tick
  <2>3. timer # NotSet => timer' = timer - 1 /\ timer' # NotSet
    BY <2>1, <2>2, <1>types
  <2>4. Uncounted(d)' \in Int /\ Uncounted(d)' <= Uncounted(d) + 1
    BY <2>1, <2>2, <1>types DEF Uncounted
  <2>5. Grows
    BY <2>2, <2>3, <2>4, <1>types, <1>u
  <2> QED BY <2>1, <2>2, <2>3, <2>5
<1>3. ASSUME NEW c \in Channels, PinCb(c) PROVE Goal
  <2>1. UNCHANGED <<now, timer, pin, pulse, missed, average>>
    BY <1>3 DEF PinCb, histVars
  <2>2. Holds(d) /\ Measured(d)
    BY <2>1, <1>inv
  <2>3. CASE c # d
    <3>1. UNCHANGED <<pending[d], start_time[d], lpo[d]>>
      <4>1. PICK n : lpo' \in {lpo, [lpo EXCEPT ![c] = n]}
        BY <1>3, Zenon DEF PinCb
      <4>2. lpo'[d] = lpo[d]
        BY <2>3, <4>1 DEF TypeOK
      <4>3. UNCHANGED <<pending[d], start_time[d]>>
        BY <1>3, <2>3 DEF PinCb, TypeOK
      <4> QED BY <4>2, <4>3
    <3>2. UNCHANGED <<Uncounted(d), Since(d)>>
      BY <2>1, <3>1 DEF Since, Uncounted
    <3> QED BY <2>1, <2>2, <3>1, <3>2, <1>types, <1>u DEF Holds
  <2>4. CASE c = d
    <3>1. pending[d] /\ ~ pending'[d]
      BY <1>3, <2>4 DEF PinCb, TypeOK
    <3>2. CASE pin[d] = "low"
      <4>1. UNCHANGED lpo
        BY <1>3, <2>4, <3>2 DEF PinCb
      <4>2. UNCHANGED Uncounted(d)
        BY <2>1, <3>2 DEF Uncounted
      <4> QED BY <2>1, <2>2, <3>2, <4>1, <4>2, <1>types, <1>u
    <3>3. CASE pin[d] = "high"
      <4>1. lpo'[d] = (lpo[d] + now - start_time[d]) % ClockMod
        BY <1>3, <2>4, <3>3 DEF PinCb, TypeOK
      <4>2. lpo'[d] = (lpo[d] + pulse[d]) % ClockMod
        BY <2>2, <3>1, <3>3, <4>1, PulseIsAdded DEF Holds
      <4>3. lpo'[d] <= lpo[d] + pulse[d] /\ lpo'[d] \in Int
        <5>1. lpo[d] + pulse[d] \in Nat
          BY <1>types
        <5> QED BY <4>2, <5>1, <1>types, RemainderIsLess
      <4>4. Uncounted(d)' = 0 /\ Uncounted(d) = pulse[d]
        BY <2>1, <3>1, <3>3 DEF Uncounted
      <4> QED BY <2>1, <3>1, <4>3, <4>4, <1>types
    <3> QED BY <3>2, <3>3, <1>types
  <2> QED BY <2>3, <2>4
<1>4. ASSUME UNCHANGED vars PROVE Goal
  <2>1. UNCHANGED <<now, timer, pin, pulse, pending, start_time, lpo, average, missed>>
    BY <1>4 DEF vars, pinVars, histVars
  <2>2. UNCHANGED <<Uncounted(d), Since(d)>>
    BY <2>1 DEF Since, Uncounted
  <2> QED BY <2>1, <2>2, <1>inv, <1>types, <1>u DEF Holds
<1>5. Goal
  BY <1>1, <1>2, <1>3, <1>4 DEF Edges
<1> QED BY <1>5, <1>next

\* Every step keeps the bound.
LEMMA HoldStep == TypeOK /\ CountInv /\ HoldInv /\ [Next]_vars => HoldInv'
<1> SUFFICES ASSUME TypeOK, CountInv, HoldInv, [Next]_vars,
                    NEW d \in Channels, ~ missed'[d]
             PROVE  Holds(d)'
  BY DEF HoldInv
<1>types. /\ MaxPulse \in Nat /\ SampleTime \in Nat \ {0}
          /\ lpo[d] \in Nat /\ pulse[d] \in 0 .. MaxPulse /\ Uncounted(d) \in Nat
          /\ pin[d] \in {"low", "high"} /\ timer \in -1 .. SampleTime /\ NotSet = -1
  BY PulsesFitClock, CurveConstants DEF TypeOK, Times, NotSet, Uncounted
<1>inv. ~ missed[d] => Holds(d)
  BY DEF HoldInv
<1>1. CASE Edges \/ Tick \/ UNCHANGED vars \/ \E c \in Channels : PinCb(c)
  <2> DEFINE total == lpo[d] + Uncounted(d)
  <2>1. /\ ~ missed[d]
        /\ pin'[d] = "high" /\ pending'[d] => Since(d)' = pulse'[d]
        /\ timer' # NotSet <=> timer # NotSet
        /\ total' \in Nat
        /\ timer # NotSet => total' <= total + (timer - timer')
    BY <1>1, CarryStep
  <2>2. total \in Nat /\ (timer # NotSet => total <= (SampleTime - timer) + MaxPulse)
    BY <2>1, <1>inv, <1>types DEF Holds
  <2>3. timer' \in Int
    <3>1. TypeOK'
      BY TypeStep
    <3> QED BY <3>1, <1>types DEF TypeOK
  <2>4. timer' # NotSet => total' <= (SampleTime - timer') + MaxPulse
    <3> SUFFICES ASSUME timer' # NotSet PROVE total' <= (SampleTime - timer') + MaxPulse
      OBVIOUS
    <3>1. total' <= total + (timer - timer') /\ total <= (SampleTime - timer) + MaxPulse
      BY <2>1, <2>2
    <3>2. total' \in Int /\ total \in Int /\ timer \in Int /\ timer' \in Int
      BY <2>1, <2>2, <2>3, <1>types
    <3> QED BY <3>1, <3>2, <1>types, CarryAdds
  <2> QED BY <2>1, <2>4 DEF Holds, total
<1>4. ASSUME SampleTimerCb PROVE Holds(d)'
  <2>1. /\ UNCHANGED <<now, pin, pulse, pending, start_time>>
        /\ lpo'[d] = 0 /\ timer' = SampleTime
    BY <1>4 DEF SampleTimerCb, pinVars
  <2>2. missed[d] => pin[d] = "high" /\ ~ pending[d]
    BY <1>4, <1>types DEF SampleTimerCb, TypeOK
  <2>3. Uncounted(d)' \in 0 .. MaxPulse
    BY <2>1, <1>types DEF Uncounted
  <2>4. lpo'[d] + Uncounted(d)' <= (SampleTime - timer') + MaxPulse
    BY <2>1, <2>3, <1>types
  <2>5. pin[d] = "high" /\ pending[d] => Since(d) = pulse[d]
    BY <2>2, <1>inv DEF Holds
  <2> QED BY <2>1, <2>4, <2>5 DEF Holds, Since
<1>5. ASSUME Start PROVE Holds(d)'
  <2>1. /\ UNCHANGED <<pin, pulse, pending>> /\ ~ pending[d]
        /\ lpo'[d] = 0 /\ timer' = SampleTime
    BY <1>5 DEF Start, NoInterruptWaits, pinVars
  <2>2. Uncounted(d)' \in 0 .. MaxPulse
    BY <2>1, <1>types DEF Uncounted
  <2>3. lpo'[d] + Uncounted(d)' <= (SampleTime - timer') + MaxPulse
    BY <2>1, <2>2, <1>types
  <2> QED BY <2>1, <2>3 DEF Holds
<1>6. ASSUME Stop PROVE Holds(d)'
  <2>1. ~ missed[d] /\ timer' = NotSet /\ UNCHANGED <<now, pin, pulse, pending, start_time>>
    BY <1>6 DEF Stop, pinVars, histVars
  <2> QED BY <2>1, <1>inv DEF Holds, Since
<1> QED BY <1>1, <1>4, <1>5, <1>6 DEF Next, Interrupts, Use

\* sm_pwm_01c.c:85, :121, :135: for every sample time, longest pulse and clock,
\* whatever starts, stops and waits: the low time of a sample exceeds the time it
\* ran by one longest pulse at most.
THEOREM SamplesAreBounded == Spec => []SampleHoldsLowTime
<1>1. TypeOK /\ HoldInv => SampleHoldsLowTime
  <2> SUFFICES ASSUME TypeOK, HoldInv, timer # NotSet, NEW c \in Channels, ~ missed[c]
               PROVE  lpo[c] <= (SampleTime - timer) + MaxPulse
    BY DEF SampleHoldsLowTime
  <2>1. lpo[c] + Uncounted(c) <= (SampleTime - timer) + MaxPulse
    BY DEF HoldInv, Holds
  <2>2. Uncounted(c) \in Nat /\ lpo[c] \in Nat /\ timer \in Int /\ SampleTime \in Nat
        /\ MaxPulse \in Nat
    BY PulsesFitClock, CurveConstants DEF TypeOK, Times, Uncounted, NotSet
  <2> QED BY <2>1, <2>2
<1> QED BY <1>1, TypeInit, TypeStep, CountInit, CountStep, HoldInit, HoldStep, PTL DEF Spec

-----------------------------------------------------------------------------
(* What the samples and the exponential average can amount to.             *)

\* The formula of _lpo_to_dust_cons, as far as numbers of any size would carry it.
Lines(o) ==
  CASE o <= 200              -> (143 * o) \div 200
    [] o > 200 /\ o <= 400   -> (208 * o + 130) \div 300
    [] o > 400 /\ o <= 1500  -> (1155 * o - 1572) \div 1000
    [] o > 1500              -> (2354 * o - 19560) \div 1000

\* The concentration of a low time in such numbers.
Unbounded(low) == Lines((10000 * low) \div SampleTime)

\* What a sample makes of the low time it takes in.
SamplesAreNotCut ==
  timer = 0 =>
    \A c \in Channels : ~ missed[c] => Concentration(lpo[c]) = Unbounded(lpo[c])

\* sm_pwm_01c.c:92, :135: an occupancy above 100 per cent, which a pulse that began
\* before the sample can make, is not cut to 32 or 16 bits either, as long as no pulse
\* lasts longer than 1.78 samples: 178 ms at the default of 100 ms.
THEOREM SamplesDoNotWrap ==
  ASSUME 100 * LPO_SCALING * (SampleTime + MaxPulse) < WordMod,
         10000 * MaxPulse <= 17848 * SampleTime
  PROVE  Spec => []SamplesAreNotCut
<1>1. TypeOK /\ SampleHoldsLowTime => SamplesAreNotCut
  <2> SUFFICES ASSUME TypeOK, SampleHoldsLowTime, timer = 0,
                      NEW c \in Channels, ~ missed[c]
               PROVE  Concentration(lpo[c]) = Unbounded(lpo[c])
    BY DEF SamplesAreNotCut
  <2> DEFINE low == lpo[c]
             o == Occupancy(low)
             d == (10000 * low) \div SampleTime
  <2>1. /\ low \in Nat /\ low <= SampleTime + MaxPulse
        /\ SampleTime \in Nat \ {0} /\ MaxPulse \in Nat /\ WordMod \in Nat
    <3>1. low <= (SampleTime - 0) + MaxPulse
      BY DEF SampleHoldsLowTime, NotSet
    <3> QED BY <3>1, PulsesFitClock, CurveConstants DEF TypeOK, Times
  <2> HIDE DEF low
  <2>2. 100 * LPO_SCALING * low < WordMod /\ 10000 * low <= 27848 * SampleTime
    BY <2>1 DEF LPO_SCALING
  <2>3. o = d /\ o \in Nat /\ o <= 27848
    BY <2>1, <2>2, OccupancyIsNotCut
  <2> HIDE DEF o, d
  <2>4. 2354 * o <= 1000 * 65535 + 19560
    BY <2>3
  <2>5. /\ o <= 200               => DustCons(o) = (143 * o) \div 200
        /\ o > 200 /\ o <= 400    => DustCons(o) = (208 * o + 130) \div 300
        /\ o > 400 /\ o <= 1500   => DustCons(o) = (1155 * o - 1572) \div 1000
        /\ o > 1500               => DustCons(o) = (2354 * o - 19560) \div 1000
    BY <2>3, <2>4, CurveIsNotCut
  <2>6. DustCons(o) = Lines(o)
    <3> DEFINE a == (143 * o) \div 200
               b == (208 * o + 130) \div 300
               e == (1155 * o - 1572) \div 1000
               f == (2354 * o - 19560) \div 1000
    <3>1. o \in Nat
      BY <2>3
    <3>2. /\ o <= 200               => DustCons(o) = a
          /\ o > 200 /\ o <= 400    => DustCons(o) = b
          /\ o > 400 /\ o <= 1500   => DustCons(o) = e
          /\ o > 1500               => DustCons(o) = f
      BY <2>5
    <3> HIDE DEF a, b, e, f
    <3>3. DustCons(o) = CASE o <= 200 -> a [] o > 200 /\ o <= 400 -> b
                          [] o > 400 /\ o <= 1500 -> e [] o > 1500 -> f
      BY <3>1, <3>2
    <3> QED BY <3>3 DEF a, b, e, f, Lines
  <2>7. Concentration(low) = DustCons(d)
    BY <2>3 DEF Concentration, o
  <2> QED BY <2>3, <2>6, <2>7 DEF Unbounded, low, d
<1> QED BY <1>1, TypeInit, TypeStep, SamplesAreBounded, PTL DEF Spec

\* Every sample is taken of pulses whose edges all had their interrupts.
SamplesAreMeasured == [][SampleTimerCb => \A c \in Channels : ~ missed[c]]_vars

\* The average of a channel stays within the concentration that the steepest line of
\* the curve gives to an occupancy of 100 per cent, and the share that one pulse
\* carried over has in the average.
AverageIsBounded ==
  \A c \in Channels :
    ExpWeight * SampleTime * average[c] <= 23540 * (ExpWeight * SampleTime + MaxPulse)

\* The same with what the next sample has collected already.  What a pulse adds to
\* one sample it has taken from the one before: together they are in balance.
Charged(c) ==
  ExpWeight * SampleTime * average[c] + 23540 * (lpo[c] + Uncounted(c))
    <= 23540 * (ExpWeight * SampleTime + MaxPulse + (SampleTime - timer))

AverageInv ==
  /\ AverageIsBounded
  /\ \A c \in Channels : ~ missed[c] /\ timer # NotSet => Charged(c)

\* How a sample balances: w is the weight, s the sample time, m the longest pulse, a
\* the average before and b after, v the sample, l its low time, u what is carried on.
LEMMA SampleBalance ==
  ASSUME NEW w \in Nat \ {0}, NEW s \in Nat \ {0}, NEW m \in Nat,
         NEW a \in Nat, NEW b \in Nat, NEW v \in Nat, NEW l \in Nat, NEW u \in Nat,
         w * s * a + 23540 * (l + u) <= 23540 * (w * s + m + s),
         l + u <= s + m, s * v <= 23540 * l, b * w <= v + (w - 1) * a
  PROVE  w * s * b + 23540 * u <= 23540 * (w * s + m)
<1> DEFINE ws  == w * s
           wsa == w * s * a
           sa  == s * a
           wsb == w * s * b
           sv  == s * v
<1>1. ws \in Nat /\ wsa \in Nat /\ sa \in Nat /\ wsb \in Nat /\ sv \in Nat
  OBVIOUS
<1>2. wsb <= sv + wsa - sa
  <2>1. s * (b * w) <= s * (v + (w - 1) * a)
    <3> DEFINE x == b * w
               y == v + (w - 1) * a
    <3>1. w - 1 \in Nat
      OBVIOUS
    <3>2. x \in Nat /\ y \in Nat /\ x <= y
      BY <3>1
    <3> HIDE DEF x, y
    <3>3. s * x <= s * y
      BY <3>2
    <3> QED BY <3>3 DEF x, y
  <2>2. s * (b * w) = wsb
    OBVIOUS
  <2>3. s * (v + (w - 1) * a) = sv + wsa - sa
    OBVIOUS
  <2> QED BY <2>1, <2>2, <2>3
<1>3. CASE a >= 23540
  <2>1. sa >= 23540 * s
    <3>1. s * a >= s * 23540
      BY <1>3
    <3> QED BY <3>1
  <2>2. wsa + 23540 * (l + u) <= 23540 * (ws + m + s) /\ sv <= 23540 * l
    OBVIOUS
  <2> HIDE DEF ws, wsa, sa, wsb, sv
  <2>3. wsb + 23540 * u <= 23540 * (ws + m)
    BY <1>1, <1>2, <2>1, <2>2
  <2> QED BY <2>3 DEF ws, wsb
<1>4. CASE a < 23540
  <2>1. wsa - sa <= 23540 * ws - 23540 * s
    <3> DEFINE k == s * (w - 1)
    <3>1. k \in Nat /\ k * a = wsa - sa /\ k * 23540 = 23540 * ws - 23540 * s
      <4>1. w - 1 \in Nat
        OBVIOUS
      <4>2. k \in Nat
        BY <4>1
      <4>3. k = ws - s /\ ws * a = wsa
        OBVIOUS
      <4>4. k * a = ws * a - s * a
        BY <4>3
      <4>5. k * 23540 = 23540 * ws - 23540 * s
        BY <4>3
      <4> QED BY <4>2, <4>3, <4>4, <4>5
    <3> HIDE DEF k
    <3>2. k * a <= k * 23540
      BY <1>4, <3>1
    <3> QED BY <3>1, <3>2
  <2>2. l + u <= s + m /\ sv <= 23540 * l
    OBVIOUS
  <2> HIDE DEF ws, wsa, sa, wsb, sv
  <2>3. wsb + 23540 * u <= 23540 * (ws + m)
    BY <1>1, <1>2, <2>1, <2>2
  <2> QED BY <2>3 DEF ws, wsb
<1> QED BY <1>3, <1>4

\* Nothing is charged before the first start.
LEMMA AverageInit == ~ MovingAverage /\ Init => AverageInv
<1> SUFFICES ASSUME ~ MovingAverage, Init PROVE AverageInv
  OBVIOUS
<1>1. timer = NotSet /\ \A c \in Channels : average[c] = 0
  BY DEF Init, NoAverage
<1>2. ExpWeight * SampleTime \in Nat /\ MaxPulse \in Nat /\ ExpWeight * SampleTime * 0 = 0
  BY CurveConstants, PulsesFitClock
<1>3. AverageIsBounded
  BY <1>1, <1>2 DEF AverageIsBounded
<1> QED BY <1>1, <1>3 DEF AverageInv

\* Every step keeps the balance, if each sample is measured.
LEMMA AverageStep ==
  ASSUME ~ MovingAverage, TypeOK, CountInv, HoldInv, AverageInv, [Next]_vars,
         [SampleTimerCb => \A c \in Channels : ~ missed[c]]_vars
  PROVE  AverageInv'
<1> SUFFICES ASSUME NEW d \in Channels
             PROVE  /\ (ExpWeight * SampleTime * average'[d]
                          <= 23540 * (ExpWeight * SampleTime + MaxPulse))
                    /\ ~ missed'[d] /\ timer' # NotSet => Charged(d)'
  BY DEF AverageInv, AverageIsBounded
<1> DEFINE R == ExpWeight * SampleTime
           total == lpo[d] + Uncounted(d)
           old == average[d]
<1>types. /\ ExpWeight \in Nat \ {0} /\ SampleTime \in Nat \ {0} /\ MaxPulse \in Nat
          /\ R \in Nat /\ lpo[d] \in Nat /\ pulse[d] \in 0 .. MaxPulse /\ old \in Nat
          /\ pin[d] \in {"low", "high"} /\ timer \in -1 .. SampleTime /\ NotSet = -1
  BY PulsesFitClock, CurveConstants DEF TypeOK, Times, NotSet, Samples
<1>u. Uncounted(d) \in 0 .. MaxPulse
  BY <1>types DEF Uncounted
<1>inv. /\ R * old <= 23540 * (R + MaxPulse)
        /\ ~ missed[d] /\ timer # NotSet
             => R * old + 23540 * total <= 23540 * (R + MaxPulse + (SampleTime - timer))
  BY DEF AverageInv, AverageIsBounded, Charged
<1>1. CASE Edges \/ Tick \/ UNCHANGED vars \/ \E c \in Channels : PinCb(c)
  <2>1. UNCHANGED average
    BY <1>1 DEF Edges, Edge, Tick, PinCb, vars
  <2>2. ASSUME ~ missed'[d], timer' # NotSet PROVE Charged(d)'
    <3>1. /\ ~ missed[d] /\ timer # NotSet /\ total' \in Nat
          /\ total' <= total + (timer - timer')
      BY <1>1, <2>2, CarryStep
    <3>2. TypeOK'
      BY TypeStep
    <3>3. timer' \in Int /\ timer \in Int /\ total \in Int /\ R * old \in Int
      BY <3>2, <1>types, <1>u DEF TypeOK
    <3>4. R * old + 23540 * total <= 23540 * (R + MaxPulse + (SampleTime - timer))
      BY <3>1, <1>inv
    <3> DEFINE q == R * old
               t1 == total'
               tm1 == timer'
    <3>5. q + 23540 * t1 <= 23540 * (R + MaxPulse + (SampleTime - tm1))
      <4>1. /\ t1 \in Int /\ total \in Int /\ tm1 \in Int /\ q \in Int
            /\ t1 <= total + (timer - tm1)
            /\ q + 23540 * total <= 23540 * (R + MaxPulse + (SampleTime - timer))
        BY <3>1, <3>3, <3>4
      <4> HIDE DEF t1, total, tm1, q, R
      <4> QED BY <4>1, <1>types
    <3> QED BY <2>1, <3>5 DEF Charged
  <2> QED BY <2>1, <2>2, <1>inv
<1>2. CASE SampleTimerCb
  <2>1. SampleTime \in Nat \ {0} /\ timer = 0 /\ timer' = SampleTime
    BY <1>2, <1>types DEF SampleTimerCb
  <2>2. ~ missed[d]
    <3>1. timer' # timer
      BY <2>1
    <3> QED BY <1>2, <3>1 DEF vars
  <2>3. UNCHANGED <<pin, pulse, pending>> /\ lpo'[d] = 0
    BY <1>2 DEF SampleTimerCb, pinVars
  <2> DEFINE v == Concentration(lpo[d])
             u == Uncounted(d)
             l == lpo[d]
             new == average'[d]
  <2>4. new = ExpAverage(v, old)
    BY <1>2 DEF SampleTimerCb, Updated
  <2>5. v \in Nat /\ SampleTime * v <= 23540 * l
    BY <1>types, ConcentrationIsBelowLine
  <2>6. new \in Nat /\ new * ExpWeight <= v + (ExpWeight - 1) * old
    BY <2>4, <2>5, <1>types, AverageTimesWeight
  <2>7. l + u <= SampleTime + MaxPulse
    <3>1. l + u <= (SampleTime - 0) + MaxPulse
      BY <2>1, <2>2, <1>types DEF HoldInv, Holds
    <3> QED BY <3>1, <1>types
  <2>8. R * old + 23540 * (l + u) <= 23540 * (R + MaxPulse + SampleTime)
    <3>1. SampleTime - 0 = SampleTime
      BY <1>types
    <3> QED BY <2>1, <2>2, <3>1, <1>inv, <1>types
  <2>9. u \in Nat /\ l \in Nat
    BY <1>types, <1>u
  <2> HIDE DEF v, u, l, new, old
  <2>10. R * new + 23540 * u <= 23540 * (R + MaxPulse)
    BY <2>5, <2>6, <2>7, <2>8, <2>9, <1>types, SampleBalance
  <2>11. R * new \in Nat
    BY <2>6, <1>types
  <2>12. R * new <= 23540 * (R + MaxPulse)
    <3> DEFINE q == R * new
    <3>1. q \in Nat /\ q + 23540 * u <= 23540 * (R + MaxPulse)
      BY <2>10, <2>11
    <3> HIDE DEF q, R
    <3>2. q <= 23540 * (R + MaxPulse)
      BY <3>1, <2>9, <1>types
    <3> QED BY <3>2 DEF q
  <2>13. Charged(d)'
    <3>1. lpo'[d] + Uncounted(d)' = u
      BY <2>3, <2>9 DEF Uncounted, u
    <3>2. R + MaxPulse + (SampleTime - SampleTime) = R + MaxPulse
      BY <1>types
    <3>3. R * new + 23540 * u <= 23540 * (R + MaxPulse + (SampleTime - timer'))
      BY <2>1, <2>10, <3>2
    <3> QED BY <3>1, <3>3 DEF Charged, new
  <2> QED BY <2>12, <2>13 DEF new
<1>3. CASE Start
  <2>1. /\ UNCHANGED <<pin, pulse, pending>> /\ timer' = SampleTime
        /\ lpo'[d] = 0 /\ average'[d] = 0
    BY <1>3 DEF Start, pinVars, NoAverage
  <2>2. lpo'[d] + Uncounted(d)' \in 0 .. MaxPulse
    BY <2>1, <1>u DEF Uncounted
  <2>3. R * average'[d] = 0
    BY <2>1, <1>types
  <2>4. R * average'[d] <= 23540 * (R + MaxPulse)
    BY <2>3, <1>types
  <2>5. SampleTime - timer' = 0
    BY <2>1, <1>types
  <2>6. Charged(d)'
    <3> DEFINE t1 == lpo'[d] + Uncounted(d)'
    <3>1. t1 \in 0 .. MaxPulse
      BY <2>2
    <3>2. 0 + 23540 * t1 <= 23540 * (R + MaxPulse + 0)
      <4> HIDE DEF t1, R
      <4> QED BY <3>1, <1>types
    <3> QED BY <2>3, <2>5, <3>2 DEF Charged
  <2> QED BY <2>4, <2>6
<1>4. CASE Stop
  <2>1. timer' = NotSet /\ UNCHANGED average
    BY <1>4 DEF Stop
  <2> QED BY <2>1, <1>inv
<1> QED BY <1>1, <1>2, <1>3, <1>4 DEF Next, Interrupts, Use

\* sm_pwm_01c.c:110, :121, :135: built with the exponential average, and whatever the
\* widths of the numbers: a pulse counted whole in the sample it ends in can take that
\* sample, but not the average, far beyond the concentration of 100 per cent, as
\* long as every sample is of pulses whose edges all had their interrupts.
THEOREM AverageStaysBounded ==
  ASSUME ~ MovingAverage
  PROVE  Spec /\ SamplesAreMeasured => []AverageIsBounded
<1>1. Init => AverageInv
  BY AverageInit
<1>2. TypeOK /\ CountInv /\ HoldInv /\ AverageInv /\ [Next]_vars
        /\ [SampleTimerCb => \A c \in Channels : ~ missed[c]]_vars => AverageInv'
  BY AverageStep
<1>3. AverageInv => AverageIsBounded
  BY DEF AverageInv
<1> QED BY <1>1, <1>2, <1>3, TypeInit, TypeStep, CountInit, CountStep, HoldInit, HoldStep, PTL
        DEF Spec, SamplesAreMeasured

\* What read_mc_pm_2p5 and read_mc_pm_10 return of the averages keeps the scale.
ReadingsKeepScale ==
  \A c \in Channels : ReadMc(Reading(c)) = [val |-> average[c], scale |-> -6]

\* sm_pwm_01c_saul.c:37: at the defaults, with a sample of 100 ms and a weight of 5,
\* that is for pulses up to 195 ms: no reading is rescaled, and coap_saul.c:72 gives
\* each with the prefix of micrograms, whatever the order of pulses and samples.
THEOREM ReadingsKeepTheirScale ==
  ASSUME ~ MovingAverage, 23540 * MaxPulse <= 9227 * ExpWeight * SampleTime
  PROVE  Spec /\ SamplesAreMeasured => []ReadingsKeepScale
<1>1. TypeOK /\ AverageIsBounded => ReadingsKeepScale
  <2> SUFFICES ASSUME TypeOK, AverageIsBounded, NEW c \in Channels
               PROVE  ReadMc(Reading(c)) = [val |-> average[c], scale |-> -6]
    BY DEF ReadingsKeepScale
  <2> DEFINE R == ExpWeight * SampleTime
             a == average[c]
  <2>1. R \in Nat \ {0} /\ MaxPulse \in Nat /\ a \in Nat
    BY PulsesFitClock, CurveConstants DEF TypeOK, Samples
  <2>2. R * a <= 23540 * (R + MaxPulse) /\ 23540 * MaxPulse <= 9227 * R
    BY CurveConstants DEF AverageIsBounded
  <2> HIDE DEF R, a
  <2>3. R * a <= 32767 * R
    <3>1. R * a \in Nat
      BY <2>1
    <3> DEFINE q == R * a
    <3> HIDE DEF q
    <3> QED BY <2>1, <2>2, <3>1 DEF q
  <2>4. a <= 32767
    <3> SUFFICES ASSUME a >= 32768 PROVE FALSE
      BY <2>1
    <3>1. R * a >= R * 32768
      BY <2>1
    <3> QED BY <2>1, <2>3, <3>1
  <2>5. Reading(c) = a
    BY DEF Reading, a
  <2> QED BY <2>1, <2>4, <2>5 DEF ReadMc, PhydatFit, Fits, a
<1> QED BY <1>1, TypeInit, TypeStep, AverageStaysBounded, PTL DEF Spec

\* sm_pwm_01c.c:110: with a weight of more than 65535, as drivers/sm_pwm_01c/Kconfig
\* has it by default with its 100000, the exponential average rounds every sample
\* away: whatever the dust, the clock and the order of events, it stays at zero.
THEOREM HeavyAverageStaysAtZero ==
  ASSUME ~ MovingAverage, ExpWeight > 65535
  PROVE  Spec => [](\A c \in Channels : average[c] = 0)
<1> DEFINE Zero == \A c \in Channels : average[c] = 0
<1>1. Init => Zero
  BY DEF Init, NoAverage
<1>2. ASSUME TypeOK, Zero, [Next]_vars PROVE Zero'
  <2>1. CASE SampleTimerCb
    <3> SUFFICES ASSUME NEW c \in Channels PROVE average'[c] = 0
      OBVIOUS
    <3> DEFINE v == Concentration(lpo[c])
               old == average[c]
    <3>1. average'[c] = ExpAverage(v, old)
      BY <1>2, <2>1 DEF SampleTimerCb, Updated
    <3>2. v \in Nat /\ v <= 65535
      BY PulsesFitClock, <1>2, ConcentrationFits DEF TypeOK, Times, IsUint16
    <3>3. v < ExpWeight /\ old \in Nat /\ old = 0
      BY <1>2, <3>2, CurveConstants
    <3> HIDE DEF v, old
    <3> QED BY <3>1, <3>2, <3>3, HeavyAverage
  <2>2. CASE Start
    BY <2>2 DEF Start, NoAverage
  <2>3. CASE ~ SampleTimerCb /\ ~ Start
    <3>1. UNCHANGED average
      BY <1>2, <2>3 DEF Next, Interrupts, Use, Edges, Edge, Tick, PinCb, Stop, vars
    <3> QED BY <1>2, <3>1
  <2> QED BY <2>1, <2>2, <2>3
<1> HIDE DEF Zero
<1>3. TypeOK /\ Zero /\ [Next]_vars => Zero'
  BY <1>2
<1>4. Spec => []Zero
  BY <1>1, <1>3, TypeInit, TypeStep, PTL DEF Spec
<1> QED BY <1>4 DEF Zero

-----------------------------------------------------------------------------
(* SmPwm01c implements DustSensor.                                         *)

\* The window of a cleared buffer holds zeros.
LEMMA EmptyWindow ==
  ASSUME MovingAverage, NEW c \in Channels
  PROVE  Window(NoAverage) = Abstract!NoSamples[c]
<1> SUFFICES ASSUME NEW i \in 1 .. BufferLen
             PROVE  Window(NoAverage)[i] = 0
  BY DEF Window, Abstract!NoSamples
<1>1. NoAverage = EmptyBuf /\ EmptyBuf.head = 0 /\ EmptyBuf \in CircBufs
  BY EmptyIsBuf DEF NoAverage, EmptyBuf
<1>2. i - 1 \in Slots /\ 0 + i - 1 = i - 1
  BY BufferLenIsPositive DEF Slots
<1>3. (i - 1) % BufferLen = i - 1
  BY <1>2, BufferLenIsPositive, Small DEF Slots
<1> QED BY <1>1, <1>2, <1>3 DEF Window, EmptyBuf

\* The initial states are states of the abstract sensor.
LEMMA ImplInit == MovingAverage /\ Init => Abstract!Init
<1> SUFFICES ASSUME MovingAverage, Init PROVE Abstract!Init
  OBVIOUS
<1>1. timer = NotSet /\ average = [c \in Channels |-> NoAverage]
  BY DEF Init
<1>2. [c \in Channels |-> Window(average[c])] = Abstract!NoSamples
  BY <1>1, EmptyWindow DEF Abstract!NoSamples
<1> QED BY <1>1, <1>2 DEF Abstract!Init

\* Each step is a step of the abstract sensor, or none.
LEMMA ImplStep ==
  MovingAverage /\ TypeOK /\ [Next]_vars
    => [Abstract!Next]_<<timer # NotSet, [c \in Channels |-> Window(average[c])]>>
<1> SUFFICES ASSUME MovingAverage, TypeOK, [Next]_vars
             PROVE  [Abstract!Next]_<<timer # NotSet, [c \in Channels |-> Window(average[c])]>>
  OBVIOUS
<1> DEFINE running == timer # NotSet
           window == [c \in Channels |-> Window(average[c])]
<1>time. SampleTime \in Nat \ {0} /\ NotSet = -1
  BY CurveConstants DEF NotSet
<1>1. CASE Edges \/ (\E c \in Channels : PinCb(c)) \/ UNCHANGED vars
  <2>1. UNCHANGED <<timer, average>>
    BY <1>1 DEF Edges, Edge, PinCb, vars
  <2> QED BY <2>1
<1>2. CASE Tick
  <2>1. UNCHANGED average
    BY <1>2 DEF Tick
  <2>2. (timer' # NotSet) = (timer # NotSet)
    BY <1>2, <1>time DEF Tick, NoInterruptWaits, TypeOK
  <2> QED BY <2>1, <2>2
<1>3. CASE SampleTimerCb
  <2>1. timer # NotSet /\ timer' # NotSet
    BY <1>3, <1>time DEF SampleTimerCb
  <2>2. ASSUME NEW c \in Channels
        PROVE  window'[c] = Append(Tail(window[c]), window'[c][BufferLen])
    <3> DEFINE b == average[c]
               d == Concentration(lpo[c])
               w == Window(b)
    <3>1. b \in CircBufs /\ lpo[c] \in Nat
      BY PulsesFitClock DEF TypeOK, Times
    <3>2. d \in Samples
      BY <3>1, ConcentrationIsSample
    <3>3. average'[c] = Push(b, d)
      BY <1>3 DEF SampleTimerCb, Updated
    <3>4. w \in Seq(Samples) /\ Len(w) = BufferLen
      BY <3>1, WindowIsSeq
    <3> HIDE DEF b, d, w
    <3>5. Window(average'[c]) = Append(Tail(w), d)
      BY <3>1, <3>2, <3>3, PushSlides DEF w
    <3>6. Append(Tail(w), d)[BufferLen] = d
      BY <3>2, <3>4, BufferLenIsPositive
    <3>7. window[c] = w /\ window'[c] = Window(average'[c])
      BY DEF w, b
    <3> QED BY <3>5, <3>6, <3>7
  <2>3. DOMAIN window' = Channels
    OBVIOUS
  <2> HIDE DEF window
  <2>4. running /\ UNCHANGED running
    BY <2>1
  <2>5. Abstract!Sample
    BY <2>2, <2>3, <2>4 DEF Abstract!Sample, window
  <2> QED BY <2>5 DEF Abstract!Next
<1>4. CASE Start
  <2>1. timer' # NotSet /\ average' = [c \in Channels |-> NoAverage]
    BY <1>4, <1>time DEF Start
  <2>2. window' = Abstract!NoSamples
    BY <2>1, EmptyWindow DEF Abstract!NoSamples
  <2> QED BY <2>1, <2>2 DEF Abstract!Next, Abstract!Start
<1>5. CASE Stop
  BY <1>5 DEF Stop, Abstract!Next, Abstract!Stop
<1> QED BY <1>1, <1>2, <1>3, <1>4, <1>5 DEF Next, Interrupts, Use

\* A driver built with the moving average keeps the promise of DustSensor: from
\* start on, the array of each channel is the window of its last samples.
THEOREM Implements == ASSUME MovingAverage PROVE Spec => ImplementsDustSensor
<1>1. Init => Abstract!Init
  BY ImplInit
<1>2. TypeOK /\ [Next]_vars
        => [Abstract!Next]_<<timer # NotSet, [c \in Channels |-> Window(average[c])]>>
  BY ImplStep
<1> QED BY <1>1, <1>2, TypeInit, TypeStep, PTL DEF Spec, ImplementsDustSensor, Abstract!Spec
=============================================================================
