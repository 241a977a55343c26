------------------------------ MODULE SmPwm01c ------------------------------
(***************************************************************************)
(* drivers/sm_pwm_01c: a dust sensor that pulls one pin per particle size  *)
(* low while it sees particles.  Pin interrupts add up the low time, a     *)
(* timer interrupt turns it into a sample every SampleTime, and readers    *)
(* get the average of the samples.                                         *)
(*                                                                         *)
(* One sensor.  Pin edges, the interrupts they cause, the timer interrupt  *)
(* and the thread that starts, stops and reads the sensor interleave; an   *)
(* interrupt runs before the clock ticks, but edges that follow each other *)
(* faster than that share one interrupt.                                   *)
(***************************************************************************)
EXTENDS SmPwmCurve, CircBuf

CONSTANTS Channels,       \* the particle sizes, "tsp" and "tlp"
          ClockMod,       \* 2^32, the values of ztimer_now
          MaxPulse,       \* no low pulse of the sensor is longer
          MovingAverage   \* built with MODULE_SM_PWM_01C_MA

ASSUME PulsesFitClock ==
  /\ ClockMod \in Nat /\ MaxPulse \in Nat \ {0} /\ MaxPulse < ClockMod
  /\ MovingAverage \in BOOLEAN

VARIABLES now,         \* ztimer_now(ZTIMER_USEC)
          timer,       \* time left until _timer expires, or NotSet
          irq,         \* the pins' interrupts are enabled
          pin,         \* the level of each pin
          pulse,       \* how long a low pin has been low
          pending,     \* a pin's interrupt is yet to run
          start_time,  \* _tsp_start_time, _tlp_start_time
          lpo,         \* dev->values.tsp_lpo, tlp_lpo
          average,     \* the samples (circ_buf_t) or their average (data)
          unsampled,   \* history: low time of pulses over and not sampled
          missed       \* history: an edge had no interrupt of its own since
                       \* the low time was last known to be right

pinVars == <<pin, pulse, pending>>
histVars == <<unsampled, missed>>
vars == <<now, timer, irq, pinVars, start_time, lpo, average, histVars>>

NotSet == -1
Times == 0 .. ClockMod - 1
NoAverage == IF MovingAverage THEN EmptyBuf ELSE 0

TypeOK ==
  /\ now \in Times /\ timer \in NotSet .. SampleTime /\ irq \in BOOLEAN
  /\ pin \in [Channels -> {"low", "high"}]
  /\ pulse \in [Channels -> 0 .. MaxPulse]
  /\ pending \in [Channels -> BOOLEAN]
  /\ start_time \in [Channels -> Times]
  /\ lpo \in [Channels -> Times]
  /\ average \in [Channels -> IF MovingAverage THEN CircBufs ELSE Samples]
  /\ unsampled \in [Channels -> Times] /\ missed \in [Channels -> BOOLEAN]

\* sm_pwm_01c_init has returned: gpio_init_int has enabled the interrupts.
Init ==
  /\ now = 0 /\ timer = NotSet /\ irq = TRUE
  /\ pin = [c \in Channels |-> "high"]
  /\ pulse = [c \in Channels |-> 0]
  /\ pending = [c \in Channels |-> FALSE]
  /\ start_time = [c \in Channels |-> 0]
  /\ lpo = [c \in Channels |-> 0]
  /\ average = [c \in Channels |-> NoAverage]
  /\ unsampled = [c \in Channels |-> 0] /\ missed = [c \in Channels |-> FALSE]

-----------------------------------------------------------------------------
(* The sensor and the clock.                                               *)

\* An edge while the interrupt of the one before is pending, or while the
\* interrupts are disabled, has none of its own.
Edge(c) ==
  /\ pending' = [pending EXCEPT ![c] = irq]
  /\ missed' = [missed EXCEPT ![c] = @ \/ pending[c] \/ ~ irq]
  /\ \/ /\ pin[c] = "high"
        /\ pin' = [pin EXCEPT ![c] = "low"]
        /\ pulse' = [pulse EXCEPT ![c] = 0]
        /\ UNCHANGED unsampled
     \/ /\ pin[c] = "low"
        /\ pin' = [pin EXCEPT ![c] = "high"]
        /\ unsampled' = [unsampled EXCEPT ![c] = (@ + pulse[c]) % ClockMod]
        /\ UNCHANGED pulse
  /\ UNCHANGED <<now, timer, irq, start_time, lpo, average>>

NoInterruptWaits == timer # 0 /\ \A c \in Channels : ~ pending[c]

Tick ==
  /\ NoInterruptWaits
  /\ \A c \in Channels : pin[c] = "low" => pulse[c] < MaxPulse
  /\ now' = (now + 1) % ClockMod
  /\ timer' = IF timer = NotSet THEN NotSet ELSE timer - 1
  /\ pulse' = [c \in Channels |-> IF pin[c] = "low" THEN pulse[c] + 1 ELSE pulse[c]]
  /\ UNCHANGED <<irq, pin, pending, start_time, lpo, average, histVars>>

-----------------------------------------------------------------------------
(* The interrupts.                                                         *)

\* Mutant: the low time is not computed modulo the clock.
PinCb_NoWrap(c) ==
  /\ pending[c]
  /\ pending' = [pending EXCEPT ![c] = FALSE]
  /\ IF pin[c] = "low"
       THEN start_time' = [start_time EXCEPT ![c] = now] /\ UNCHANGED lpo
       ELSE /\ lpo' = [lpo EXCEPT ![c] =
                         IF now >= start_time[c] THEN @ + now - start_time[c] ELSE @]
            /\ UNCHANGED start_time
  /\ UNCHANGED <<now, timer, irq, pin, pulse, average, histVars>>

\* _tsp_pin_cb, _tlp_pin_cb: the pin is read when the interrupt runs.
PinCb(c) ==
  /\ pending[c]
  /\ pending' = [pending EXCEPT ![c] = FALSE]
  /\ IF pin[c] = "low"
       THEN start_time' = [start_time EXCEPT ![c] = now] /\ UNCHANGED lpo
       ELSE /\ lpo' = [lpo EXCEPT ![c] = (@ + now - start_time[c]) % ClockMod]
            /\ UNCHANGED start_time
  /\ UNCHANGED <<now, timer, irq, pin, pulse, average, histVars>>

\* One more sample: into the circular buffer, or into the exponential average.
Updated(avg, sample) ==
  IF MovingAverage THEN Push(avg, sample) ELSE ExpAverage(sample, avg)

\* Mutant: the timer is not set for the next sample.
SampleTimerCb_Once ==
  /\ timer = 0 /\ timer' = NotSet
  /\ average' = [c \in Channels |-> Updated(average[c], Concentration(lpo[c]))]
  /\ lpo' = [c \in Channels |-> 0]
  /\ unsampled' = [c \in Channels |-> IF missed[c] THEN 0 ELSE (unsampled[c] - lpo[c]) % ClockMod]
  /\ missed' = [c \in Channels |-> missed[c] /\ (pin[c] = "low" \/ pending[c])]
  /\ UNCHANGED <<now, irq, pinVars, start_time>>

\* Mutant: only the average is updated.
SampleTimerCb_KeepsLowTime ==
  /\ timer = 0 /\ timer' = SampleTime
  /\ average' = [c \in Channels |-> Updated(average[c], Concentration(lpo[c]))]
  /\ missed' = [c \in Channels |-> missed[c] /\ (pin[c] = "low" \/ pending[c])]
  /\ UNCHANGED <<now, irq, pinVars, start_time, lpo, unsampled>>

\* _sample_timer_cb.  A pulse that is not over counts for a later sample.
SampleTimerCb ==
  /\ timer = 0 /\ timer' = SampleTime
  /\ average' = [c \in Channels |-> Updated(average[c], Concentration(lpo[c]))]
  /\ lpo' = [c \in Channels |-> 0]
  /\ unsampled' = [c \in Channels |-> IF missed[c] THEN 0 ELSE (unsampled[c] - lpo[c]) % ClockMod]
  /\ missed' = [c \in Channels |-> missed[c] /\ (pin[c] = "low" \/ pending[c])]
  /\ UNCHANGED <<now, irq, pinVars, start_time>>

-----------------------------------------------------------------------------
(* The thread that uses the sensor, while no interrupt runs.               *)

\* Mutant: the buffers are not cleared.
Start_KeepsValues ==
  /\ NoInterruptWaits
  /\ timer' = SampleTime /\ irq' = TRUE
  /\ lpo' = [c \in Channels |-> 0]
  /\ unsampled' = [c \in Channels |-> 0]
  /\ missed' = [c \in Channels |-> missed[c] /\ pin[c] = "low"]
  /\ UNCHANGED <<now, pinVars, start_time, average>>

\* sm_pwm_01c_start: values are cleared, the start times are not.  One step,
\* although interrupts are enabled between its calls: the clock cannot tick
\* there, and a sample that fell in between would need a sensor that is
\* started while it runs, which no caller here does.  SmPwmDevices takes the
\* calls one by one, while other sensors run.
Start ==
  /\ NoInterruptWaits
  /\ timer' = SampleTime /\ irq' = TRUE
  /\ lpo' = [c \in Channels |-> 0]
  /\ average' = [c \in Channels |-> NoAverage]
  /\ unsampled' = [c \in Channels |-> 0]
  /\ missed' = [c \in Channels |-> missed[c] /\ pin[c] = "low"]
  /\ UNCHANGED <<now, pinVars, start_time>>

\* sm_pwm_01c_stop
Stop ==
  /\ NoInterruptWaits
  /\ timer' = NotSet /\ irq' = FALSE
  /\ UNCHANGED <<now, pinVars, start_time, lpo, average, histVars>>

\* What sm_pwm_01c_read_data returns, interrupts disabled while it reads.
Reading(c) == IF MovingAverage THEN Avg(average[c]) ELSE average[c]

-----------------------------------------------------------------------------
Edges == \E c \in Channels : Edge(c)
Interrupts == (\E c \in Channels : PinCb(c)) \/ SampleTimerCb
Use == Start \/ Stop

Next == Edges \/ Tick \/ Interrupts \/ Use

\* A pending interrupt runs, a low pulse ends, and time goes on.
Fairness ==
  /\ WF_vars(SampleTimerCb)
  /\ \A c \in Channels : WF_vars(PinCb(c)) /\ WF_vars(pin[c] = "low" /\ Edge(c))
  /\ SF_vars(Tick)

Spec == Init /\ [][Next]_vars /\ Fairness

-----------------------------------------------------------------------------
(* Properties.                                                             *)

\* Every pulse is counted once, in one sample, with the time it was low: across
\* samples, starts and stops and the wraparound of the clock, as long as
\* every edge since then had an interrupt of its own.
LowTimeIsCounted ==
  \A c \in Channels : ~ missed[c] /\ ~ pending[c] => lpo[c] = unsampled[c]

\* A sample never takes in more low time than went by since the one before and
\* the longest pulse lasts: a pulse may have begun before the sample it ends in,
\* but only one, and stops, restarts and waiting interrupts add none.
SampleHoldsLowTime ==
  timer # NotSet =>
    \A c \in Channels : ~ missed[c] => lpo[c] <= (SampleTime - timer) + MaxPulse

\* A sensor that was started, and from some time on is neither stopped nor
\* restarted, is sampled for ever.
SampledForEver ==
  \/ []<><<SampleTimerCb>>_vars
  \/ [](timer = NotSet) \/ []<><<Use>>_vars \/ <>[](~ irq)

Abstract == INSTANCE DustSensor WITH
  WindowLen <- BufferLen,
  running <- timer # NotSet,
  window <- [c \in Channels |-> Window(average[c])]

\* With the moving average the circular buffers hold the last samples in order.
ImplementsDustSensor == Abstract!Spec
=============================================================================
