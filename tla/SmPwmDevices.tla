---------------------------- MODULE SmPwmDevices ----------------------------
(***************************************************************************)
(* drivers/sm_pwm_01c with several sensors: auto_init initialises, starts  *)
(* and registers one after the other, while the interrupts of those that   *)
(* are initialised already run.  The sensors share the sample timer and,   *)
(* per particle size, the start time of a pulse.                           *)
(*                                                                         *)
(* Who counts, samples and publishes what; how much is SmPwm01c's matter.  *)
(* Times are ages: how long ago, up to MaxAge.  The edges of a pin are     *)
(* further apart than the interrupts take, those of several pins coincide. *)
(***************************************************************************)
EXTENDS Integers, FiniteSets, Sequences

CONSTANTS NumOf,       \* SM_PWM_01C_NUMOF, the sensors of sm_pwm_01c_params
          SampleTime,  \* CONFIG_SM_PWM_01C_SAMPLE_TIME
          Toggling,    \* the pins whose sensors see dust, a bound for TLC
          MaxAge       \* the age from which on ages are not told apart

Devices == 1 .. NumOf
Kinds == {"tsp", "tlp"}
Pins == Devices \X Kinds     \* of params.tsp_pin, params.tlp_pin

ASSUME DeviceConstants ==
  /\ NumOf \in Nat /\ SampleTime \in Nat \ {0} /\ MaxAge \in Nat
  /\ Toggling \subseteq Pins

VARIABLES dev, step,  \* the sensor auto_init is at, and what it does next
          enabled,    \* the pins whose interrupt gpio_init_int has enabled
          low,        \* the pins that are low
          age,        \* how long a pin has been low
          pending,    \* the pins whose interrupt is yet to run
          timer,      \* time left until _timer expires, or NotSet
          timerArg,   \* _timer.arg, 0 before it is set
          start_age,  \* the age of _tsp_start_time and of _tlp_start_time
          lpo,        \* the pins with low time counted and not sampled
          data,       \* the pins whose average has taken low time in
          registry,   \* the driver's entries in the SAUL registry, in order
          stamped     \* history: low pins whose falling edge's interrupt has run

bootVars == <<dev, step>>
pinVars == <<low, age>>
valueVars == <<lpo, data>>
devVars == <<bootVars, enabled, pinVars, pending, timer, timerArg, start_age,
             valueVars, registry, stamped>>

NotSet == -1

\* The pins of a sensor.
Own(d) == {d} \X Kinds

DevTypeOK ==
  /\ dev \in 1 .. NumOf + 1 /\ step \in {"tsp", "tlp", "clear", "timer", "saul"}
  /\ enabled \subseteq Pins /\ low \subseteq Pins
  /\ pending \subseteq enabled /\ stamped \subseteq enabled \cap low
  /\ age \in [Pins -> 0 .. MaxAge] /\ start_age \in [Kinds -> 0 .. MaxAge]
  /\ timer \in NotSet .. SampleTime
  /\ timerArg \in 0 .. NumOf /\ (timer # NotSet => timerArg # 0)
  /\ lpo \subseteq enabled /\ data \subseteq enabled
  /\ registry \in Seq(Pins) /\ Len(registry) <= 2 * NumOf

\* The static variables are zero; the sensors see dust before the board boots.
DevInit ==
  /\ dev = 1 /\ step = "tsp" /\ enabled = {}
  /\ low \in SUBSET Toggling /\ age = [p \in Pins |-> 0] /\ pending = {}
  /\ timer = NotSet /\ timerArg = 0 /\ start_age = [k \in Kinds |-> 0]
  /\ lpo = {} /\ data = {} /\ registry = <<>> /\ stamped = {}

-----------------------------------------------------------------------------
(* The sensors and the clock.                                              *)

NoInterruptWaits == pending = {} /\ timer # 0

\* Some pins change at once; those without interrupt go unseen.
Edges(changed) ==
  /\ NoInterruptWaits
  /\ low' = (low \ changed) \cup (changed \ low)
  /\ age' = [p \in Pins |-> IF p \in changed THEN 0 ELSE age[p]]
  /\ pending' = changed \cap enabled
  /\ stamped' = stamped \ changed
  /\ UNCHANGED <<bootVars, enabled, timer, timerArg, start_age, valueVars, registry>>

Older(a) == IF a < MaxAge THEN a + 1 ELSE a

Tick ==
  /\ NoInterruptWaits
  /\ timer' = IF timer = NotSet THEN NotSet ELSE timer - 1
  /\ age' = [p \in Pins |-> IF p \in low THEN Older(age[p]) ELSE 0]
  /\ start_age' = [k \in Kinds |-> Older(start_age[k])]
  /\ UNCHANGED <<bootVars, enabled, low, pending, timerArg, valueVars, registry, stamped>>

-----------------------------------------------------------------------------
(* The interrupts.                                                         *)

\* Mutant: the interrupt of one pin writes the start time of the other.
PinCb_Crossed(p) ==
  /\ p \in pending /\ pending' = pending \ {p}
  /\ \/ /\ p \in low
        /\ \E k \in Kinds \ {p[2]} : start_age' = [start_age EXCEPT ![k] = 0]
        /\ stamped' = stamped \cup {p}
        /\ UNCHANGED lpo
     \/ /\ p \notin low
        /\ lpo' = IF start_age[p[2]] > 0 THEN lpo \cup {p} ELSE lpo
        /\ UNCHANGED <<start_age, stamped>>
  /\ UNCHANGED <<bootVars, enabled, pinVars, timer, timerArg, data, registry>>

\* _tsp_pin_cb, _tlp_pin_cb: a low pin starts a pulse, a high one ends it.
PinCb(p) ==
  /\ p \in pending /\ pending' = pending \ {p}
  /\ \/ /\ p \in low
        /\ start_age' = [start_age EXCEPT ![p[2]] = 0]
        /\ stamped' = stamped \cup {p}
        /\ UNCHANGED lpo
     \/ /\ p \notin low
        /\ lpo' = IF start_age[p[2]] > 0 THEN lpo \cup {p} ELSE lpo
        /\ UNCHANGED <<start_age, stamped>>
  /\ UNCHANGED <<bootVars, enabled, pinVars, timer, timerArg, data, registry>>

\* Mutant: the next sample is not scheduled.
SampleTimerCb_Once ==
  /\ timer = 0 /\ timer' = NotSet
  /\ data' = data \cup (lpo \cap Own(timerArg))
  /\ lpo' = lpo \ Own(timerArg)
  /\ UNCHANGED <<bootVars, enabled, pinVars, pending, timerArg, start_age, registry, stamped>>

\* _sample_timer_cb: samples the one sensor the timer knows.
SampleTimerCb ==
  /\ timer = 0 /\ timer' = SampleTime
  /\ data' = data \cup (lpo \cap Own(timerArg))
  /\ lpo' = lpo \ Own(timerArg)
  /\ UNCHANGED <<bootVars, enabled, pinVars, pending, timerArg, start_age, registry, stamped>>

-----------------------------------------------------------------------------
(* auto_init_sm_pwm_01c.  No interrupt waits when the thread runs.         *)

BootDone == dev > NumOf

At(s) == NoInterruptWaits /\ ~ BootDone /\ step = s

\* An error: the sensor is left as it is, and the loop goes on.
NextDevice == dev' = dev + 1 /\ step' = "tsp"

\* gpio_init_int enables the interrupt of the pin, or fails.
InitTsp ==
  /\ At("tsp")
  /\ \/ /\ enabled' = enabled \cup {<<dev, "tsp">>}
        /\ step' = "tlp" /\ UNCHANGED dev
     \/ NextDevice /\ UNCHANGED enabled
  /\ UNCHANGED <<pinVars, pending, timer, timerArg, start_age, valueVars, registry, stamped>>

\* Mutant: the timer is set up before the result of gpio_init_int is looked at.
InitTlp_TimerFirst ==
  /\ At("tlp")
  /\ timerArg' = dev
  /\ \/ /\ enabled' = enabled \cup {<<dev, "tlp">>}
        /\ data' = data \ Own(dev)
        /\ step' = "clear" /\ UNCHANGED dev
     \/ NextDevice /\ UNCHANGED <<enabled, data>>
  /\ UNCHANGED <<pinVars, pending, timer, start_age, lpo, registry, stamped>>

\* Mutant: the timer is not told which sensor it is for.
InitTlp_NoArg ==
  /\ At("tlp")
  /\ \/ /\ enabled' = enabled \cup {<<dev, "tlp">>}
        /\ data' = data \ Own(dev)
        /\ step' = "clear" /\ UNCHANGED dev
     \/ NextDevice /\ UNCHANGED <<enabled, data>>
  /\ UNCHANGED <<pinVars, pending, timer, timerArg, start_age, lpo, registry, stamped>>

\* The same for the other pin.  After an error the first pin's interrupt stays
\* enabled; after success the timer, though it runs for another sensor, is this
\* one's, and its buffers are cleared.
InitTlp ==
  /\ At("tlp")
  /\ \/ /\ enabled' = enabled \cup {<<dev, "tlp">>}
        /\ timerArg' = dev
        /\ data' = data \ Own(dev)
        /\ step' = "clear" /\ UNCHANGED dev
     \/ NextDevice /\ UNCHANGED <<enabled, timerArg, data>>
  /\ UNCHANGED <<pinVars, pending, timer, start_age, lpo, registry, stamped>>

\* sm_pwm_01c_start, memset: the interrupts are enabled already, and the timer may
\* run, for this sensor now, since the start of an earlier one.
StartClear ==
  /\ At("clear")
  /\ lpo' = lpo \ Own(dev) /\ data' = data \ Own(dev)
  /\ step' = "timer" /\ UNCHANGED dev
  /\ UNCHANGED <<enabled, pinVars, pending, timer, timerArg, start_age, registry, stamped>>

\* sm_pwm_01c_start, ztimer_set: a timer that runs is set afresh.
StartTimer ==
  /\ At("timer")
  /\ timer' = SampleTime
  /\ step' = "saul" /\ UNCHANGED dev
  /\ UNCHANGED <<enabled, pinVars, pending, timerArg, start_age, valueVars, registry, stamped>>

\* saul_reg_add, once for each particle size: PM2.5, which tsp measures, first.
Register ==
  /\ At("saul")
  /\ registry' = registry \o <<<<dev, "tsp">>, <<dev, "tlp">>>>
  /\ NextDevice
  /\ UNCHANGED <<enabled, pinVars, pending, timer, timerArg, start_age, valueVars, stamped>>

AutoInit == InitTsp \/ InitTlp \/ StartClear \/ StartTimer \/ Register

-----------------------------------------------------------------------------
Dust == \E changed \in SUBSET Toggling \ {{}} : Edges(changed)

Interrupts == (\E p \in Pins : PinCb(p)) \/ SampleTimerCb

DevNext == Dust \/ Tick \/ Interrupts \/ AutoInit

-----------------------------------------------------------------------------
(* Properties.                                                             *)

\* What the driver is about to count for a pulse it saw begin is never more
\* than the pulse, whoever else writes the shared start time; and exactly the
\* pulse as long as no other sensor's interrupt of that size is enabled, be it
\* that of a sensor whose initialisation failed half way.
PulseNotStretched ==
  \A p \in stamped :
    /\ start_age[p[2]] <= age[p]
    /\ {q \in enabled : q[2] = p[2]} = {p} => start_age[p[2]] = age[p]
=============================================================================
