--------------------------- MODULE DustNodeProofs ---------------------------
(***************************************************************************)
(* Theorems about DustNode for every number of sensors, whichever of them  *)
(* come up: the interrupts of one do not stretch the pulses of another,    *)
(* which sensor the server answers from and which the timer samples, and   *)
(* which reading its answers hold.                                         *)
(***************************************************************************)
EXTENDS DustNode, SequenceTheorems, FiniteSetTheorems, TLAPS

\* An interrupt waits for no tick: its pin has just changed.
EdgesAreFresh == \A p \in pending : age[p] = 0

First == registry[1][1]
Last == registry[Len(registry)][1]

\* The registry is in the order of auto_init, two entries for a sensor, and
\* the timer belongs to the last sensor that init has returned 0 for.
RegistryInOrder ==
  /\ BootDone => step = "tsp"
  /\ Len(registry) <= 2 * (dev - 1)
  /\ registry # <<>> =>
       /\ Len(registry) >= 2
       /\ registry[1][2] = "tsp" /\ registry[2] = <<First, "tlp">>
  /\ \A i \in 1 .. Len(registry) :
       First <= registry[i][1] /\ registry[i][1] <= Last /\ registry[i][1] < dev
  /\ timerArg = IF step \in {"clear", "timer", "saul"} THEN dev
                ELSE IF registry = <<>> THEN 0 ELSE Last

\* The invariant the theorems rest on.
DevInv == DevTypeOK /\ EdgesAreFresh /\ PulseNotStretched /\ RegistryInOrder

-----------------------------------------------------------------------------
(* Types.                                                                  *)

\* A clock that counts up to MaxAge stays in its range, and keeps order.
LEMMA OlderAges ==
  ASSUME NEW a \in 0 .. MaxAge, NEW b \in 0 .. MaxAge
  PROVE  Older(a) \in 0 .. MaxAge /\ (a <= b => Older(a) <= Older(b))
BY DeviceConstants DEF Older

\* Before the boot.
LEMMA DevInitInv == DevInit => DevInv
<1> SUFFICES ASSUME DevInit PROVE DevInv
  OBVIOUS
<1> USE DeviceConstants DEF DevInit
<1>1. registry = <<>> /\ registry \in Seq(Pins) /\ Len(registry) = 0
  BY EmptySeq
<1>2. DevTypeOK
  BY <1>1 DEF DevTypeOK, NotSet
<1> QED BY <1>1, <1>2 DEF DevInv, EdgesAreFresh, PulseNotStretched, RegistryInOrder, BootDone

\* The entries that Register adds.
LEMMA RegisterSeq ==
  ASSUME DevTypeOK, Register
  PROVE  /\ registry' \in Seq(Pins) /\ Len(registry') = Len(registry) + 2
         /\ Len(registry) \in Nat
         /\ \A i \in 1 .. Len(registry) : registry'[i] = registry[i]
         /\ registry'[Len(registry) + 1] = <<dev, "tsp">>
         /\ registry'[Len(registry) + 2] = <<dev, "tlp">>
<1> DEFINE two == <<<<dev, "tsp">>, <<dev, "tlp">>>>
<1>1. dev \in Devices /\ registry \in Seq(Pins)
  BY DeviceConstants DEF Register, At, BootDone, DevTypeOK, Devices
<1>2. <<dev, "tsp">> \in Pins /\ <<dev, "tlp">> \in Pins
  BY <1>1 DEF Pins, Kinds
<1>3. two \in Seq(Pins) /\ Len(two) = 2 /\ two[1] = <<dev, "tsp">> /\ two[2] = <<dev, "tlp">>
  BY <1>2
<1>4. registry' = registry \o two
  BY DEF Register
<1> HIDE DEF two
<1>5. /\ registry \o two \in Seq(Pins) /\ Len(registry \o two) = Len(registry) + Len(two)
      /\ \A i \in 1 .. Len(registry) + Len(two) :
           (registry \o two)[i] = IF i <= Len(registry) THEN registry[i]
                                  ELSE two[i - Len(registry)]
  BY <1>1, <1>3, ConcatProperties
<1>6. Len(registry) \in Nat
  BY <1>1, LenProperties
<1>7. /\ \A i \in 1 .. Len(registry) : registry'[i] = registry[i]
      /\ registry'[Len(registry) + 1] = two[1] /\ registry'[Len(registry) + 2] = two[2]
  BY <1>3, <1>4, <1>5, <1>6
<1> QED BY <1>3, <1>4, <1>5, <1>6, <1>7

\* Every step of the sensors keeps the types.
LEMMA DevTypeStep ==
  ASSUME DevInv, [DevNext]_devVars
  PROVE  DevTypeOK'
<1> USE DeviceConstants DEF DevInv, DevTypeOK, NotSet
<1>1. CASE Dust
  <2>1. PICK changed \in SUBSET Toggling : Edges(changed)
    BY <1>1 DEF Dust
  <2>2. age' \in [Pins -> 0 .. MaxAge]
    BY <2>1 DEF Edges
  <2> QED BY <2>1, <2>2 DEF Edges, bootVars, valueVars
<1>2. CASE Tick
  <2>1. age' \in [Pins -> 0 .. MaxAge] /\ start_age' \in [Kinds -> 0 .. MaxAge]
    BY <1>2, OlderAges DEF Tick
  <2>2. timer' \in -1 .. SampleTime /\ (timer' # -1 => timer # -1)
    BY <1>2 DEF Tick, NoInterruptWaits
  <2> QED BY <1>2, <2>1, <2>2 DEF Tick, bootVars, valueVars
<1>3. ASSUME NEW p \in Pins, PinCb(p) PROVE DevTypeOK'
  <2>1. p[2] \in Kinds /\ p \in enabled
    BY <1>3 DEF Pins, PinCb
  <2>2. start_age' \in [Kinds -> 0 .. MaxAge] /\ lpo' \subseteq enabled
        /\ stamped' \subseteq enabled \cap low
    <3>1. CASE p \in low
      BY <1>3, <2>1, <3>1 DEF PinCb
    <3>2. CASE p \notin low
      BY <1>3, <2>1, <3>2 DEF PinCb
    <3> QED BY <3>1, <3>2
  <2> QED BY <1>3, <2>2 DEF PinCb, bootVars, pinVars
<1>4. CASE SampleTimerCb
  BY <1>4 DEF SampleTimerCb, bootVars, pinVars
<1>5. CASE InitTsp
  <2>1. dev \in Devices /\ <<dev, "tsp">> \in Pins
    BY <1>5 DEF InitTsp, At, BootDone, Devices, Pins, Kinds
  <2>2. /\ dev' \in 1 .. NumOf + 1 /\ step' \in {"tsp", "tlp"}
        /\ enabled \subseteq enabled' /\ enabled' \subseteq Pins
    <3>1. dev \in Nat /\ dev + 1 \in 1 .. NumOf + 1 /\ dev \in 1 .. NumOf + 1
      BY <2>1 DEF Devices
    <3>2. /\ dev' \in {dev, dev + 1} /\ step' \in {"tsp", "tlp"}
          /\ enabled' \in {enabled, enabled \cup {<<dev, "tsp">>}}
      BY <1>5, Zenon DEF InitTsp, NextDevice
    <3> QED BY <2>1, <3>1, <3>2
  <2>3. UNCHANGED <<pinVars, pending, timer, timerArg, start_age, valueVars, registry, stamped>>
    BY <1>5 DEF InitTsp
  <2> QED BY <2>2, <2>3 DEF pinVars, valueVars
<1>6. CASE InitTlp
  <2>1. dev \in Devices /\ <<dev, "tlp">> \in Pins
    BY <1>6 DEF InitTlp, At, BootDone, Devices, Pins, Kinds
  <2>2. /\ dev' \in 1 .. NumOf + 1 /\ step' \in {"tsp", "clear"}
        /\ enabled \subseteq enabled' /\ enabled' \subseteq Pins
        /\ data' \subseteq data /\ timerArg' \in {timerArg, dev}
    <3>1. dev \in Nat /\ dev + 1 \in 1 .. NumOf + 1 /\ dev \in 1 .. NumOf + 1
      BY <2>1 DEF Devices
    <3>2. /\ dev' \in {dev, dev + 1} /\ step' \in {"tsp", "clear"}
          /\ enabled' \in {enabled, enabled \cup {<<dev, "tlp">>}}
          /\ data' \in {data, data \ Own(dev)} /\ timerArg' \in {timerArg, dev}
      BY <1>6, Zenon DEF InitTlp, NextDevice
    <3> QED BY <2>1, <3>1, <3>2
  <2>3. UNCHANGED <<pinVars, pending, timer, start_age, lpo, registry, stamped>>
    BY <1>6 DEF InitTlp
  <2> QED BY <2>1, <2>2, <2>3 DEF Devices, pinVars
<1>7. CASE StartClear \/ StartTimer
  <2>1. timerArg = dev /\ dev \in Devices
    BY <1>7 DEF StartClear, StartTimer, At, BootDone, RegistryInOrder, Devices
  <2> QED BY <1>7, <2>1 DEF StartClear, StartTimer, Devices, pinVars, valueVars
<1>8. CASE Register
  <2>1. registry' \in Seq(Pins) /\ Len(registry') <= 2 * NumOf
    <3>1. Len(registry') = Len(registry) + 2 /\ Len(registry) \in Nat /\ registry' \in Seq(Pins)
      BY <1>8, RegisterSeq
    <3>2. Len(registry) <= 2 * (dev - 1) /\ dev <= NumOf /\ dev \in Nat
      BY <1>8 DEF Register, At, BootDone, RegistryInOrder
    <3> QED BY <3>1, <3>2
  <2>2. dev' \in 1 .. NumOf + 1 /\ step' = "tsp"
    BY <1>8 DEF Register, At, BootDone, NextDevice
  <2> QED BY <1>8, <2>1, <2>2 DEF Register, pinVars, valueVars
<1>9. CASE UNCHANGED devVars
  BY <1>9 DEF devVars, bootVars, pinVars, valueVars
<1> QED BY <1>1, <1>2, <1>3, <1>4, <1>5, <1>6, <1>7, <1>8, <1>9
        DEF DevNext, Interrupts, AutoInit

-----------------------------------------------------------------------------
(* Pulses.                                                                 *)

\* A pin whose edge has not been served has changed just now.
LEMMA FreshStep ==
  ASSUME DevInv, [DevNext]_devVars
  PROVE  EdgesAreFresh'
<1> USE DEF DevInv, EdgesAreFresh
<1>1. CASE Dust
  <2>1. PICK changed \in SUBSET Toggling : Edges(changed)
    BY <1>1 DEF Dust
  <2> QED BY <2>1, DeviceConstants DEF Edges
<1>2. CASE Tick
  BY <1>2 DEF Tick, NoInterruptWaits
<1>3. ASSUME NEW p \in Pins, PinCb(p) PROVE EdgesAreFresh'
  BY <1>3 DEF PinCb, pinVars
<1>4. CASE SampleTimerCb
  BY <1>4 DEF SampleTimerCb, pinVars
<1>5. CASE AutoInit \/ UNCHANGED devVars
  BY <1>5 DEF AutoInit, InitTsp, InitTlp, StartClear, StartTimer, Register, devVars, pinVars
<1> QED BY <1>1, <1>2, <1>3, <1>4, <1>5 DEF DevNext, Interrupts

\* Steps that leave pins and start times alone keep what is known of pulses,
\* even when they enable another interrupt.
LEMMA PulsesKept ==
  ASSUME DevTypeOK, PulseNotStretched, enabled \subseteq enabled',
         UNCHANGED <<age, start_age, stamped>>
  PROVE  PulseNotStretched'
<1> SUFFICES ASSUME NEW p \in stamped
             PROVE  /\ start_age[p[2]] <= age[p]
                    /\ {q \in enabled' : q[2] = p[2]} = {p} => start_age[p[2]] = age[p]
  BY DEF PulseNotStretched
<1>1. p \in enabled
  BY DEF DevTypeOK
<1>2. {q \in enabled' : q[2] = p[2]} = {p} => {q \in enabled : q[2] = p[2]} = {p}
  BY <1>1
<1> QED BY <1>2 DEF PulseNotStretched

\* Every step keeps what is known of pulses.
LEMMA PulseStep ==
  ASSUME DevInv, [DevNext]_devVars
  PROVE  PulseNotStretched'
<1> USE DEF DevInv
<1>1. CASE Dust
  <2>1. PICK changed \in SUBSET Toggling : Edges(changed)
    BY <1>1 DEF Dust
  <2>2. \A p \in stamped' : p \in stamped /\ age'[p] = age[p]
    BY <2>1 DEF Edges, DevTypeOK
  <2>3. UNCHANGED <<enabled, start_age>>
    BY <2>1 DEF Edges
  <2> QED BY <2>2, <2>3 DEF PulseNotStretched
<1>2. CASE Tick
  <2>1. UNCHANGED <<enabled, stamped, low>>
    BY <1>2 DEF Tick
  <2>2. ASSUME NEW p \in stamped
        PROVE  /\ age'[p] = Older(age[p]) /\ start_age'[p[2]] = Older(start_age[p[2]])
               /\ age[p] \in 0 .. MaxAge /\ start_age[p[2]] \in 0 .. MaxAge
    <3>1. p \in Pins /\ p \in low /\ p[2] \in Kinds
      BY DEF DevTypeOK, Pins
    <3> QED BY <1>2, <3>1 DEF Tick, DevTypeOK
  <2>3. ASSUME NEW p \in stamped PROVE start_age'[p[2]] <= age'[p]
    BY <2>2, OlderAges DEF PulseNotStretched
  <2> QED BY <2>1, <2>2, <2>3 DEF PulseNotStretched
<1>3. ASSUME NEW p \in Pins, PinCb(p) PROVE PulseNotStretched'
  <2>1. UNCHANGED <<enabled, age>>
    BY <1>3 DEF PinCb, pinVars
  <2>2. CASE p \notin low
    BY <1>3, <2>1, <2>2, PulsesKept DEF PinCb
  <2>3. CASE p \in low
    <3>1. /\ start_age' = [start_age EXCEPT ![p[2]] = 0] /\ stamped' = stamped \cup {p}
          /\ age[p] = 0 /\ p \in enabled /\ p[2] \in Kinds
      BY <1>3, <2>3 DEF PinCb, EdgesAreFresh, DevTypeOK, Pins
    <3>2. start_age'[p[2]] = 0 /\ \A k \in Kinds \ {p[2]} : start_age'[k] = start_age[k]
      BY <3>1 DEF DevTypeOK
    <3>3. ASSUME NEW q \in stamped'
          PROVE  /\ start_age'[q[2]] <= age[q]
                 /\ {r \in enabled : r[2] = q[2]} = {q} => start_age'[q[2]] = age[q]
      <4>1. q \in Pins /\ q[2] \in Kinds /\ age[q] \in 0 .. MaxAge
        BY <3>1 DEF DevTypeOK, Pins
      <4>2. CASE q[2] = p[2]
        <5>1. {r \in enabled : r[2] = q[2]} = {q} => q = p
          BY <3>1, <4>2
        <5> QED BY <3>1, <3>2, <4>1, <4>2, <5>1
      <4>3. CASE q[2] # p[2]
        <5>1. q \in stamped /\ start_age'[q[2]] = start_age[q[2]]
          BY <3>1, <3>2, <4>1, <4>3
        <5> QED BY <5>1 DEF PulseNotStretched
      <4> QED BY <4>2, <4>3
    <3> QED BY <2>1, <3>3 DEF PulseNotStretched
  <2> QED BY <2>2, <2>3
<1>4. CASE SampleTimerCb
  BY <1>4, PulsesKept DEF SampleTimerCb, pinVars
<1>5. CASE AutoInit \/ UNCHANGED devVars
  <2>1. enabled \subseteq enabled' /\ UNCHANGED <<age, start_age, stamped>>
    BY <1>5 DEF AutoInit, InitTsp, InitTlp, StartClear, StartTimer, Register, devVars, pinVars
  <2> QED BY <2>1, PulsesKept
<1> QED BY <1>1, <1>2, <1>3, <1>4, <1>5 DEF DevNext, Interrupts

-----------------------------------------------------------------------------
(* The registry.                                                           *)

\* Every step keeps the registry in the order of auto_init.
LEMMA RegistryStep ==
  ASSUME DevInv, [DevNext]_devVars
  PROVE  RegistryInOrder'
<1>t. /\ dev \in Nat /\ dev >= 1 /\ NumOf \in Nat
      /\ registry \in Seq(Pins) /\ Len(registry) \in Nat
      /\ \A i \in 1 .. Len(registry) : registry[i] \in Pins
  BY DeviceConstants, LenProperties, ElementOfSeq DEF DevInv, DevTypeOK
<1>n. \A i \in 1 .. Len(registry) : registry[i][1] \in Nat
  BY <1>t DEF Pins, Devices
<1> USE DEF DevInv, RegistryInOrder, BootDone, First, Last
<1>1. CASE Dust \/ Tick \/ Interrupts \/ UNCHANGED devVars
  <2>1. UNCHANGED <<dev, step, registry, timerArg>>
    BY <1>1 DEF Dust, Edges, Tick, Interrupts, PinCb, SampleTimerCb, devVars, bootVars
  <2> QED BY <2>1
<1>2. CASE InitTsp
  <2>1. /\ UNCHANGED <<registry, timerArg>> /\ step = "tsp" /\ dev <= NumOf
        /\ \/ dev' = dev /\ step' = "tlp"
           \/ dev' = dev + 1 /\ step' = "tsp"
    <3>1. dev <= NumOf
      BY <1>2, <1>t DEF InitTsp, At
    <3>2. UNCHANGED <<registry, timerArg>> /\ step = "tsp"
      BY <1>2 DEF InitTsp, At
    <3>3. \/ dev' = dev /\ step' = "tlp"
          \/ dev' = dev + 1 /\ step' = "tsp"
      BY <1>2, Zenon DEF InitTsp, NextDevice
    <3> QED BY <3>1, <3>2, <3>3
  <2>2. /\ dev' \in Nat /\ dev <= dev' /\ ~ (dev > NumOf)
        /\ dev' > NumOf => step' = "tsp"
    BY <1>t, <2>1
  <2>3. Len(registry) <= 2 * (dev' - 1)
    BY <1>t, <2>2
  <2>4. \A i \in 1 .. Len(registry) : registry[i][1] < dev'
    BY <1>t, <1>n, <2>2
  <2> QED BY <2>1, <2>2, <2>3, <2>4
<1>3. CASE InitTlp
  <2>1. /\ UNCHANGED registry /\ step = "tlp" /\ dev <= NumOf
        /\ \/ dev' = dev /\ step' = "clear" /\ timerArg' = dev
           \/ dev' = dev + 1 /\ step' = "tsp" /\ timerArg' = timerArg
    BY <1>3, <1>t DEF InitTlp, At, NextDevice
  <2>2. /\ dev' \in Nat /\ dev <= dev' /\ ~ (dev > NumOf)
        /\ dev' > NumOf => step' = "tsp"
    BY <1>t, <2>1
  <2>3. Len(registry) <= 2 * (dev' - 1)
    BY <1>t, <2>2
  <2>4. \A i \in 1 .. Len(registry) : registry[i][1] < dev'
    BY <1>t, <1>n, <2>2
  <2> QED BY <2>1, <2>2, <2>3, <2>4
<1>4. CASE StartClear \/ StartTimer
  <2>1. /\ UNCHANGED <<registry, timerArg, dev>> /\ ~ (dev > NumOf)
        /\ step \in {"clear", "timer"} /\ step' \in {"timer", "saul"}
    BY <1>4 DEF StartClear, StartTimer, At
  <2> QED BY <2>1
<1>5. CASE Register
  <2>1. /\ step = "saul" /\ step' = "tsp" /\ dev' = dev + 1 /\ dev <= NumOf
        /\ timerArg' = timerArg /\ timerArg = dev
    BY <1>5, <1>t DEF Register, At, NextDevice
  <2> DEFINE n == Len(registry)
             new == registry'
  <2>2. /\ Len(new) = n + 2 /\ new[n + 1] = <<dev, "tsp">> /\ new[n + 2] = <<dev, "tlp">>
        /\ \A i \in 1 .. n : new[i] = registry[i]
    BY <1>5, RegisterSeq
  <2>3. n \in Nat /\ n <= 2 * (dev - 1)
    BY <1>t
  <2>4. n # 0 => n >= 2 /\ registry[1][2] = "tsp" /\ registry[2] = <<registry[1][1], "tlp">>
    BY <1>t, EmptySeq
  <2>5. \A i \in 1 .. n : registry[1][1] <= registry[i][1] /\ registry[i][1] < dev
    OBVIOUS
  <2> HIDE DEF n, new
  <2>6. new # <<>> /\ Len(new) >= 2 /\ Len(new) <= 2 * dev
    BY <1>t, <2>2, <2>3
  <2>7. new[1][2] = "tsp" /\ new[2] = <<new[1][1], "tlp">>
    <3>1. CASE n = 0
      BY <2>2, <3>1
    <3>2. CASE n # 0
      BY <2>2, <2>3, <2>4, <3>2
    <3> QED BY <3>1, <3>2
  <2>8. \A i \in 1 .. n : registry[i][1] \in Nat
    BY <1>n DEF n
  <2>9. ASSUME NEW i \in 1 .. Len(new)
        PROVE  new[1][1] <= new[i][1] /\ new[i][1] <= dev
    <3>1. CASE n = 0
      <4>1. i = n + 1 \/ i = n + 2
        BY <2>2, <3>1
      <4>2. new[i][1] = dev /\ new[1][1] = dev
        BY <2>2, <3>1, <4>1
      <4> QED BY <1>t, <4>2
    <3>2. CASE n # 0
      <4>1. 1 \in 1 .. n /\ new[1] = registry[1]
        BY <2>2, <2>3, <3>2
      <4>2. CASE i \in 1 .. n
        <5>1. /\ new[i] = registry[i] /\ registry[i][1] \in Nat
              /\ registry[1][1] <= registry[i][1] /\ registry[i][1] < dev
          BY <2>2, <2>5, <2>8, <4>2
        <5> QED BY <1>t, <4>1, <5>1
      <4>3. CASE i \notin 1 .. n
        <5>1. new[i][1] = dev
          BY <2>2, <2>3, <4>3
        <5>2. registry[1][1] \in Nat /\ registry[1][1] < dev
          BY <2>5, <2>8, <4>1
        <5> QED BY <1>t, <4>1, <5>1, <5>2
      <4> QED BY <4>2, <4>3
    <3> QED BY <3>1, <3>2
  <2>10. new[Len(new)][1] = dev
    BY <2>2
  <2>11. \A i \in 1 .. Len(new) : new[i][1] <= new[Len(new)][1] /\ new[i][1] < dev + 1
    <3>1. \A i \in 1 .. Len(new) : new[i][1] \in Nat
      <4> SUFFICES ASSUME NEW i \in 1 .. Len(new) PROVE new[i][1] \in Nat
        OBVIOUS
      <4>1. CASE i \in 1 .. n
        BY <2>2, <2>8, <4>1
      <4>2. CASE i \notin 1 .. n
        <5>1. i = n + 1 \/ i = n + 2
          BY <2>2, <2>3, <4>2
        <5>2. new[i][1] = dev
          BY <2>2, <5>1
        <5> QED BY <1>t, <5>2
      <4> QED BY <4>1, <4>2
    <3> QED BY <1>t, <2>9, <2>10, <3>1
  <2>12. 2 * (dev' - 1) = 2 * dev
    BY <1>t, <2>1
  <2>13. timerArg' = new[Len(new)][1] /\ Len(new) <= 2 * (dev' - 1)
    BY <2>1, <2>6, <2>10, <2>12
  <2>14. \A i \in 1 .. Len(new) :
           /\ new[1][1] <= new[i][1] /\ new[i][1] <= new[Len(new)][1]
           /\ new[i][1] < dev'
    BY <2>1, <2>9, <2>11
  <2> QED BY <2>1, <2>6, <2>7, <2>13, <2>14 DEF new
<1> QED BY <1>1, <1>2, <1>3, <1>4, <1>5 DEF DevNext, AutoInit

-----------------------------------------------------------------------------
(* Every behaviour.                                                        *)

\* The server's requests leave the sensors alone.
LEMMA NodeStep == [Next]_vars => [DevNext]_devVars
BY DEF Next, Sensors, Serve, vars

\* The invariant holds in every state of a node.
LEMMA DevInvHolds == Spec => []DevInv
<1>1. Init => DevInv
  BY DevInitInv DEF Init
<1>2. DevInv /\ [Next]_vars => DevInv'
  <2> SUFFICES ASSUME DevInv, [Next]_vars PROVE DevInv'
    OBVIOUS
  <2>1. [DevNext]_devVars
    BY NodeStep
  <2>2. DevTypeOK'
    BY <2>1, DevTypeStep
  <2>3. EdgesAreFresh'
    BY <2>1, FreshStep
  <2>4. PulseNotStretched'
    BY <2>1, PulseStep
  <2>5. RegistryInOrder'
    BY <2>1, RegistryStep
  <2> QED BY <2>2, <2>3, <2>4, <2>5 DEF DevInv
<1> QED BY <1>1, <1>2, PTL DEF Spec

\* sm_pwm_01c.c and auto_init_sm_pwm_01c.c: for every number of sensors, sample
\* time and set of pins that see dust, the driver's state is well-typed.
THEOREM DevTypeCorrect == Spec => []DevTypeOK
<1>1. DevInv => DevTypeOK
  BY DEF DevInv
<1> QED BY <1>1, DevInvHolds, PTL

\* sm_pwm_01c.c:135: for every number of sensors, whichever of them are brought up
\* or half brought up, a pulse is never counted longer than it is, and counted
\* exactly if its pin's interrupt is the only one of that size.
THEOREM PulsesAreNotStretched == Spec => []PulseNotStretched
<1>1. DevInv => PulseNotStretched
  BY DEF DevInv
<1> QED BY <1>1, DevInvHolds, PTL

-----------------------------------------------------------------------------
(* Who answers.                                                            *)

\* Each size is found at the first sensor's entries.
LEMMA FindsFirst ==
  ASSUME DevInv, registry # <<>>, NEW k \in Kinds
  PROVE  Find(k) = First
<1> DEFINE at == {i \in DOMAIN registry : registry[i][2] = k}
           n == IF k = "tsp" THEN 1 ELSE 2
<1>1. /\ registry \in Seq(Pins) /\ Len(registry) \in Nat /\ Len(registry) >= 2
      /\ DOMAIN registry = 1 .. Len(registry)
      /\ registry[1][2] = "tsp" /\ registry[2] = <<First, "tlp">>
  BY LenProperties DEF DevInv, DevTypeOK, RegistryInOrder
<1>2. n \in at /\ registry[n][1] = First
  BY <1>1 DEF Kinds, First
<1>3. \A i \in at : i \in Nat /\ n <= i
  BY <1>1 DEF Kinds
<1>4. \A c \in at : (\A j \in at : c <= j) => c = n
  <2> SUFFICES ASSUME NEW c \in at, \A j \in at : c <= j PROVE c = n
    OBVIOUS
  <2>1. c <= n /\ n <= c /\ c \in Nat /\ n \in Nat
    BY <1>2, <1>3
  <2> QED BY <2>1
<1>5. \A j \in at : n <= j
  BY <1>3
<1> HIDE DEF n, at
<1>6. (CHOOSE i \in at : \A j \in at : i <= j) = n
  BY <1>2, <1>4, <1>5
<1>7. Find(k) = registry[CHOOSE i \in at : \A j \in at : i <= j][1]
  BY <1>2 DEF Find, at
<1> QED BY <1>2, <1>6, <1>7

\* One sensor at most has come up exactly if the first is the last.
LEMMA OneStarted ==
  ASSUME DevInv, registry # <<>>
  PROVE  Cardinality(Started) <= 1 <=> First = Last
<1>1. /\ registry \in Seq(Pins) /\ Len(registry) \in Nat /\ Len(registry) >= 2
      /\ DOMAIN registry = 1 .. Len(registry)
      /\ \A i \in 1 .. Len(registry) : registry[i] \in Pins
  BY LenProperties, ElementOfSeq DEF DevInv, DevTypeOK, RegistryInOrder
<1>2. First \in Started /\ Last \in Started
  BY <1>1 DEF First, Last, Started
<1>3. Started \subseteq 1 .. NumOf
  BY <1>1 DEF Started, Pins, Devices
<1>4. IsFiniteSet(Started)
  <2>1. IsFiniteSet(1 .. NumOf)
    BY FS_Interval, DeviceConstants
  <2> QED BY <1>3, <2>1, FS_Subset
<1>5. ASSUME First = Last PROVE Cardinality(Started) <= 1
  <2>1. \A i \in 1 .. Len(registry) : registry[i][1] \in Nat /\ First <= registry[i][1]
                                      /\ registry[i][1] <= Last
    BY <1>1, <1>3 DEF DevInv, RegistryInOrder, Pins, Devices
  <2>2. First \in Nat
    BY <1>1, <2>1 DEF First
  <2>3. \A i \in 1 .. Len(registry) : registry[i][1] = First
    BY <1>5, <2>1, <2>2
  <2>4. Started = {First}
    BY <1>1, <1>2, <2>3 DEF Started
  <2>5. Cardinality(Started) = 1
    BY <2>4, FS_Singleton, Zenon
  <2> QED BY <2>5
<1>6. ASSUME Cardinality(Started) <= 1 PROVE First = Last
  <2>1. Cardinality(Started) \in Nat /\ Cardinality(Started) # 0
    BY <1>2, <1>4, FS_CardinalityType, FS_EmptySet
  <2>2. Cardinality(Started) = 1
    BY <1>6, <2>1
  <2>3. PICK x : Started = {x}
    BY <1>4, <2>2, FS_Singleton, Zenon
  <2> QED BY <1>2, <2>3
<1> QED BY <1>5, <1>6

\* sm_pwm_01c.c:171 and auto_init_sm_pwm_01c.c:72: for every number of sensors and
\* whichever of them come up, the sensor that GET is answered from is sampled
\* exactly if there is at most one.
THEOREM AnswersAreSampledOrNot == Spec => []AnswersAreSampled
<1>1. DevInv => AnswersAreSampled
  <2> SUFFICES ASSUME DevInv, BootDone, NEW k \in Kinds
               PROVE  Find(k) = timerArg <=> Cardinality(Started) <= 1
    BY DEF AnswersAreSampled
  <2>1. timerArg = IF registry = <<>> THEN 0 ELSE Last
    BY DEF DevInv, RegistryInOrder
  <2>2. CASE registry = <<>>
    <3>1. DOMAIN registry = {}
      BY <2>2
    <3>2. Find(k) = 0
      BY <3>1 DEF Find
    <3>3. Started = {}
      BY <3>1 DEF Started
    <3> QED BY <2>1, <2>2, <3>2, <3>3, FS_EmptySet
  <2>3. CASE registry # <<>>
    BY <2>1, <2>3, FindsFirst, OneStarted
  <2> QED BY <2>2, <2>3
<1> QED BY <1>1, DevInvHolds, PTL

\* With one sensor, as on every board here, there is no other to answer from ...
OneIsAnswered == BootDone => \A k \in Kinds : Find(k) = timerArg

\* ... nor one to stretch or shorten its pulses.
PulsesAreExact == \A p \in stamped : start_age[p[2]] = age[p]

\* sm_pwm_01c.c:135, :171: a board with one sensor is spared what several share: its
\* pulses are counted to the tick, while the boot goes on and after it, and GET is
\* answered from the sensor that the timer samples, or from none.
THEOREM OneSensorIsExact == NumOf = 1 => (Spec => [](OneIsAnswered /\ PulsesAreExact))
<1> SUFFICES ASSUME NumOf = 1 PROVE Spec => [](OneIsAnswered /\ PulsesAreExact)
  OBVIOUS
<1>1. DevInv => PulsesAreExact
  <2> SUFFICES ASSUME DevInv, NEW p \in stamped PROVE start_age[p[2]] = age[p]
    BY DEF PulsesAreExact
  <2>1. p \in enabled /\ enabled \subseteq Pins
    BY DEF DevInv, DevTypeOK
  <2>2. \A q \in enabled : q[2] = p[2] => q = p
    BY <2>1 DEF Pins, Devices
  <2>3. {q \in enabled : q[2] = p[2]} = {p}
    BY <2>1, <2>2
  <2> QED BY <2>3 DEF DevInv, PulseNotStretched
<1>2. DevInv => OneIsAnswered
  <2> SUFFICES ASSUME DevInv, BootDone, NEW k \in Kinds PROVE Find(k) = timerArg
    BY DEF OneIsAnswered
  <2>1. timerArg = IF registry = <<>> THEN 0 ELSE Last
    BY DEF DevInv, RegistryInOrder
  <2>2. CASE registry = <<>>
    <3>1. Find(k) = 0
      BY <2>2 DEF Find
    <3> QED BY <2>1, <2>2, <3>1
  <2>3. CASE registry # <<>>
    <3>1. /\ Len(registry) \in Nat /\ Len(registry) >= 2
          /\ \A i \in 1 .. Len(registry) : registry[i] \in Pins
      BY <2>3, LenProperties, ElementOfSeq DEF DevInv, DevTypeOK, RegistryInOrder
    <3>2. registry[1] \in Pins /\ registry[Len(registry)] \in Pins
      BY <3>1
    <3>3. First = 1 /\ Last = 1
      BY <3>2 DEF Pins, Devices, First, Last
    <3> QED BY <2>1, <2>3, <3>3, FindsFirst
  <2> QED BY <2>2, <2>3
<1> QED BY <1>1, <1>2, DevInvHolds, PTL

-----------------------------------------------------------------------------
(* What the search finds, and what is answered.                            *)

\* The place of the path in Resources at i.
Place(i) == IF i = 8 THEN 9 ELSE IF i = 9 THEN 8 ELSE i

\* The table has 18 paths, as the alphabet orders them but for two.
LEMMA TableAlmostSorted ==
  /\ DOMAIN Resources = 1 .. 18 /\ DOMAIN Sorted = 1 .. 18
  /\ \A i \in 1 .. 18 : Resources[i] = Sorted[Place(i)]
<1>1. DOMAIN Resources = 1 .. 18 /\ DOMAIN Sorted = 1 .. 18
  BY DEF Resources, Sorted
<1>2. ASSUME NEW i \in 1 .. 18 PROVE Resources[i] = Sorted[Place(i)]
  BY DEF Resources, Sorted, Place
<1> QED BY <1>1, <1>2

\* No path is in the alphabet twice.
LEMMA SortedOnce ==
  \A i, j \in 1 .. 18 : Sorted[i] = Sorted[j] => i = j
<1> SUFFICES ASSUME NEW i \in 1 .. 18, NEW j \in 1 .. 18, Sorted[i] = Sorted[j]
             PROVE  i = j
  OBVIOUS
<1> QED BY DEF Sorted

\* What Rank gives for each entry of the table.
LEMMA RankOfEntry ==
  \A i \in 1 .. 18 : Rank[Resources[i]] = Place(i)
<1> SUFFICES ASSUME NEW i \in 1 .. 18 PROVE Rank[Resources[i]] = Place(i)
  OBVIOUS
<1>1. Place(i) \in 1 .. 18
  BY DEF Place
<1>2. Resources[i] = Sorted[Place(i)] /\ DOMAIN Sorted = 1 .. 18 /\ Resources[i] \in Paths
  BY TableAlmostSorted DEF Paths
<1>3. \A k \in DOMAIN Sorted : Sorted[k] = Resources[i] <=> k = Place(i)
  BY <1>1, <1>2, SortedOnce
<1>4. (CHOOSE k \in DOMAIN Sorted : Sorted[k] = Resources[i]) = Place(i)
  BY <1>1, <1>2, <1>3
<1> QED BY <1>2, <1>4 DEF Rank

\* The search reaches every path of the table but the one behind "pm10".
LEMMA OnlyPm1IsHidden == \A path \in Paths : path \in Found <=> path # "pm1"
<1>1. \A i, j \in 1 .. 18 : Resources[i] = Resources[j] => i = j
  BY RankOfEntry DEF Place
<1>2. Resources[9] = "pm1"
  BY DEF Resources
<1>3. ASSUME NEW k \in 1 .. 18
      PROVE  (\A j \in 1 .. k - 1 : Rank[Resources[j]] < Rank[Resources[k]]) <=> k # 9
  <2>1. \A j \in 1 .. k - 1 : j \in 1 .. 18 /\ Rank[Resources[j]] = Place(j)
    BY RankOfEntry
  <2>2. Rank[Resources[k]] = Place(k)
    BY RankOfEntry
  <2>3. (\A j \in 1 .. k - 1 : Place(j) < Place(k)) <=> k # 9
    <3>1. CASE k = 9
      <4>1. 8 \in 1 .. k - 1 /\ ~ (Place(8) < Place(k))
        BY <3>1 DEF Place
      <4> QED BY <3>1, <4>1
    <3>2. CASE k # 9
      BY <3>2 DEF Place
    <3> QED BY <3>1, <3>2
  <2> QED BY <2>1, <2>2, <2>3
<1> SUFFICES ASSUME NEW path \in Paths PROVE path \in Found <=> path # "pm1"
  OBVIOUS
<1>4. PICK k \in 1 .. 18 : path = Resources[k]
  BY TableAlmostSorted DEF Paths
<1>5. path # "pm1" <=> k # 9
  BY <1>1, <1>2, <1>4
<1>6. path \in Found <=> k # 9
  BY <1>1, <1>3, <1>4, TableAlmostSorted DEF Found
<1> QED BY <1>5, <1>6

\* A text that a packet could hold is content exactly if it fits, and the -1 of a
\* reading that failed is taken for more than any packet holds.
LEMMA SaulAnswers ==
  ASSUME SizeMod \in Nat, NEW sensor, NEW n \in 1 .. SizeMod - 1, NEW room \in 0 .. SizeMod - 2
  PROVE  LET reply == SaulReply(ReadSaulDataStr(sensor, DimRead, n), room)
         IN  reply = IF n <= room /\ sensor # 0 THEN Content(n) ELSE Error
<1>1. SizeT(n) = n /\ SizeT(-1) = SizeMod - 1
  BY DEF SizeT
<1>2. CASE sensor = 0
  BY <1>1, <1>2 DEF ReadSaulDataStr, SaulReply, SaulResponse
<1>3. CASE sensor # 0
  BY <1>1, <1>3 DEF ReadSaulDataStr, SaulReply, SaulResponse, DimRead
<1> QED BY <1>2, <1>3

\* What GET answers, of a text of any length, in a packet of any size that a size_t
\* can tell from a failed read.
LEMMA GetAnswers ==
  ASSUME SizeMod \in Nat, NEW path \in OwnPaths,
         NEW n \in 1 .. SizeMod - 1, NEW room \in 0 .. SizeMod - 2
  PROVE  Reply(path, n, room) =
           IF path = "pm1" THEN [code |-> "4.04", length |-> 0]
           ELSE IF n <= room /\ (path \in DOMAIN SaulList => Find(SaulList[path]) # 0)
                THEN Content(n) ELSE Error
<1> path \in Paths /\ path # "suit/"
  BY DEF OwnPaths
<1>1. CASE path = "pm1"
  BY <1>1, OnlyPm1IsHidden DEF Reply
<1>2. CASE path # "pm1"
  <2>1. path \in Found
    BY <1>2, OnlyPm1IsHidden
  <2>2. DOMAIN SaulList = {"eco2", "humidity", "light", "pm10", "pm1", "pm2p5",
                           "pressure", "temperature", "tvoc"}
    BY DEF SaulList
  <2>3. CASE path \in Constants
    <3>1. path \notin DOMAIN SaulList
      BY <2>2, <2>3 DEF Constants
    <3>2. Reply(path, n, room) = ConstantReply(n, room)
      BY <2>1, <2>2, <2>3 DEF Reply, Constants, SuitPaths
    <3> QED BY <1>2, <3>1, <3>2 DEF ConstantReply, HandlerStr
  <2>4. CASE path = "position"
    <3>1. path \notin DOMAIN SaulList
      BY <2>2, <2>4
    <3>2. Reply(path, n, room) = PositionReply(n, room)
      BY <2>1, <2>2, <2>4 DEF Reply, Constants, SuitPaths
    <3> QED BY <1>2, <3>1, <3>2 DEF PositionReply
  <2>5. CASE path \in SuitPaths
    <3>1. path \notin DOMAIN SaulList
      BY <2>2, <2>5 DEF SuitPaths
    <3>2. Reply(path, n, room) = SuitReply(n, room)
      BY <2>1, <2>2, <2>5 DEF Reply, Constants, SuitPaths
    <3> QED BY <1>2, <3>1, <3>2 DEF SuitReply
  <2>6. CASE path \in DOMAIN SaulList
    <3>1. Reply(path, n, room)
            = SaulReply(ReadSaulDataStr(Find(SaulList[path]), DimRead, n), room)
      BY <2>1, <2>2, <2>6 DEF Reply, Constants, SuitPaths
    <3> QED BY <1>2, <2>6, <3>1, SaulAnswers
  <2>7. path \in Constants \cup {"position"} \cup SuitPaths \cup DOMAIN SaulList
    BY <2>2, TableAlmostSorted DEF Paths, Resources, Constants, SuitPaths
  <2> QED BY <2>3, <2>4, <2>5, <2>6, <2>7
<1> QED BY <1>1, <1>2

\* coap_saul.c:98 and coap_suit.c, coap_common.c: with a size_t wider than any packet,
\* in every state each resource that is found is answered with content exactly if its
\* text fits and its driver is there.
THEOREM ContentIsReadingHolds == SizeMod > 65 => (Spec => []ContentIsReading)
<1> SUFFICES ASSUME SizeMod > 65 PROVE Spec => []ContentIsReading
  OBVIOUS
<1>1. ContentIsReading
  <2> SUFFICES ASSUME NEW path \in OwnPaths \cap Found, NEW n \in {3, 15}, NEW room \in Rooms
               PROVE  Reply(path, n, room).code = "2.05" <=>
                        n <= room /\ (path \in DOMAIN SaulList => Find(SaulList[path]) # 0)
    BY DEF ContentIsReading
  <2>1. SizeMod \in Nat /\ n \in 1 .. SizeMod - 1 /\ room \in 0 .. SizeMod - 2
    BY ServerConstants DEF Rooms
  <2>2. path \in OwnPaths /\ path # "pm1"
    BY OnlyPm1IsHidden DEF OwnPaths
  <2> QED BY <2>1, <2>2, GetAnswers DEF Content, Error
<1> QED BY <1>1, PTL
=============================================================================
