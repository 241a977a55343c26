# A verification of riot-firmwares

TLA+ modules, TLC runs and TLAPS proofs for the firmware of this repository: CoAP
sensor nodes on RIOT that measure air quality and report it, show and control a
few things, and update themselves over the air with SUIT.

Contents: [1 the system](#1-the-system), [2 the modules](#2-the-modules),
[3 the runs](#3-the-runs), [4 the theorems](#4-the-theorems),
[5 what the models say of the code](#5-what-the-models-say-of-the-code),
[6 what is not modelled](#6-what-is-not-modelled), [7 the plan](#7-the-plan).

## 1. The system

RIOT, its `suitreg`, `ztimer`, `gcoap`, `saul_reg` and lvgl are not in the
repository. What the code relies on is modelled from how it uses them, and marked
external in `PROJECT.json`.

| Part | State | Operations | Meets |
| --- | --- | --- | --- |
| `modules/schedreg`: periodic callbacks | list of entries, their timers and messages, a queue of 4, a thread | `schedreg_register`, `schedreg_unregister`, `schedreg_resched`, the thread's loop | the client, by calls and callbacks; ztimer, whose interrupt sends the entries' messages |
| `apps/node_saul`: the node | ten entries, the resource table | boot, registration, shell | schedreg, by calls; gcoap, by the table |
| `modules/coap_saul`: sensors | none | `saul_coap_handler` (GET), `saul_coap_send` (callback) | schedreg's thread, main and gcoap's thread call it |
| `modules/coap_common`: beacon, constants | `uid`, written once | `init_beacon_sender`, `beacon_handler`, four resources | main, schedreg's thread, gcoap's thread |
| `modules/coap_utils`: `send_coap_post` | none | builds and sends a request; may block | whoever posts |
| `modules/coap_suit`: update status | `suit_state`, size and counter of the download, one timer, a queue of 4, a thread | the thread's loop, `/suit_state`, `/version`, `/vendor` | suitreg, by messages; ztimer, by a message; the server, by posts |
| `apps/gui`: progress bar | two fields shared without a lock, a message queue | main's loop, an lvgl task | suitreg, by messages; lvgl's thread, by the shared fields |
| `drivers/sm_pwm_01c`: dust sensor | low times, start times, circular buffers or an average, one timer | two pin interrupts, the sample interrupt, start, stop, read | readers, with interrupts disabled |
| `auto_init` and the SAUL adaption of the sensor | the SAUL registry, entry after entry | init, start and register each sensor; read one value | the interrupts of the sensors already up; whoever reads the registry |
| gcoap's thread: the resources of all modules | the table `_resources`, searched in order | GET of texts and readings | the registry; the LED |
| `modules/coap_led`: the LED | one pin | GET, PUT | the shell's `saul write` to the same pin |
| gateways, boards, test applications | none here | see 6 | |

What is hard here, and the properties that answer it:

| Hazard | Where it bites | Property |
| --- | --- | --- |
| a queue of four, up to ten senders, and nobody sends again what was refused | `schedreg.c:14` | `NothingLost`, `RegisteredIsScheduled` |
| a queued message carries a position of a list that may change | `schedreg.c:98` | `RoutedToSender`, `TypesMatchPositions` |
| the client is preempted between numbering, linking and scheduling an entry, and between two renumberings | `schedreg.c:61` | `TypesMatchPositions`, `OneTokenPerEntry`, `RegisteredIsScheduled`, `BootReports`, `EverySensorReports` |
| an entry only goes on because its own message is handled | `schedreg.c:78` | `TimeoutsAreHandled`, `ImplementsPeriodicTasks` |
| an error's timer outlives the error; one timer serves all errors | `coap_suit.c:132`, `:145` | `ErrorHasExit`, `ErrorIsLeft`, `IdleOnlyFromError` |
| notifications refused by a full queue, or sent before registration | `coap_suit.c:118`, `:121` | `StatusFollowsUpdate`, `ProgressHasSize` |
| two fields read one after the other by a preempted task | `gui/main.c:79`, `:128` | `BarFillsUp` |
| sizes and reports of several downloads in one queue that refuses some | `gui/main.c:124` | `FieldsOfOneImage` |
| the clock wraps; a pulse spans samples, a stop or a start; two edges share an interrupt | `sm_pwm_01c.c:131`, `:135`, `:186` | `LowTimeIsCounted`, `SampleHoldsLowTime`, `ImplementsDustSensor`, `SampledForEver` |
| a product in 32 bits, a result in 16, four lines with integer division, a filter that rounds down | `sm_pwm_01c.c:70`, `:92`, `:112` | `OccupancyIsExact`, `CurveRises`, `AverageApproaches`, `AverageSettles`, `ScalingKeepsCurve` |
| `schedreg_unregister` leaves the entry's timer set | `schedreg.c:69` | `RunsSendersCallback` |
| sensors share one timer and two start times, and are brought up while the interrupts of the others run | `auto_init_sm_pwm_01c.c:59`, `sm_pwm_01c.c:171` | `PulseNotStretched`, `AnswersAreSampled`, `LowTimeIsSampled` |
| an initialisation that fails between two pins leaves the first one's interrupt on | `sm_pwm_01c.c:166` | `PulseNotStretched`, `LowTimeIsSampled` |
| -1 stored in a `size_t` | `coap_saul.c:98` | `ContentIsReading` |
| a table searched in an order it does not have | `node_saul/main.c:68` | `ResourcesAreFound` |
| a 16-bit value in a signed one, its scale in a prefix | `sm_pwm_01c_saul.c:37` | `ReadingIsReported` |

The complete list, with the hazards no property covers, is in `PROJECT.json`.

## 2. The modules

    RiotMsg ---- SchedReg ---- NodeSaul            PeriodicTasks <= SchedReg
       |             |             |
       |      SchedRegProofs -- NodeSaulProofs
       |
    SuitListener (RiotMsg + SuitUpdate) ---- CoapSuit ---- CoapSuitProofs
       |                               \---- SuitGui  ---- SuitGuiProofs
       \---- SuitListenerProofs, below both proof modules

    SmPwmCurve + CircBuf ---- SmPwm01c             DustSensor <= SmPwm01c
         |          |             |
     SteadyAir      |             |
         |          |             |
        SmPwmValueProofs ---- SmPwm01cProofs

    SmPwmDevices + CoapServer ---- DustNode ---- DustNodeProofs

`A ---- B`: B extends A. `S <= M`: M implements the abstract specification S, by
`INSTANCE S WITH` and a refinement mapping. The `MC` modules bind constants for
TLC; a definition with a suffix (`RegisterAppend_Prepend`) is a plausible wrong
version of the definition of that name, used to show that a property would notice.

**RiotMsg** (external): a thread with a message queue. `Deliver` hands a copy of
the message to a blocked receiver, queues it, or refuses it; `MsgReceive` is
`msg_receive`. `Pending` is what the thread has yet to act on, oldest first.

**SchedReg**: `schedreg.c`. `schedreg` is the linked list as a sequence, `msgType`
the type in each entry's message, `armed` the entries whose timer is set. Register
is four steps (`RegisterBegin`, `RegisterAppend`, `RegisterResched`,
`RegisterReturns`), unregister one step to unlink and one per renumbered entry:
between them the interrupt and the thread, of higher priority, may do anything,
and the client only moves while the thread is blocked or in a callback
(`MainRuns`). A queued message has one field the code lacks: `src`, whose timer
sent it, a history that no guard looks at. `lost` is a history variable too. `StaticSpec` leaves unregistering out, as
every application here does; `Spec` is the whole interface.

**NodeSaul**: `node_saul/main.c` as the one client of SchedReg, with the callbacks
of `coap_common` and `coap_saul`. Which sensors are there is chosen at boot; main
announces the reset, registers the beacon and each sensor it finds, each
registration calling the callback once, and ends in the shell. A callback that
could not read its sensor posts all the same, as the code does. What gcoap's thread
answers meanwhile shares nothing with schedreg and is DustNode's matter.

**PeriodicTasks**: what a user of schedreg is promised: a registered task
alternates between waiting and due, and both end.

**SuitUpdate**, **SuitListener** (external): the messages of an update in the
order RIOT's worker sends them, and their delivery to a registered thread.
What suitreg does about a full queue is open, and both answers are behaviours: a
message may be dropped, or the worker waits, that is, takes no step for a while.
Three history variables say what was lost, so that a property can excuse exactly
that loss and no other: `refused`, some message met a full queue; `missedStart`, a
SUIT_DOWNLOAD_START was not delivered; `missedLast` (in CoapSuit), the worker's
last status was not.

**CoapSuit**: `suit_coap_thread`. One action per group of cases of its switch, the
final post as a state in which the thread may stay for long, the timer that sends
SUIT_IDLE, the reboot that forgets everything. The text of the posts is left out.

**SuitGui**: `gui/main.c`, main's loop and `suit_progress_bar` as a task of two
reads, in either order, since C orders neither.

**SmPwmCurve**, **CircBuf**: the arithmetic and the circular buffer, as operators.
**SteadyAir**: the samples of a sensor whose pin is low for the same time in each, which
is what the arithmetic is checked and proved on.
**SmPwm01c**: pins, clock and interrupts. An edge makes its pin's interrupt
pending; the interrupt reads the pin when it runs, so a second edge before that
has none of its own (`missed`). The clock ticks only when no interrupt waits.
`unsampled` is a history variable: the low time of pulses that have ended and are
in no sample yet. **DustSensor**: a sliding window of the last samples per
particle size.

**SmPwmDevices**: the driver with several sensors, who counts and samples what, not
how much. `InitTsp`, `InitTlp`, `StartClear`, `StartTimer` and `Register` are one
sensor's turn of auto_init's loop, the first two either succeeding or giving up on the sensor.
Between any two of them pins change, interrupts run (`PinCb`, `SampleTimerCb`) and
time passes. Times are ages; `stamped` is a history variable: the low pins whose
falling edge had its interrupt. **CoapServer**: the request handlers as operators
from a text's length and the packet's room to a reply, and the LED with its two
writers. **DustNode**: the two together, the registry between them and the table of
resources of `node_saul/main.c` in its own order, with the row `suit/` of
SUIT_COAP_SUBTREE, whose handler is RIOT's.

## 3. The runs

| Run | Shows | Bounds |
| --- | --- | --- |
| `schedreg_whole_api` | the whole interface in any order keeps types and numbering: a message type is its entry's position, or one too high where a renumbering under way has yet to come | 4 entries, registry of 3, queue of 1; entries are symmetric |
| `schedreg_stale_message` | *violated*: the timer of an unregistered entry runs the callback of the entry that has its position by then | 2 entries |
| `node_saul_fit` | whatever subset of sensors is there: routing, one token per entry, no loss, every timeout handled; all have reported at the shell, and report for ever; PeriodicTasks implemented with its liveness | 5 known sensors, at most 3 there and the beacon, so four entries; queue of 4 |
| `node_saul_default_queue` | *violated*: with a fourth sensor an entry stops being scheduled | 4 known sensors, all may be there; queue of 4 |
| `coap_suit_drops` | the status follows the update, every error is left, reports have a size; which lost notification does harm, and that others do not | queue of 1, sizes 1 and 2, one report in 2 |
| `coap_suit_stale_idle` | *violated*: an old error's timer turns a running update idle | queue of 4, sizes 1 and 3 |
| `suit_gui` | the fields and the bar catch up with every announced download | queue of 1, sizes 1 and 2 |
| `sm_pwm_window` | low times are right, a sample takes in one pulse too much at most, samples go on, the buffer is a window | sample of 2 ticks, pulses up to 2, clock modulo 6, buffer of 2 |
| `sm_pwm_curve` | the arithmetic at every occupancy, and what a reply says of it | sample of 2500, weight 5 |
| `sm_pwm_scaling` | *violated*: the scaled approximation is not the unscaled one | as `sm_pwm_curve` |
| `dust_node` | the boot of several sensors under their own interrupts, and what the server answers from them after it | 3 sensors, sample of 2, ages up to 3, dust at one pin of each of the first two |
| `dust_node_table` | *violated*: a resource of a table said to be alphabetical is never found | one sensor, no dust |

Why the bounds are enough. The queue has to overflow, and to be exactly full, so
its length is chosen around the number of senders; four is also the default. A
registry of three fills up with four entries. Two image sizes let a percentage
mix two images; a size of 1 makes the first report the last. A queue of one is
full as soon as the listener is busy, so that every notification is lost in some
behaviour and delivered in others; with longer queues only the number of messages
in between grows, and the theorems speak of those. One pin suffices
because the two share nothing but the clock and the timer, which the model keeps.
A pulse of 2 ticks can begin just before the interrupt of one sample of 2 and end
just after that of the next, and so run through both; a clock modulo 6 wraps within a
pulse, and its range is larger than all that `SampleHoldsLowTime` lets a sample take
in, which is 4, so that the bound excludes something in every state. Three sensors let
one come up, or fail half way, before and after another; ages above the sample
time are all alike, and two pins of the same size are enough for them to write each
other's start time. A sample of 2500 gives 2500 different low times, 4/100 of a
per cent apart, so every piece of the curve and each of its joints is reached.
`WordMod` 2^25 and `SizeMod` 2^16 stand for 2^32, which TLC's integers do not hold:
the first still exceeds every product of the run, as 2^32 exceeds those of the
default sample time, and the second only has to be larger than any packet. The
theorems of section 4 hold for every value.

A violated run checks one statement of the code's comments or documentation; TLC's
counterexample is the sequence of steps that contradicts it.

### Fairness

* SchedReg, CoapSuit: weak fairness of each timer and of the thread's next step.
  Timers expire; the threads have a higher priority than main and their sends are
  non-confirmable, so they return. Nothing is assumed of the client of SchedReg,
  nor of the update worker: updates start and stop as they like.
* NodeSaul: in addition strong fairness of main's next step. Main has the lowest
  priority and moves only while the thread is blocked or sends; the periods are of
  seconds, so that this happens again and again, though it need not last.
* SuitGui: weak fairness of main and of the lvgl task, which repeats without end.
* SmPwm01c: weak fairness of the interrupts and of the end of a low pulse, which
  the sensor guarantees; strong fairness of the clock, since edges may disable the
  tick for a moment, but not for ever. No fairness of start and stop.
* DustNode: weak fairness of the interrupts; strong fairness of the tick and of the
  boot, which wait for interrupts to be done but not for ever. None of the dust, of
  requests or of the shell.
* The curve: weak fairness of taking a sample.

## 4. The theorems

All for every value of the constants under the modules' named assumptions: finite
set of entries and natural sizes; `Entries = 0 .. NumOf`; positive buffer length,
sample time, weight and word; pulses shorter than the clock's range; a report cycle
that fits its 8-bit counter; image sizes that have a largest one, since a slot of
flash does.

**SchedRegProofs.** `TypeCorrect`; `TypesMatch` from the inductive invariant
`ListInv`: the numbering property alone is not inductive, since it says nothing of
which entry `_schedreg_update` renumbers next, nor which type a new entry has
before it is in the list. Without unregistering, `TokenInv`:
registered entries never move, so a type sent earlier still names its sender, and
the entry being scheduled has no token yet. From it `MessagesAreRouted` and
`OneToken`. `NoLoss`, with as many slots as entries: the queued messages have
different senders, none of them the one whose timer fires, so there is an
injection from the queue into the other entries (`RoomForTimer`, stated for any
finite set that holds all tokens). `DroppedStaysSilent`: for any queue, an entry
whose message was refused once has neither timer nor message ever after; with
`TokenSomewhere` and `NoLoss` this gives `AlwaysScheduled`. `OverflowIsBounded`: the
same injection read backwards. A message is refused only if `QueueSize` others, of
different senders that are all still scheduled, are queued, so an overflow silences
an entry beyond those and never one of the last `QueueSize`; nothing is assumed of the
number of entries. `ImplementsSafety`: each step is a step of one periodic task, or none.

**NodeSaulProofs.** A node's step is for schedreg the step of a client that never
unregisters (`NodeStepIsStatic`), so SchedReg's lemmas carry over. `NodeInv` adds
that only what is there is registered and that every entry main is done with has
reported. `NodeTypeCorrect`, `BootHasReported`, and `NodeStaysScheduled`: with at most
`QueueSize - 1` sensors no entry is ever silenced. Next to the violated run this
is the exact bound: three sensors in the default queue, not four. With
`ListedStep`, that what has been registered is in the list, `NodeForgetsNobody` says
so of the sensors: whatever was found at boot has a timer or a message for as long as
the shell runs. `NodeImplementsTasks` is the refinement of PeriodicTasks by the
whole node. `NodeLossIsBounded`: where the queue is too short, as in the violated run,
four of the node's entries go on all the same.

**SmPwmValueProofs, SmPwm01cProofs.** `PushSlides`: a push drops the oldest sample of the
window and appends the new one, for every length. `OccupancyExact`: if the product
fits the word, neither it nor the cast to 16 bits loses anything.
`AverageHasNoOvershoot`. Over the behaviours of SteadyAir, where the air stays the
same from sample to sample, and for every sample time and weight whose products fit 32
bits (`Fit32`; the invariant `SteadyInv` bounds the average by the worst
concentration): `OccupancyStaysExact`; `AverageOnlyApproaches`;
`ReadingsAreMicrograms`, no average exceeds what a `phydat_t` holds without a new
scale, which the text would lose; and, from 10000 ticks a sample, `MoreIsNotLess`: one
tick more is at most one hundredth of a per cent more (`OccupancyByOne`), and the curve
rises from each hundredth to the next (`CurveRisesByOne`), so only the known step at 2 %
falls. A sample of fewer ticks can jump over that step. The default is 100000 ticks.
`ScalingMovesCurve` gives the distance between the scaled and the unscaled curve at
every whole per cent, of which the run `sm_pwm_scaling` shows one. `AverageRestsInBand`
is the part of `AverageSettles` that needs no fairness: a sample of constant air moves
the average exactly as long as it is outside `Band`, from `ExpWeight - 1` below the
concentration to the concentration (`FixedPoints`), so that together with
`AverageOnlyApproaches` every sample brings it nearer, by one at least.

SmPwm01cProofs: `TypeCorrect`. `PulsesAreCounted`: the invariant `CountInv`
measures, modulo the clock, the pulse in progress from the start time, and says
that the two sums agree as long as no edge lost its interrupt. `SamplesAreBounded`: the
bound of `SampleHoldsLowTime` is not inductive, since a pulse under way adds its whole
length when it ends. `HoldInv` counts what is under way (`Uncounted`) before it ends,
so that both sides of the bound grow with the clock and never otherwise.
`SamplesDoNotWrap`: an occupancy above 100 % is not cut either, if a pulse lasts
up to 1.78 samples. `AverageStaysBounded`, for the build with the exponential average:
the concentration of 100 %, 23540, is no bound of the average, since one sample may
exceed it, and TLC finds it exceeded; but a pulse that makes a sample too high was
missing in the samples before. `AverageInv` keeps this balance: `Charged` adds to the
weighted average what is counted and under way but not in it yet, and bounds the sum by
what a pin that is always low would have given by then and one longest pulse.
`SampleBalance` is the arithmetic of one sample; it needs a filter that forgets, so
the case of an average above 23540 and that below it are different. The theorem speaks of
behaviours in which every sample is of measured pulses (`SamplesAreMeasured`): a pulse
with a lost interrupt is measured from an old start and may be as long as the
clock's range. `ReadingsKeepTheirScale` draws the conclusion for `phydat_fit`: at the
defaults it holds for pulses of up to 195 ms. `HeavyAverageStaysAtZero`: with a weight
above 65535 the average never leaves zero. `Implements`: built
with the moving average, SmPwm01c implements DustSensor, for every buffer length.

**DustNodeProofs.** For every number of sensors and every pattern of failing pins.
The invariant `DevInv` is the types, `PulseNotStretched`, `EdgesAreFresh` (while
the interrupt of an edge waits, the pin's age is zero, so that what it then writes
is the pulse's own start) and `RegistryInOrder` (the registry holds pairs of
one sensor's entries, the first sensor first, and the timer is that of the sensor
being brought up or else of the last one registered). `DevTypeCorrect`,
`PulsesAreNotStretched`, and from the registry's order `AnswersAreSampledOrNot`.
`OneSensorIsExact`: with one sensor, the case of every board here, nothing of what
sharing does remains. `ContentIsReadingHolds`: the table is a sorted one with two
entries swapped (`TableAlmostSorted`), so every path has its own rank (`SortedOnce`)
and the search meets each but `/pm1` (`OnlyPm1IsHidden`); what the handlers of those
then answer follows for texts and packets of any length from `GetAnswers`. The only assumption is that a
`size_t` holds more than the size of the largest packet, which has room for 64 bytes in
the model.

**SuitListenerProofs, CoapSuitProofs, SuitGuiProofs.** What a listener will have
when it has caught up is decided by the newest message of a kind among the pending
ones. The lemmas of SuitListenerProofs say how each step changes the pending
sequence (one message appended, the first removed, or neither) and what is then the
newest (`NewestAppended`, `NewestOfTail`). `GuiInv` and `CoapInv` apply this to the sizes,
the reports and the status: if a pending message carries the size, the newest does
carry the worker's, and if none does the variable has it already. `FieldsAgree`,
`StatusFollows`. `FinishedBarIsFull` is the part of `BarFillsUp` that needs no fairness:
the worker digests only what it has reported to the last block (`WorkerOrder`), so a
main that has caught up by then holds the whole of an image that is not empty, and the
task draws 100 from any field that is not of the image before. `ReportsHaveSize` needs
more, that each pending report fits the size that will be in force when its turn comes
(`ReportsFit`). `ErrorsHaveExit`: the
worker sends nothing but SUIT_TRIGGER after an error, so behind every pending error,
and first in the queue during an error status, is a message that ends it
(`ErrorIsFollowed`); that is why the timer's message may be refused.

Only model-checked: everything that needs fairness (`TimeoutsAreHandled`,
`EverySensorReports`, `ErrorIsLeft`, `BarFillsUp`, `SampledForEver`, `AverageSettles`,
`LowTimeIsSampled` and the fairness of PeriodicTasks); `CurveRises` for samples of fewer
than 10000 ticks. Liveness is out of the provers' reach. So is a bound on the average
of the build with the circular buffer: it is the sum of a sequence, and what a sum
is for every length needs an induction over data.

The properties that no run lists (`LossIsBounded`, `PresentAreScheduled`, the bounds of
SmPwm01cProofs) hold in TLC's small instances too; they are proved rather than run,
since they say most for sizes that TLC does not reach.

## 5. What the models say of the code

Shown by a run:

* One overflow of schedreg's queue silences an entry until reboot
  (`node_saul_default_queue`, and `DroppedStaysSilent` for every size), but never the
  last four (`NodeLossIsBounded`).
* `schedreg_unregister` leaves the entry's timer set. It expires once more, from memory
  the caller may have given up, and its message carries the position the entry had; the
  thread then runs whichever entry has that position (`schedreg_stale_message`). No
  application here unregisters.
* The timer of an error is not stopped by a new update (`coap_suit_stale_idle`).
* `node_saul/main.c:68`: `/pm10` precedes `/pm1` in a table said to be alphabetical
  (`:59`), so that `/pm1` is never found (`dust_node_table`).
* The approximation's constants are not scaled with its slopes
  (`sm_pwm_scaling`): at 3 % it yields 208 instead of 251, at 5 % 575 instead of 420
  (`ScalingMovesCurve` for the whole curve).

Seen while modelling, without a run:

* `sm_pwm_01c.c:135`: a pulse counts whole in the sample it ends in, so a sample
  may have more than 100 % and the one before too little. The excess is one pulse at most
  (`SamplesAreBounded`), and at the defaults neither wraps (`SamplesDoNotWrap`) nor
  costs a reading its scale (`ReadingsKeepTheirScale`).
* `drivers/sm_pwm_01c/Kconfig` sets EXP_WEIGHT to 100000, a filter that never
  leaves zero for 16-bit samples (`HeavyAverageStaysAtZero`).
* `sm_pwm_01c.c:171`: two sensors share one timer and the start times. The server
  then answers from the first sensor, whose samples nobody takes any more, while
  the last one's are taken and never read (`AnswersAreSampledOrNot`), and pulses that
  overlap are counted too short. No board here has two, and one is exact
  (`OneSensorIsExact`).
* `sm_pwm_01c.c:166`: after a failure of the second pin the first pin's interrupt
  stays on and goes on writing the start time the other sensors use.
* `boards/enviro-nrf52840`: the LED is not inverted for SAUL (`gpio_params.h:38`,
  `board.h:43`), but `coap_led.c` inverts always: there GET reads the opposite of what
  `saul write` set. No application has `led_handler` in its table.
* `boards/enviro-samr21/include/board.h`: PA19 is both the LED (`:90`) and the interrupt
  of the CCS811 (`:159`), and PA28 both the button (`:105`) and a pin of the dust sensor
  (`:142`).
* `sm_pwm_01c_saul.c:37`: above 32767 the scale would change and the text's prefix
  with it; no occupancy up to 100 % comes near (`ReadingsAreMicrograms`).
* `schedreg.c:48`: the timer of a live entry that expires between the unlinking of another
  and its own renumbering sends a position one too high (`TypesMatchPositions` allows
  that much). The thread finds no entry there, or the next one, and the live entry is
  not scheduled again: with unregistering, `RegisteredIsScheduled` fails even without an
  overflow, which is why its run and its proof are of clients that never do that.
* The -EINVAL of `schedreg.h:58` is never returned; `schedreg.h:98` speaks of
  microseconds, `schedreg.c:78` uses milliseconds.
* An error is left even when the queue refuses its SUIT_IDLE, but not when the worker's
  next SUIT_TRIGGER is refused as well: then it stays on the server until the
  following update (the exception `refused` of `ErrorHasExit`).
* `coap_suit.c:157`: the end of the prefix is remembered from an earlier text, so
  that later reports begin with part of the status. `coap_suit.c:148`: SUIT_REBOOT is
  reported as the end of the download.
* `gui/main.c:79`: a division by zero before the first download, once at every boot;
  and more than 100 % at the start of a smaller image (`:128`).
* `coap_saul.c:113`: a failed read is posted as an uninitialised text.
* `coap_common.c:67`: the buffer is one byte short for the terminator.
* `coap_led.c:44`: a payload that is no number turns the LED off.

## 6. What is not modelled

The table of constant resources of `gui/coap_handler.c`. The gateways, which start
RIOT's network stack and a shell. Of the boards everything but the LED's polarity:
tables of pins and clocks. Of the driver's test application what it prints; its bar
is in SmPwmCurve. Everything in RIOT, above. The text of posts and URIs, but for the
number and prefix of a particle reading. Failures of `thread_create`, which only
wrong constants cause, and of `gcoap`'s sends, which nothing looks at. What a
callback does to itself if schedreg's thread and main run it at once: the ones here
only share the network stack. What the LED reads after a write: it follows from one
assignment, whose two conventions section 5 compares. `server` and `gateway/docker` configure containers,
they are not firmware.

A restart of a dust sensor that is running: SmPwm01c's `Start` is one step, though
`sm_pwm_01c.c:186-190` has interrupts enabled. auto_init and the test application start
a sensor once, right after its initialisation, with no timer set, so that no sample can
fall between its calls; a thread held up there would add the delay to the first sample.
In SmPwmDevices, where earlier sensors are running already, clearing the values and
setting the timer are two steps.

## 7. The plan

Done: RiotMsg, SchedReg, PeriodicTasks; SmPwm01c with CircBuf, SmPwmCurve and
DustSensor; CoapSuit and SuitGui over SuitListener; NodeSaul over SchedReg;
DustNode over SmPwmDevices and CoapServer; their proofs.

Worth doing next, in this order:

1. CoapSuit's posts: what the text of a report starts with (`coap_suit.c:157`).
2. What each pulse adds to SmPwmDevices, with SmPwm01c's arithmetic: how much the
   pulses of two sensors are shortened, not only that they may be.
3. That CoapSuit and SuitGui each implement an abstract listener, which has caught up
   or has messages pending, instead of two invariants of the same form.
