--------------------------- MODULE NodeSaulProofs ---------------------------
(***************************************************************************)
(* Theorems about NodeSaul for every set of sensors and every queue size:  *)
(* how many sensors the queue of a node has room for, and what a node has  *)
(* sent by the time its shell runs.                                        *)
(***************************************************************************)
EXTENDS NodeSaul, SchedRegProofs

\* Where main is inside schedreg_register.
Registering == main \in {"append", "resched", "cb"}

\* What the types say of the node's own variables, without the history.
NodeTypes ==
  /\ present \subseteq 1 .. NumOf /\ uid \in BOOLEAN
  /\ next \in 0 .. NumOf + 1

\* Only what is there is registered, and the thread is in the callback of an
\* entry of the list.
OnlyPresent ==
  /\ Cardinality(present) <= MaxSensors
  /\ Range(schedreg) \subseteq Registered
  /\ Registering => entry \in Registered
  /\ thread = "cb" => Index(msg) + 1 \in 1 .. Len(schedreg)

\* Every entry main is done with has reported; nothing happens before the reset
\* is announced.
BootInv ==
  /\ reported \subseteq Registered
  /\ ~ uid => next = 0 /\ main = "idle" /\ reported = {} /\ schedreg = <<>>
  /\ \A d \in Registered : d < next => d \in reported \/ (Registering /\ entry = d)

\* The invariant the theorems rest on.
NodeInv == TypeOK /\ ListInv /\ TokenInv /\ NodeTypes /\ OnlyPresent /\ BootInv

\* A step of the node is, for schedreg, a step of a client that never
\* unregisters, or nothing.
LEMMA NodeStepIsStatic ==
  ASSUME NodeTypes, [NodeNext]_allVars
  PROVE  [StaticNext]_vars
<1>1. CASE MainStep
  <2>1. RegisterNext => next \in Entries
    BY NodeConstants DEF RegisterNext, Booting, NodeTypes
  <2> QED BY <1>1, <2>1 DEF MainStep, InitBeaconSender, RegisterNext, SkipAbsent, Schedules,
                            FirstReport, StaticNext, Registration
<1>2. CASE SchedThreadStep
  BY <1>2 DEF SchedThreadStep, Dispatches, Reports, StaticNext, ThreadStep
<1>3. CASE \E e \in Entries : TimerStep(e)
  BY <1>3 DEF TimerStep, StaticNext, Timers
<1>4. CASE UNCHANGED allVars
  BY <1>4 DEF allVars
<1> QED BY <1>1, <1>2, <1>3, <1>4 DEF NodeNext

\* Every step of the node keeps the types of its own variables.
LEMMA NodeTypesStep ==
  ASSUME NodeTypes, [NodeNext]_allVars
  PROVE  NodeTypes' /\ present' = present
<1>1. NumOf \in Nat
  BY NodeConstants
<1>2. CASE MainStep
  <2>1. uid' \in BOOLEAN /\ present' = present
    BY <1>2, Zenon DEF MainStep, InitBeaconSender, RegisterNext, SkipAbsent, Schedules,
                       FirstReport, NodeTypes, nodeVars
  <2>2. next' = next \/ (next' = next + 1 /\ next <= NumOf)
    BY <1>2, Zenon DEF MainStep, InitBeaconSender, RegisterNext, SkipAbsent, Schedules,
                       FirstReport, Booting, nodeVars
  <2>3. next' \in 0 .. NumOf + 1
    BY <1>1, <2>2 DEF NodeTypes
  <2> QED BY <2>1, <2>3 DEF NodeTypes
<1>3. CASE SchedThreadStep \/ (\E e \in Entries : TimerStep(e)) \/ UNCHANGED allVars
  BY <1>3 DEF SchedThreadStep, Dispatches, Reports, TimerStep, NodeTypes, nodeVars, allVars
<1> QED BY <1>2, <1>3 DEF NodeNext

-----------------------------------------------------------------------------
\* Timers and message receptions leave the callback the thread is in alone.
LEMMA CallbackKept ==
  ASSUME TypeOK, NEW m, Deliver(m)
  PROVE  thread' = "cb" => thread = "cb" /\ msg' = msg
BY DEF Deliver, QueueFull, threadVars

\* No step registers a sensor that is not there.
LEMMA OnlyPresentStep ==
  ASSUME TypeOK, TokenInv, NodeTypes, OnlyPresent, [NodeNext]_allVars
  PROVE  OnlyPresent'
<1>r. Registered' = Registered /\ present' = present
  BY NodeTypesStep DEF Registered
<1>l. Len(schedreg) \in Nat /\ DOMAIN schedreg = 1 .. Len(schedreg)
  BY LenProperties DEF TypeOK
<1> USE DEF OnlyPresent, Registering
<1>1. CASE InitBeaconSender \/ SkipAbsent \/ UNCHANGED allVars
  BY <1>1, <1>r DEF InitBeaconSender, SkipAbsent, allVars, vars, Index
<1>2. CASE RegisterNext
  BY <1>2, <1>r DEF RegisterNext, RegisterBegin, threadVars, Index
<1>3. CASE RegisterAppend /\ UNCHANGED nodeVars
  <2>1. /\ main = "append" /\ main' = "resched" /\ UNCHANGED <<entry, thread, msg>>
        /\ schedreg' = Append(schedreg, entry) /\ entry \in Entries
    BY <1>3 DEF RegisterAppend, TypeOK, threadVars
  <2>2. /\ Len(schedreg') = Len(schedreg) + 1 /\ DOMAIN schedreg' = 1 .. Len(schedreg) + 1
        /\ \A i \in 1 .. Len(schedreg) : schedreg'[i] = schedreg[i]
        /\ schedreg'[Len(schedreg) + 1] = entry
    BY <2>1, AppendProperties, LenProperties DEF TypeOK
  <2>3. Range(schedreg') = Range(schedreg) \cup {entry}
    BY <2>2, <1>l DEF Range
  <2> QED BY <2>1, <2>2, <2>3, <1>r, <1>l DEF Index
<1>4. CASE RegisterResched /\ UNCHANGED nodeVars
  BY <1>4, <1>r DEF RegisterResched, threadVars, Index
<1>5. CASE FirstReport
  BY <1>5, <1>r DEF FirstReport, RegisterReturns, threadVars, Index
<1>6. CASE Receive /\ UNCHANGED nodeVars
  BY <1>6, <1>r DEF Receive, MsgReceive, mainVars
<1>7. CASE ThreadResched /\ UNCHANGED nodeVars
  <2>1. /\ thread = "got" /\ UNCHANGED <<schedreg, main, entry, msg>>
        /\ Index(msg) + 1 \in 1 .. Len(schedreg)
    <3>1. msg \in Message /\ msg.type \in Nat
      BY <1>7 DEF ThreadResched, TypeOK, Message
    <3> QED BY <1>7, <1>l, <3>1, SizesAreNat DEF ThreadResched, HasNth, Index, mainVars
  <2> QED BY <2>1, <1>r DEF Index
<1>8. ASSUME NEW e \in Entries, Reports(e) PROVE OnlyPresent'
  BY <1>8, <1>r DEF Reports, CallbackReturns, mainVars
<1>9. ASSUME NEW e \in Entries, TimerStep(e) PROVE OnlyPresent'
  <2>1. /\ UNCHANGED <<schedreg, main, entry>>
        /\ thread' = "cb" => thread = "cb" /\ msg' = msg
    BY <1>9, CallbackKept DEF TimerStep, TimerFires, mainVars
  <2> QED BY <2>1, <1>r DEF Index
<1> QED BY <1>1, <1>2, <1>3, <1>4, <1>5, <1>6, <1>7, <1>8, <1>9
        DEF NodeNext, MainStep, Schedules, SchedThreadStep, Dispatches

\* Every step keeps the order of the boot.
LEMMA BootStep ==
  ASSUME TypeOK, TokenInv, NodeTypes, OnlyPresent, BootInv, [NodeNext]_allVars
  PROVE  BootInv'
<1>r. Registered' = Registered /\ present' = present
  BY NodeTypesStep DEF Registered
<1>n. next \in Int /\ \A d \in Registered : d \in Int
  BY NodeConstants DEF NodeTypes, Registered
<1> USE DEF BootInv, Registering
<1>1. CASE UNCHANGED allVars
  <2>1. UNCHANGED <<uid, next, main, reported, schedreg, entry>>
    BY <1>1 DEF allVars, nodeVars, vars
  <2> QED BY <2>1, <1>r
<1>2. CASE InitBeaconSender
  BY <1>2, <1>r DEF InitBeaconSender, vars
<1>3. CASE RegisterNext
  <2>1. /\ uid /\ UNCHANGED <<uid, reported>> /\ next' = next + 1 /\ next \in Registered
        /\ main = "idle" /\ main' = "append" /\ entry' = next
    BY <1>3 DEF RegisterNext, Booting, RegisterBegin
  <2>2. \A d \in Registered : d < next' => d \in reported \/ d = next
    BY <2>1, <1>n
  <2>3. uid'
    BY <2>1
  <2> QED BY <2>1, <2>2, <2>3, <1>r, Zenon
<1>4. CASE SkipAbsent
  <2>1. /\ uid /\ UNCHANGED <<uid, reported, main, entry>> /\ next' = next + 1
        /\ next \notin Registered
    BY <1>4 DEF SkipAbsent, Booting, vars
  <2> QED BY <2>1, <1>r, <1>n
<1>5. CASE Schedules
  <2>1. /\ UNCHANGED <<uid, reported, next, entry>>
        /\ main \in {"append", "resched"} /\ main' \in {"resched", "cb"}
    BY <1>5 DEF Schedules, RegisterAppend, RegisterResched, nodeVars
  <2> QED BY <2>1, <1>r
<1>6. CASE FirstReport
  <2>1. /\ UNCHANGED <<uid, next>> /\ reported' = reported \cup {entry} /\ main = "cb"
        /\ entry \in Registered
    BY <1>6 DEF FirstReport, RegisterReturns, OnlyPresent
  <2> QED BY <2>1, <1>r
<1>7. CASE Dispatches
  BY <1>7, <1>r DEF Dispatches, Receive, ThreadResched, mainVars, nodeVars
<1>8. ASSUME NEW e \in Entries, Reports(e) PROVE BootInv'
  <2>1. /\ thread = "cb" /\ e = schedreg[Index(msg) + 1]
        /\ UNCHANGED <<schedreg, main, entry, next, uid>> /\ reported' = reported \cup {e}
    BY <1>8 DEF Reports, CallbackReturns, mainVars
  <2>2. Index(msg) + 1 \in 1 .. Len(schedreg) /\ DOMAIN schedreg = 1 .. Len(schedreg)
    BY <2>1, LenProperties DEF OnlyPresent, TypeOK
  <2>3. e \in Registered
    BY <2>1, <2>2 DEF OnlyPresent, Range
  <2>4. schedreg # <<>>
    BY <2>2
  <2> QED BY <2>1, <2>3, <2>4, <1>r
<1>9. ASSUME NEW e \in Entries, TimerStep(e) PROVE BootInv'
  BY <1>9, <1>r DEF TimerStep, TimerFires, mainVars, nodeVars
<1> QED BY <1>1, <1>2, <1>3, <1>4, <1>5, <1>6, <1>7, <1>8, <1>9
        DEF NodeNext, MainStep, SchedThreadStep

\* The invariant of the node.
LEMMA NodeInvariant == NodeSpec => []NodeInv
<1>1. NodeInit => NodeInv
  <2> SUFFICES ASSUME NodeInit PROVE NodeInv
    OBVIOUS
  <2>1. TypeOK /\ ListInv /\ TokenInv
    BY TypeInit, ListInit, TokenInit DEF NodeInit
  <2>2. NodeTypes
    <3>1. present \subseteq 1 .. NumOf /\ uid \in BOOLEAN
      BY Zenon DEF NodeInit
    <3>2. next \in 0 .. NumOf + 1
      BY NodeConstants DEF NodeInit
    <3> QED BY <3>1, <3>2 DEF NodeTypes
  <2>3. Range(schedreg) = {} /\ schedreg = <<>> /\ main = "idle" /\ thread = "blocked"
    BY EmptySeq DEF NodeInit, Init, Range
  <2>4. OnlyPresent
    BY <2>3 DEF NodeInit, OnlyPresent, Registering
  <2>5. BootInv
    <3>1. \A d \in Registered : ~(d < next)
      BY NodeConstants DEF NodeInit, Registered
    <3> QED BY <2>3, <3>1 DEF NodeInit, BootInv
  <2> QED BY <2>1, <2>2, <2>4, <2>5 DEF NodeInv
<1>2. NodeInv /\ [NodeNext]_allVars => NodeInv'
  <2> SUFFICES ASSUME NodeInv, [NodeNext]_allVars PROVE NodeInv'
    OBVIOUS
  <2>1. [StaticNext]_vars /\ [Next]_vars
    BY NodeStepIsStatic DEF NodeInv, Next
  <2>2. TypeOK' /\ ListInv' /\ TokenInv'
    BY <2>1, TypeStep, ListStep, TokenStep DEF NodeInv
  <2> QED BY <2>2, NodeTypesStep, OnlyPresentStep, BootStep DEF NodeInv
<1> QED BY <1>1, <1>2, PTL DEF NodeSpec

\* The node's variables keep their types; only entries that are there report.
THEOREM NodeTypeCorrect == NodeSpec => []NodeTypeOK
<1>1. NodeInv => NodeTypeOK
  BY DEF NodeInv, NodeTypes, BootInv, NodeTypeOK
<1> QED BY <1>1, NodeInvariant, PTL

\* When the shell runs, the reset has been announced and the beacon and every
\* sensor that is there have reported, whatever the timers and the thread did.
THEOREM BootHasReported == NodeSpec => []BootReports
<1>1. NodeInv => BootReports
  <2> SUFFICES ASSUME NodeInv PROVE BootReports
    OBVIOUS
  <2>1. reported # {} => uid
    BY DEF NodeInv, BootInv, NodeTypes
  <2>2. ASSUME ShellRuns PROVE reported = Registered
    <3>1. \A d \in Registered : d < next
      BY <2>2, NodeConstants DEF NodeInv, NodeTypes, ShellRuns, Registered
    <3>2. main = "idle"
      BY <2>2 DEF ShellRuns
    <3> QED BY <3>1, <3>2 DEF NodeInv, BootInv, Registering
  <2> QED BY <2>1, <2>2 DEF BootReports
<1> QED BY <1>1, NodeInvariant, PTL

-----------------------------------------------------------------------------
\* A queue of this length has room for the beacon and every sensor.
NodeFits == MaxSensors \in Nat /\ MaxSensors + 1 <= QueueSize

\* The queue takes the message of every timer.
LEMMA NodeHasRoom ==
  ASSUME NodeFits, NodeInv, NEW e \in armed
  PROVE  ~ QueueFull
<1>1. IsFiniteSet(present) /\ Cardinality(present) \in Nat
  <2>1. IsFiniteSet(1 .. NumOf)
    BY NodeConstants, FS_Interval
  <2> QED BY <2>1, FS_Subset, FS_CardinalityType DEF NodeInv, NodeTypes
<1>2. 0 \notin present
  BY NodeConstants DEF NodeInv, NodeTypes
<1>3. Registered = present \cup {0}
  BY DEF Registered
<1>4. IsFiniteSet(Registered) /\ Cardinality(Registered) = Cardinality(present) + 1
  BY <1>1, <1>2, <1>3, FS_AddElement
<1>5. Cardinality(Registered) <= QueueSize
  BY <1>1, <1>4, SizesAreNat DEF NodeFits, NodeInv, OnlyPresent
<1>6. armed \cup Due \subseteq Registered
  <2>1. \A d \in Due : d \in Range(schedreg)
    BY PendingTyped, Routing DEF Due, TokenInv, NodeInv
  <2> QED BY <2>1 DEF NodeInv, TokenInv, OnlyPresent
<1>7. Len(queue) < QueueSize
  BY <1>4, <1>5, <1>6, RoomForTimer DEF NodeInv
<1> QED BY <1>7, SizesAreNat, LenProperties DEF QueueFull, TypeOK, NodeInv

\* No overflow, and where the tokens are, in every state of a node that fits.
NodeTokens == TokenSomewhere /\ DroppedIsSilent /\ NothingLost

\* Nothing is registered or lost at first.
LEMMA NodeTokensInit ==
  ASSUME NodeInit
  PROVE  NodeTokens
<1>1. Range(schedreg) = {} /\ lost = {} /\ main = "idle"
  BY EmptySeq DEF NodeInit, Init, Range
<1> QED BY <1>1 DEF NodeTokens, TokenSomewhere, DroppedIsSilent, NothingLost

\* A node that fits never loses a message.
LEMMA NodeTokensHold == ASSUME NodeFits PROVE NodeSpec => []NodeTokens
<1>1. NodeInit => NodeTokens
  BY NodeTokensInit
<1>2. NodeInv /\ NodeTokens /\ [NodeNext]_allVars => NodeTokens'
  <2> SUFFICES ASSUME NodeInv, NodeTokens, [NodeNext]_allVars PROVE NodeTokens'
    OBVIOUS
  <2>1. [StaticNext]_vars
    BY NodeStepIsStatic DEF NodeInv
  <2>2. TokenSomewhere' /\ DroppedIsSilent'
    BY <2>1, SomewhereStep DEF NodeInv, NodeTokens
  <2>3. lost' = lost
    BY <2>1, NodeFits, NodeHasRoom, NothingRefused
  <2> QED BY <2>2, <2>3 DEF NodeTokens, NothingLost
<1> QED BY <1>1, <1>2, NodeInvariant, PTL DEF NodeSpec

\* In a node whose queue has room for the beacon and its sensors, every entry
\* that has been registered stays scheduled.  A queue of four messages, the
\* default, thus serves three sensors; with four it need not.
THEOREM NodeStaysScheduled == ASSUME NodeFits PROVE NodeSpec => []RegisteredIsScheduled
<1>1. NodeTokens => RegisteredIsScheduled
  BY DEF NodeTokens, TokenSomewhere, NothingLost, RegisteredIsScheduled
<1> QED BY <1>1, NodeTokensHold, PTL

\* What has reported is in the list, and so is the entry main waits for.
ReportedAreListed ==
  /\ reported \subseteq Range(schedreg)
  /\ main = "cb" => entry \in Range(schedreg)

\* No step takes an entry out of the list, and none reports from outside it.
LEMMA ListedStep ==
  ASSUME NodeInv, ReportedAreListed, [NodeNext]_allVars
  PROVE  ReportedAreListed'
<1>l. DOMAIN schedreg = 1 .. Len(schedreg) /\ Len(schedreg) \in Nat
  BY LenProperties DEF NodeInv, TypeOK
<1> USE DEF ReportedAreListed
<1>1. CASE InitBeaconSender \/ SkipAbsent \/ UNCHANGED allVars
  BY <1>1 DEF InitBeaconSender, SkipAbsent, allVars, nodeVars, vars
<1>2. CASE RegisterNext
  BY <1>2 DEF RegisterNext, RegisterBegin
<1>3. CASE RegisterAppend /\ UNCHANGED nodeVars
  <2>1. /\ schedreg' = Append(schedreg, entry) /\ entry \in Entries
        /\ main' = "resched" /\ reported' = reported
    BY <1>3 DEF RegisterAppend, NodeInv, TypeOK, nodeVars
  <2>2. /\ DOMAIN schedreg' = 1 .. Len(schedreg) + 1
        /\ \A i \in 1 .. Len(schedreg) : schedreg'[i] = schedreg[i]
    BY <2>1, AppendProperties, LenProperties DEF NodeInv, TypeOK
  <2>3. Range(schedreg) \subseteq Range(schedreg')
    BY <2>2, <1>l DEF Range
  <2> QED BY <2>1, <2>3
<1>4. CASE RegisterResched /\ UNCHANGED nodeVars
  <2>1. /\ main = "resched" /\ UNCHANGED <<schedreg, entry, reported>>
        /\ Len(schedreg) = count + 1 /\ schedreg[count + 1] = entry
    BY <1>4 DEF RegisterResched, NodeInv, TokenInv, nodeVars
  <2>2. count + 1 \in DOMAIN schedreg
    BY <2>1, <1>l DEF NodeInv, TypeOK
  <2> QED BY <2>1, <2>2 DEF Range
<1>5. CASE FirstReport
  BY <1>5 DEF FirstReport, RegisterReturns
<1>6. CASE Dispatches
  BY <1>6 DEF Dispatches, Receive, ThreadResched, mainVars, nodeVars
<1>7. ASSUME NEW e \in Entries, Reports(e) PROVE ReportedAreListed'
  <2>1. /\ thread = "cb" /\ e = schedreg[Index(msg) + 1]
        /\ UNCHANGED <<schedreg, main, entry>> /\ reported' = reported \cup {e}
    BY <1>7 DEF Reports, CallbackReturns, mainVars
  <2>2. e \in Range(schedreg)
    BY <2>1, <1>l DEF NodeInv, OnlyPresent, Range
  <2> QED BY <2>1, <2>2
<1>8. ASSUME NEW e \in Entries, TimerStep(e) PROVE ReportedAreListed'
  BY <1>8 DEF TimerStep, TimerFires, mainVars, nodeVars
<1> QED BY <1>1, <1>2, <1>3, <1>4, <1>5, <1>6, <1>7, <1>8
        DEF NodeNext, MainStep, Schedules, SchedThreadStep

\* For every set of sensors that fits the queue: by the time the shell runs the
\* beacon and every sensor found at boot are scheduled, and they stay so for ever.
THEOREM NodeForgetsNobody == ASSUME NodeFits PROVE NodeSpec => []PresentAreScheduled
<1>1. NodeInit => ReportedAreListed
  BY DEF NodeInit, Init, ReportedAreListed
<1>2. NodeInv /\ ReportedAreListed /\ [NodeNext]_allVars => ReportedAreListed'
  BY ListedStep
<1>3. BootReports /\ ReportedAreListed /\ RegisteredIsScheduled => PresentAreScheduled
  BY DEF BootReports, ReportedAreListed, RegisteredIsScheduled, PresentAreScheduled, ShellRuns
<1> QED BY <1>1, <1>2, <1>3, NodeInvariant, BootHasReported, NodeStaysScheduled, PTL DEF NodeSpec

\* For every queue and every set of sensors, however many: overflows leave at least
\* as many of the node's entries reporting as the queue has slots.
THEOREM NodeLossIsBounded == NodeSpec => []LossIsBounded
<1> DEFINE I == TokenSomewhere /\ DroppedIsSilent /\ LossIsBounded
<1>1. NodeInit => I
  BY NodeTokensInit DEF NodeInit, Init, NodeTokens, LossIsBounded
<1>2. NodeInv /\ I /\ [NodeNext]_allVars => I'
  BY NodeStepIsStatic, SomewhereStep, LossStep DEF NodeInv
<1>3. I => LossIsBounded
  OBVIOUS
<1> HIDE DEF I
<1> QED BY <1>1, <1>2, <1>3, NodeInvariant, PTL DEF NodeSpec

\* The whole node, boot included, behaves as periodic tasks do: every sensor that is
\* there alternates between waiting for its period and being reported once for it.
THEOREM NodeImplementsTasks == ASSUME NodeFits PROVE NodeSpec => Abstract!SafetySpec
<1>1. NodeInit => Abstract!Init
  BY InitImplements DEF NodeInit
<1>2. NodeInv /\ [NodeNext]_allVars => [Abstract!Next]_TaskStatus
  BY NodeFits, NodeHasRoom, NodeStepIsStatic, StepImplements DEF NodeInv
<1> QED BY <1>1, <1>2, NodeInvariant, PTL DEF NodeSpec, Abstract!SafetySpec
=============================================================================
