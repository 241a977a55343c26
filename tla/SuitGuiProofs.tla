---------------------------- MODULE SuitGuiProofs ----------------------------
(***************************************************************************)
(* Theorems about SuitGui for every queue length and every set of image    *)
(* sizes with a largest one: its types, that main's two fields end up with *)
(* the image that is being downloaded, and that the bar a caught up main   *)
(* lets the task draw of a finished download is full.                      *)
(***************************************************************************)
EXTENDS SuitGui, SuitListenerProofs

\* TypeOK, with what the messages carry.
GuiTypes ==
  /\ WorkerTypeOK /\ missedStart \in BOOLEAN /\ refused \in BOOLEAN
  /\ image_size \in {0} \cup Sizes /\ image_size_written \in 0 .. Largest
  /\ lvgl \in {"idle", "size", "written"} /\ read \in 0 .. Largest
  /\ bar \in 0 .. 100 * Largest
  /\ thread \in {"boot", "loop", "blocked", "got"}
  /\ Channel(Carried)

\* What image_size will be when main has caught up.
SizeArrives ==
  ~ missedStart =>
    /\ \A j : IsNewest(Pending, Starts, j) => Pending[j].value = size
    /\ HasNone(Pending, Starts) => image_size = size

\* The worker digests an image of which it has reported the last block.
WorkerOrder ==
  /\ Downloading \/ phase = "DIGEST_START" => size \in Sizes
  /\ phase = "DOWNLOAD_START" => written = 0
  /\ phase = "DIGEST_START" => written = size

\* What image_size_written will be; a download that was announced was announced to
\* a registered thread.
WrittenArrives ==
  /\ thread = "boot" /\ ~ missedStart => ~ Downloading
  /\ phase \in {"DOWNLOAD_PROGRESS", "DIGEST_START"} /\ ~ missedStart /\ ~ refused =>
       /\ \A j : IsNewest(Pending, Reports, j) => Pending[j].value = written
       /\ HasNone(Pending, Reports) => image_size_written = written

\* The invariant the theorems rest on.
GuiInv == GuiTypes /\ WorkerOrder /\ SizeArrives /\ WrittenArrives

-----------------------------------------------------------------------------
(* Lemmas.                                                                 *)

\* A quotient by a positive number is not larger than the dividend.
LEMMA PercentBound ==
  ASSUME NEW w \in 0 .. Largest, NEW s \in Nat
  PROVE  Percent(w, s) \in 0 .. 100 * Largest
<1>1. Largest \in Nat
  BY LargestSize
<1>2. CASE s = 0
  BY <1>1, <1>2 DEF Percent
<1>3. CASE s # 0
  <2> DEFINE a == 100 * w
             q == a \div s
  <2>1. a \in Nat /\ a <= 100 * Largest /\ s \in Nat /\ s >= 1
    BY <1>1, <1>3
  <2> HIDE DEF a
  <2>2. q \in Int /\ s * q <= a /\ a < s * (q + 1)
    BY <2>1, SMTT(30)
  <2> HIDE DEF q
  <2>3. q >= 0
    <3>1. CASE q <= -1
      <4>1. s * (q + 1) <= 0
        BY <2>1, <2>2, <3>1, SMTT(30)
      <4> QED BY <2>1, <2>2, <4>1
    <3> QED BY <2>2, <3>1
  <2>4. q <= a
    <3>1. q <= s * q
      BY <2>1, <2>2, <2>3, SMTT(30)
    <3> QED BY <2>1, <2>2, <3>1
  <2>5. Percent(w, s) = q
    BY <1>3 DEF Percent, q, a
  <2> QED BY <1>1, <2>1, <2>2, <2>3, <2>4, <2>5
<1> QED BY <1>2, <1>3

\* The whole of an image is 100 per cent of it.
LEMMA WholeIsFull ==
  ASSUME NEW s \in Nat, s > 0
  PROVE  Percent(s, s) = 100
<1> DEFINE a == 100 * s
           q == a \div s
<1>1. a \in Nat
  OBVIOUS
<1>2. q \in Int /\ s * q <= a /\ a < s * (q + 1)
  <2> HIDE DEF a
  <2> QED BY <1>1, SMTT(30)
<1> HIDE DEF q
<1>3. q <= 100
  <2>1. CASE q >= 101
    <3>1. s * q >= s * 101
      BY <1>2, <2>1, SMTT(30)
    <3> QED BY <1>2, <3>1
  <2> QED BY <1>2, <2>1
<1>4. q >= 100
  <2>1. CASE q + 1 <= 100
    <3>1. s * (q + 1) <= s * 100
      BY <1>2, <2>1, SMTT(30)
    <3> QED BY <1>2, <3>1
  <2> QED BY <1>2, <2>1
<1> QED BY <1>2, <1>3, <1>4 DEF Percent, q

\* The typed messages are notifications.
LEMMA TypesAreTypeOK == GuiTypes => TypeOK
<1> SUFFICES ASSUME GuiTypes PROVE TypeOK
  OBVIOUS
<1>1. Carried \subseteq Notification
  BY DEF Carried
<1>2. queue \in Seq(Notification) /\ msg \in IF thread = "got" THEN Notification ELSE {None}
  BY <1>1 DEF GuiTypes, Channel
<1> QED BY <1>2 DEF GuiTypes, TypeOK, ListenerTypeOK, Channel

\* Before the boot.
LEMMA GuiInit == Init => GuiInv
<1> SUFFICES ASSUME Init PROVE GuiInv
  OBVIOUS
<1> USE DEF Init, ListenerInit, WorkerInit
<1>1. Largest \in Nat
  BY LargestSize
<1>2. Channel(Carried) /\ Pending = <<>>
  <2>1. Channel(Carried)
    BY ListenerConstants, EmptySeq DEF Channel
  <2> QED BY <2>1, NothingPending
<1>3. bar \in 0 .. 100 * Largest
  BY <1>1, PercentBound
<1>4. GuiTypes
  <2>1. WorkerTypeOK
    BY DEF WorkerTypeOK
  <2>2. 0 \in 0 .. Largest
    BY <1>1
  <2> QED BY <1>2, <1>3, <2>1, <2>2, Zenon DEF GuiTypes
<1>5. \A j, T : ~ IsNewest(Pending, T, j)
  BY <1>2 DEF IsNewest
<1> QED BY <1>4, <1>5 DEF GuiInv, WorkerOrder, SizeArrives, WrittenArrives, Downloading

\* The worker's notifications.
LEMMA GuiNotified ==
  ASSUME GuiInv, NEW type \in NotifyTypes, NEW value \in Values, WorkerNotifies(type, value)
  PROVE  GuiInv'
<1> DEFINE m == [type |-> type, value |-> value]
<1>1. /\ Channel(Carried)' /\ WorkerTypeOK'
      /\ \/ Missed /\ Pending' = Pending
         \/ ~ Missed /\ Pending' = Append(Pending, m)
      /\ thread' = "boot" <=> thread = "boot"
  <2>1. Channel(Carried) /\ WorkerTypeOK /\ Notify(type, value)
    BY DEF GuiInv, GuiTypes, WorkerNotifies
  <2> QED BY <2>1, PendingNotify
<1>2. /\ WorkerSends(type, value) /\ phase' = type
      /\ missedStart' = (missedStart \/ (type = "DOWNLOAD_START" /\ Missed))
      /\ refused' = (refused \/ (thread # "boot" /\ QueueFull))
      /\ UNCHANGED <<progressVars, barVars>>
  BY DEF WorkerNotifies, Notify, WorkerSends
<1>3. m \in Carried /\ Pending \in Seq(Carried) /\ m.type = type /\ m.value = value
  <2>1. m \in Carried
    BY <1>2, WorkerTypes DEF GuiInv, GuiTypes
  <2>2. Pending \in Seq(Carried)
    BY PendingTyped DEF GuiInv, GuiTypes
  <2> QED BY <2>1, <2>2
<1> HIDE DEF m
<1>n. \A T :
        /\ \A j : IsNewest(Append(Pending, m), T, j) =>
             IF m.type \in T THEN Append(Pending, m)[j] = m
             ELSE IsNewest(Pending, T, j) /\ Append(Pending, m)[j] = Pending[j]
        /\ HasNone(Append(Pending, m), T) => HasNone(Pending, T) /\ m.type \notin T
  BY <1>3, NewestAppended, Zenon
<1>4. GuiTypes'
  <2>1. thread' \in {"boot", "loop", "blocked", "got"}
    BY DEF WorkerNotifies, Notify, Deliver, threadVars, GuiInv, GuiTypes
  <2> QED BY <1>1, <1>2, <2>1 DEF GuiInv, GuiTypes, progressVars, barVars
<1>5. /\ type = "DOWNLOAD_START" => size' = value
      /\ type # "DOWNLOAD_START" => size' = size
      /\ type = "DOWNLOAD_PROGRESS" => Downloading /\ written' = value
      /\ type = "DIGEST_START" => Downloading /\ written' = written /\ written = size
  BY <1>2 DEF WorkerSends, ErrorTypes
<1>o. WorkerOrder'
  <2>1. CASE type = "DOWNLOAD_START"
    <3>1. size' \in Sizes /\ written' = 0
      BY <1>2, <2>1 DEF WorkerSends, ErrorTypes
    <3> QED BY <1>2, <2>1, <3>1 DEF WorkerOrder
  <2>2. CASE type # "DOWNLOAD_START"
    BY <1>2, <1>5, <2>2 DEF GuiInv, WorkerOrder, Downloading
  <2> QED BY <2>1, <2>2
<1>6. SizeArrives'
  <2> SUFFICES ASSUME ~ missedStart'
               PROVE  /\ \A j : IsNewest(Pending', Starts, j) => Pending'[j].value = size'
                      /\ HasNone(Pending', Starts) => image_size' = size'
    BY DEF SizeArrives
  <2>1. ~ missedStart /\ (type = "DOWNLOAD_START" => ~ Missed) /\ image_size' = image_size
    BY <1>2 DEF progressVars
  <2>2. /\ \A j : IsNewest(Pending, Starts, j) => Pending[j].value = size
        /\ HasNone(Pending, Starts) => image_size = size
    BY <2>1 DEF GuiInv, SizeArrives
  <2>3. CASE Pending' = Pending /\ type # "DOWNLOAD_START"
    BY <1>5, <2>1, <2>2, <2>3
  <2>4. CASE Pending' = Append(Pending, m)
    <3>1. /\ \A j : IsNewest(Pending', Starts, j) =>
                IF m.type \in Starts THEN Pending'[j] = m
                ELSE IsNewest(Pending, Starts, j) /\ Pending'[j] = Pending[j]
          /\ HasNone(Pending', Starts) => HasNone(Pending, Starts) /\ m.type \notin Starts
      BY <1>n, <2>4, Zenon
    <3> QED BY <1>3, <1>5, <2>1, <2>2, <3>1 DEF Starts
  <2> QED BY <1>1, <2>1, <2>3, <2>4
<1>7. WrittenArrives'
  <2>1. thread' = "boot" /\ ~ missedStart' => ~ Downloading'
    BY <1>1, <1>2, <1>5 DEF GuiInv, WrittenArrives, Downloading, Missed
  <2>2. ASSUME type \in {"DOWNLOAD_PROGRESS", "DIGEST_START"}, ~ missedStart', ~ refused'
        PROVE  /\ \A j : IsNewest(Pending', Reports, j) => Pending'[j].value = written'
               /\ HasNone(Pending', Reports) => image_size_written' = written'
    <3>1. thread # "boot"
      BY <1>2, <1>5, <2>2 DEF GuiInv, WrittenArrives
    <3>2. ~ Missed
      BY <1>2, <2>2, <3>1 DEF Missed
    <3>3. /\ \A j : IsNewest(Pending', Reports, j) =>
                IF m.type \in Reports THEN Pending'[j] = m
                ELSE IsNewest(Pending, Reports, j) /\ Pending'[j] = Pending[j]
          /\ HasNone(Pending', Reports) => HasNone(Pending, Reports) /\ m.type \notin Reports
      BY <1>1, <1>n, <3>2, Zenon
    <3>4. CASE type = "DOWNLOAD_PROGRESS"
      BY <1>3, <1>5, <3>3, <3>4 DEF Reports
    <3>5. CASE type = "DIGEST_START"
      <4>1. phase = "DOWNLOAD_PROGRESS" /\ ~ missedStart /\ ~ refused
        BY <1>2, <1>5, <2>2, <3>5, ListenerConstants DEF GuiInv, WorkerOrder, Downloading
      <4>2. /\ \A j : IsNewest(Pending, Reports, j) => Pending[j].value = written
            /\ HasNone(Pending, Reports) => image_size_written = written
        BY <4>1 DEF GuiInv, WrittenArrives
      <4>3. m.type \notin Reports /\ written' = written /\ image_size_written' = image_size_written
        BY <1>2, <1>3, <1>5, <3>5 DEF Reports, progressVars
      <4> QED BY <3>3, <4>2, <4>3
    <3> QED BY <2>2, <3>4, <3>5
  <2> QED BY <1>2, <2>1, <2>2 DEF WrittenArrives
<1> QED BY <1>4, <1>o, <1>6, <1>7 DEF GuiInv

\* Main acts on a message.
LEMMA GuiHandled ==
  ASSUME GuiInv, HandlesDownloadStart \/ HandlesProgress \/ HandlesOther
  PROVE  GuiInv'
<1>1. /\ thread = "got" /\ thread' = "loop" /\ msg' = None
      /\ UNCHANGED <<barVars, missedVars, queue, workerVars>>
  BY DEF HandlesDownloadStart, HandlesProgress, HandlesOther
<1>2. Channel(Carried)
  BY DEF GuiInv, GuiTypes
<1>3. /\ Channel(Carried)' /\ Pending # <<>> /\ Pending[1] = msg /\ Pending' = Tail(Pending)
  BY <1>1, <1>2, PendingHandled
<1>4. Pending \in Seq(Carried) /\ msg \in Carried
  BY <1>1, <1>2, PendingTyped DEF Channel
<1>5. /\ msg.type = "DOWNLOAD_START" => image_size' = msg.value
      /\ msg.type # "DOWNLOAD_START" => image_size' = image_size
      /\ msg.type = "DOWNLOAD_PROGRESS" => image_size_written' = msg.value
      /\ msg.type # "DOWNLOAD_PROGRESS" => image_size_written' = image_size_written
  BY DEF HandlesDownloadStart, HandlesProgress, HandlesOther, progressVars
<1>6. GuiTypes'
  <2>1. /\ msg.type = "DOWNLOAD_START" => msg.value \in Sizes
        /\ msg.type = "DOWNLOAD_PROGRESS" => msg.value \in 0 .. Largest
    BY <1>4, LargestSize DEF Carried
  <2> QED BY <1>1, <1>3, <1>5, <2>1
          DEF GuiInv, GuiTypes, WorkerTypeOK, barVars, missedVars, workerVars
<1>7. \A T : /\ \A j : IsNewest(Pending', T, j) =>
                   IsNewest(Pending, T, j + 1) /\ Pending'[j] = Pending[j + 1]
             /\ HasNone(Pending', T) => HasNone(Pending, T) \/ IsNewest(Pending, T, 1)
  BY <1>3, <1>4, NewestOfTail
<1>8. \A T : HasNone(Pending, T) => msg.type \notin T
  BY <1>2, <1>3, PendingTyped, EmptySeq DEF HasNone
<1>9. \A T : IsNewest(Pending, T, 1) => msg.type \in T
  BY <1>3 DEF IsNewest
<1>10. SizeArrives'
  <2>1. UNCHANGED <<missedStart, size>>
    BY <1>1 DEF missedVars, workerVars
  <2>2. SUFFICES ASSUME ~ missedStart
                 PROVE  /\ \A j : IsNewest(Pending', Starts, j) => Pending'[j].value = size
                        /\ HasNone(Pending', Starts) => image_size' = size
    BY <2>1 DEF SizeArrives
  <2>3. /\ \A j : IsNewest(Pending, Starts, j) => Pending[j].value = size
        /\ HasNone(Pending, Starts) => image_size = size
    BY <2>2 DEF GuiInv, SizeArrives
  <2>4. ASSUME NEW j, IsNewest(Pending', Starts, j) PROVE Pending'[j].value = size
    <3>1. IsNewest(Pending, Starts, j + 1) /\ Pending'[j] = Pending[j + 1]
      BY <1>7, <2>4, Zenon
    <3>2. Pending[j + 1].value = size
      BY <2>3, <3>1, Zenon
    <3> QED BY <3>1, <3>2
  <2>5. ASSUME HasNone(Pending', Starts) PROVE image_size' = size
    <3>1. CASE HasNone(Pending, Starts)
      BY <1>5, <1>8, <2>3, <3>1 DEF Starts
    <3>2. CASE IsNewest(Pending, Starts, 1)
      <4>1. msg.type \in Starts /\ Pending[1].value = size
        BY <1>9, <2>3, <3>2, Zenon
      <4> QED BY <1>3, <1>5, <4>1 DEF Starts
    <3> QED BY <1>7, <2>5, <3>1, <3>2, Zenon
  <2> QED BY <2>4, <2>5
<1>11. WrittenArrives'
  <2>1. UNCHANGED <<missedStart, refused, phase, written>> /\ thread' # "boot"
    BY <1>1 DEF missedVars, workerVars
  <2>2. SUFFICES ASSUME phase \in {"DOWNLOAD_PROGRESS", "DIGEST_START"}, ~ missedStart, ~ refused
                 PROVE  /\ \A j : IsNewest(Pending', Reports, j) => Pending'[j].value = written
                        /\ HasNone(Pending', Reports) => image_size_written' = written
    BY <2>1 DEF WrittenArrives
  <2>3. /\ \A j : IsNewest(Pending, Reports, j) => Pending[j].value = written
        /\ HasNone(Pending, Reports) => image_size_written = written
    BY <2>2 DEF GuiInv, WrittenArrives
  <2>4. ASSUME NEW j, IsNewest(Pending', Reports, j) PROVE Pending'[j].value = written
    <3>1. IsNewest(Pending, Reports, j + 1) /\ Pending'[j] = Pending[j + 1]
      BY <1>7, <2>4, Zenon
    <3>2. Pending[j + 1].value = written
      BY <2>3, <3>1, Zenon
    <3> QED BY <3>1, <3>2
  <2>5. ASSUME HasNone(Pending', Reports) PROVE image_size_written' = written
    <3>1. CASE HasNone(Pending, Reports)
      BY <1>5, <1>8, <2>3, <3>1 DEF Reports
    <3>2. CASE IsNewest(Pending, Reports, 1)
      <4>1. msg.type \in Reports /\ Pending[1].value = written
        BY <1>9, <2>3, <3>2, Zenon
      <4> QED BY <1>3, <1>5, <4>1 DEF Reports
    <3> QED BY <1>7, <2>5, <3>1, <3>2, Zenon
  <2> QED BY <2>4, <2>5
<1>12. WorkerOrder'
  BY <1>1 DEF GuiInv, WorkerOrder, Downloading, workerVars
<1> QED BY <1>6, <1>10, <1>11, <1>12 DEF GuiInv

\* Every step keeps the invariant.
LEMMA GuiStep ==
  ASSUME GuiInv, [Next]_vars
  PROVE  GuiInv'
<1>1. Channel(Carried)
  BY DEF GuiInv, GuiTypes
<1>2. ASSUME NEW type \in NotifyTypes, NEW value \in Values, WorkerNotifies(type, value)
      PROVE  GuiInv'
  BY <1>2, GuiNotified
<1>3. CASE DeviceReboots
  <2>1. Init'
    BY <1>3 DEF DeviceReboots, ListenerRestarts, WorkerRestarts, Init, ListenerInit, WorkerInit
  <2>2. Init' => GuiInv'
    BY GuiInit, PTL
  <2> QED BY <2>1, <2>2
<1>4. CASE HandlesDownloadStart \/ HandlesProgress \/ HandlesOther
  BY <1>4, GuiHandled
<1>5. CASE Register \/ Receive \/ LvglStep \/ UNCHANGED vars
  <2>1. Channel(Carried)' /\ Pending' = Pending
    <3>1. CASE Register
      BY <1>1, <3>1, PendingKept DEF Register
    <3>2. CASE Receive
      BY <1>1, <3>2, PendingReceive DEF Receive
    <3>3. CASE LvglStep \/ UNCHANGED vars
      BY <1>1, <3>3 DEF LvglStep, ReadsFirst, DrawsBar, vars, threadVars, Channel, Pending, InHand
    <3> QED BY <1>5, <3>1, <3>2, <3>3
  <2>2. /\ UNCHANGED <<progressVars, missedVars, workerVars>>
        /\ thread' = "boot" => thread = "boot"
        /\ thread' \in {"boot", "loop", "blocked", "got"}
    BY <1>5 DEF Register, Receive, MsgReceive, LvglStep, ReadsFirst, DrawsBar, vars, threadVars,
                GuiInv, GuiTypes
  <2>3. /\ lvgl' \in {"idle", "size", "written"} /\ read' \in 0 .. Largest
        /\ bar' \in 0 .. 100 * Largest
    <3>1. CASE ReadsFirst
      <4>1. image_size \in 0 .. Largest
        BY LargestSize, ListenerConstants DEF GuiInv, GuiTypes
      <4> QED BY <3>1, <4>1 DEF ReadsFirst, GuiInv, GuiTypes
    <3>2. CASE DrawsBar
      <4>1. /\ image_size \in Nat /\ read \in 0 .. Largest /\ read \in Nat
            /\ image_size_written \in 0 .. Largest
        BY LargestSize, ListenerConstants DEF GuiInv, GuiTypes
      <4>2. /\ Percent(image_size_written, read) \in 0 .. 100 * Largest
            /\ Percent(read, image_size) \in 0 .. 100 * Largest
        BY <4>1, PercentBound
      <4> QED BY <3>2, <4>2, LargestSize DEF DrawsBar
    <3>3. CASE Register \/ Receive \/ UNCHANGED vars
      BY <3>3 DEF Register, Receive, vars, barVars, GuiInv, GuiTypes
    <3> QED BY <1>5, <3>1, <3>2, <3>3 DEF LvglStep
  <2>4. GuiTypes'
    BY <2>1, <2>2, <2>3 DEF GuiInv, GuiTypes, WorkerTypeOK, progressVars, missedVars, workerVars
  <2> QED BY <2>1, <2>2, <2>4
          DEF GuiInv, WorkerOrder, SizeArrives, WrittenArrives, Downloading,
              progressVars, missedVars, workerVars
<1> QED BY <1>2, <1>3, <1>4, <1>5 DEF Next, Worker, MainStep

\* The invariant holds in every state.
LEMMA GuiInvHolds == Spec => []GuiInv
BY GuiInit, GuiStep, PTL DEF Spec

-----------------------------------------------------------------------------
(* Theorems.                                                               *)

\* apps/gui/main.c: for every queue length and every set of sizes, the fields, the
\* bar and the messages are well-typed.
THEOREM TypeCorrect == Spec => []TypeOK
<1>1. GuiInv => TypeOK
  BY TypesAreTypeOK DEF GuiInv
<1> QED BY <1>1, GuiInvHolds, PTL

\* apps/gui/main.c:128, :131: for every queue length and every set of sizes, when
\* main has caught up with a download it was told of, with no notification
\* refused, both fields are those of the image that is being downloaded.
THEOREM FieldsAgree == Spec => []FieldsOfOneImage
<1>1. GuiInv => FieldsOfOneImage
  <2> SUFFICES ASSUME GuiInv, thread = "blocked", phase = "DOWNLOAD_PROGRESS",
                      ~ missedStart, ~ refused
               PROVE  image_size = size /\ image_size_written = written
    BY DEF FieldsOfOneImage
  <2>1. Pending = <<>>
    BY NothingPending DEF GuiInv, GuiTypes
  <2>2. HasNone(Pending, Starts) /\ HasNone(Pending, Reports)
    BY <2>1 DEF HasNone
  <2> QED BY <2>2 DEF GuiInv, SizeArrives, WrittenArrives
<1> QED BY <1>1, GuiInvHolds, PTL

\* The download is finished, and main has acted on all it was told of it.
CaughtUp == thread = "blocked" /\ phase = "DIGEST_START" /\ ~ missedStart /\ ~ refused

\* The field the task has read is still what main holds.
ReadIsFresh ==
  \/ lvgl = "size" /\ read = image_size
  \/ lvgl = "written" /\ read = image_size_written

\* apps/gui/main.c:75-82, :128, :131: what BarFillsUp needs of the states: for every
\* queue length and every set of sizes, once main has caught up with a finished
\* download its two fields are the whole of that image, none of it zero, and the
\* bar drawn from a field it still holds is full.
THEOREM FinishedBarIsFull ==
  Spec => /\ [](CaughtUp => image_size = size /\ image_size_written = size /\ size > 0)
          /\ [][CaughtUp /\ ReadIsFresh /\ DrawsBar => bar' = 100]_vars
<1>1. ASSUME GuiInv, CaughtUp
      PROVE  image_size = size /\ image_size_written = size /\ size > 0
  <2>1. Pending = <<>>
    BY <1>1, NothingPending DEF GuiInv, GuiTypes, CaughtUp
  <2>2. HasNone(Pending, Starts) /\ HasNone(Pending, Reports)
    BY <2>1 DEF HasNone
  <2>3. image_size = size /\ image_size_written = written
    BY <1>1, <2>2 DEF GuiInv, SizeArrives, WrittenArrives, CaughtUp
  <2>4. size \in Sizes /\ written = size
    BY <1>1 DEF GuiInv, WorkerOrder, CaughtUp
  <2> QED BY <2>3, <2>4, ListenerConstants
<1>2. ASSUME GuiInv, CaughtUp, ReadIsFresh, DrawsBar
      PROVE  bar' = 100
  <2>1. image_size = size /\ image_size_written = size /\ size > 0 /\ size \in Nat
    BY <1>1, <1>2, ListenerConstants DEF GuiInv, WorkerOrder, CaughtUp
  <2>2. Percent(size, size) = 100
    BY <2>1, WholeIsFull
  <2> QED BY <1>2, <2>1, <2>2 DEF ReadIsFresh, DrawsBar
<1>3. GuiInv /\ [Next]_vars => [CaughtUp /\ ReadIsFresh /\ DrawsBar => bar' = 100]_vars
  BY <1>2
<1>4. GuiInv => (CaughtUp => image_size = size /\ image_size_written = size /\ size > 0)
  BY <1>1
<1> QED BY <1>3, <1>4, GuiInvHolds, PTL DEF Spec
=============================================================================
