------------------------------ MODULE SuitGui ------------------------------
(***************************************************************************)
(* apps/gui: the main thread keeps the size of the image being downloaded  *)
(* and how much of it is written, from the update worker's notifications,  *)
(* and an lvgl task draws the quotient as a progress bar every REFR_TIME.  *)
(* The two share image_progress without a lock: lvgl's thread is preempted *)
(* by main between its two reads.                                          *)
(***************************************************************************)
EXTENDS SuitListener

\* QueueSize (RiotMsg) is MAIN_QUEUE_SIZE.

VARIABLES image_size,          \* image_progress, the fields the main thread
          image_size_written,  \* writes and the lvgl task reads
          lvgl,                \* where the task is: "idle", or what it has read
          read,                \* the field it has read
          bar                  \* the last value given to lv_bar_set_value

progressVars == <<image_size, image_size_written>>
barVars == <<lvgl, read, bar>>
vars == <<progressVars, barVars, missedVars, threadVars, queue, workerVars>>

TypeOK ==
  /\ ListenerTypeOK
  /\ image_size \in {0} \cup Sizes
  /\ image_size_written \in 0 .. Largest
  /\ lvgl \in {"idle", "size", "written"}
  /\ read \in 0 .. Largest
  /\ bar \in 0 .. 100 * Largest
  /\ thread \in {"boot", "loop", "blocked", "got"}
  /\ msg \in IF thread = "got" THEN Notification ELSE {None}
  /\ queue \in Seq(Notification)

\* The division of suit_progress_bar.  The board's Cortex-M yields 0 for a
\* division by zero, which C leaves undefined.
Percent(written_, size_) == IF size_ = 0 THEN 0 ELSE (100 * written_) \div size_

\* main has created the bar: suit_update_create drew it once, at image_size 0.
Init ==
  /\ ListenerInit
  /\ image_size = 0 /\ image_size_written = 0
  /\ lvgl = "idle" /\ read = 0 /\ bar = Percent(0, 0)

-----------------------------------------------------------------------------
WorkerNotifies(type, value) ==
  Notify(type, value) /\ UNCHANGED <<progressVars, barVars>>

DeviceReboots ==
  /\ ListenerRestarts
  /\ image_size' = 0 /\ image_size_written' = 0
  /\ lvgl' = "idle" /\ read' = 0 /\ bar' = Percent(0, 0)

-----------------------------------------------------------------------------
(* The main thread.                                                        *)

\* suit_coap_run and the server are started before suitreg_register.
Register ==
  /\ thread = "boot" /\ thread' = "loop"
  /\ UNCHANGED <<progressVars, barVars, missedVars, msg, queue, workerVars>>

Receive == MsgReceive /\ UNCHANGED <<progressVars, barVars, missedVars, workerVars>>

\* Mutant: the size of the first image is kept.
HandlesDownloadStart_Once ==
  /\ thread = "got" /\ msg.type = "DOWNLOAD_START" /\ thread' = "loop" /\ msg' = None
  /\ image_size' = IF image_size = 0 THEN msg.value ELSE image_size
  /\ UNCHANGED <<image_size_written, barVars, missedVars, queue, workerVars>>

\* image_size_written still belongs to the image before.
HandlesDownloadStart ==
  /\ thread = "got" /\ msg.type = "DOWNLOAD_START" /\ thread' = "loop" /\ msg' = None
  /\ image_size' = msg.value
  /\ UNCHANGED <<image_size_written, barVars, missedVars, queue, workerVars>>

\* Mutant: progress is added up although a notification carries the total.
HandlesProgress_Adds ==
  /\ thread = "got" /\ msg.type = "DOWNLOAD_PROGRESS" /\ thread' = "loop" /\ msg' = None
  /\ image_size_written' = image_size_written + msg.value
  /\ UNCHANGED <<image_size, barVars, missedVars, queue, workerVars>>

HandlesProgress ==
  /\ thread = "got" /\ msg.type = "DOWNLOAD_PROGRESS" /\ thread' = "loop" /\ msg' = None
  /\ image_size_written' = msg.value
  /\ UNCHANGED <<image_size, barVars, missedVars, queue, workerVars>>

HandlesOther ==
  /\ thread = "got" /\ msg.type \notin {"DOWNLOAD_START", "DOWNLOAD_PROGRESS"}
  /\ thread' = "loop" /\ msg' = None
  /\ UNCHANGED <<progressVars, barVars, missedVars, queue, workerVars>>

MainStep ==
  \/ Register \/ Receive
  \/ HandlesDownloadStart \/ HandlesProgress \/ HandlesOther

-----------------------------------------------------------------------------
(* The lvgl task, suit_progress_bar.                                       *)

\* C does not order the two reads.
ReadsFirst ==
  /\ lvgl = "idle"
  /\ \/ lvgl' = "size" /\ read' = image_size
     \/ lvgl' = "written" /\ read' = image_size_written
  /\ UNCHANGED <<progressVars, bar, missedVars, threadVars, queue, workerVars>>

\* Mutant: the task only draws a bar that grows.
DrawsBar_Growing ==
  /\ lvgl \in {"size", "written"} /\ lvgl' = "idle"
  /\ LET drawn == IF lvgl = "size" THEN Percent(image_size_written, read)
                                   ELSE Percent(read, image_size)
     IN  bar' = IF drawn > bar THEN drawn ELSE bar
  /\ read' = 0
  /\ UNCHANGED <<progressVars, missedVars, threadVars, queue, workerVars>>

\* The other field is read, and the bar drawn.
DrawsBar ==
  /\ lvgl \in {"size", "written"} /\ lvgl' = "idle"
  /\ bar' = IF lvgl = "size" THEN Percent(image_size_written, read)
                             ELSE Percent(read, image_size)
  /\ read' = 0
  /\ UNCHANGED <<progressVars, missedVars, threadVars, queue, workerVars>>

LvglStep == ReadsFirst \/ DrawsBar

-----------------------------------------------------------------------------
Worker == \E type \in NotifyTypes, value \in Values : WorkerNotifies(type, value)

Next == Worker \/ DeviceReboots \/ MainStep \/ LvglStep

\* Main is scheduled when it is ready; the task repeats for ever
\* (lv_task_set_repeat_count -1) on a thread of its own.
Fairness == WF_vars(MainStep) /\ WF_vars(LvglStep)

Spec == Init /\ [][Next]_vars /\ Fairness

-----------------------------------------------------------------------------
(* Properties.                                                             *)

\* When main has caught up and was told of the download, the two fields belong
\* to the same image again, once something of it is written.
FieldsOfOneImage ==
  thread = "blocked" /\ phase = "DOWNLOAD_PROGRESS" /\ ~ missedStart /\ ~ refused =>
    image_size = size /\ image_size_written = written

\* A download the worker has announced ends with a full bar, whatever
\* mixture of two images was drawn before: unless the next update or the
\* reboot comes first.
BarFillsUp ==
  phase = "DIGEST_START" /\ ~ missedStart /\ ~ refused
    ~> bar = 100 \/ phase \in {"TRIGGER", "NONE"}
=============================================================================
