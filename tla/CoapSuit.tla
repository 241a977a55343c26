------------------------------ MODULE CoapSuit ------------------------------
(***************************************************************************)
(* modules/coap_suit: the thread that reports the progress of a firmware   *)
(* update.  It receives the update worker's notifications, keeps the       *)
(* status that GET /suit_state returns, posts every change of it and one   *)
(* in Cycle download reports to the server, and clears an error after a    *)
(* delay, with a message it sends itself by a timer.                       *)
(*                                                                         *)
(* The timer interrupt and the worker may run between any two steps of the *)
(* thread, and long while it is blocked in send_coap_post.                 *)
(***************************************************************************)
EXTENDS SuitListener

\* QueueSize (RiotMsg) is CONFIG_SUIT_COAP_MSG_QUEUE_SIZE.
CONSTANT Cycle    \* CONFIG_SUIT_FW_PROGRESS_CYCLE

\* count is a uint8_t.
ASSUME CycleFits == Cycle \in 1 .. 256

VARIABLES suit_state,  \* the reported status
          fw_size,     \* size of the image being downloaded
          count,       \* download reports since the last posted one
          armed,       \* the timer of the pending SUIT_IDLE is set
          missedLast   \* history: the worker's last status was never delivered

suitVars == <<suit_state, fw_size, count, armed>>
histVars == <<missedLast, missedVars>>
vars == <<suitVars, histVars, threadVars, queue, workerVars>>

Message == Notification \cup [type : {"IDLE"}, value : {0}]

\* The status a message stands for; SUIT_REBOOT is reported as the end of the download.
StateOf(type) == IF type = "REBOOT" THEN "DOWNLOAD_END" ELSE type

States == {"IDLE"} \cup {StateOf(t) : t \in StatusTypes}

TypeOK ==
  /\ ListenerTypeOK
  /\ suit_state \in States
  /\ fw_size \in {0} \cup Sizes
  /\ count \in 0 .. Cycle - 1
  /\ armed \in BOOLEAN /\ missedLast \in BOOLEAN
  /\ thread \in {"boot", "loop", "blocked", "got", "post"}
  /\ msg \in IF thread = "got" THEN Message ELSE {None}
  /\ queue \in Seq(Message)

\* The thread has formatted its first post and is sending it.
Init ==
  /\ ListenerInit
  /\ suit_state = "IDLE" /\ fw_size = 0 /\ count = 0 /\ armed = FALSE
  /\ missedLast = FALSE

-----------------------------------------------------------------------------
(* The worker and the timer.                                               *)

WorkerNotifies(type, value) ==
  /\ Notify(type, value)
  /\ missedLast' = IF type \in StatusTypes THEN Missed ELSE missedLast
  /\ UNCHANGED suitVars

\* The interrupt sends SUIT_IDLE; a full queue refuses it.
TimerFires ==
  /\ armed /\ armed' = FALSE
  /\ Deliver([type |-> "IDLE", value |-> 0])
  /\ UNCHANGED <<suit_state, fw_size, count, histVars, workerVars>>

\* Nothing of the status is persisted.
DeviceReboots ==
  /\ ListenerRestarts
  /\ suit_state' = "IDLE" /\ fw_size' = 0 /\ count' = 0 /\ armed' = FALSE
  /\ missedLast' = FALSE

-----------------------------------------------------------------------------
(* The status thread.                                                      *)

\* The first post returns; suitreg_register, then the loop.
Register ==
  /\ thread = "boot" /\ thread' = "loop"
  /\ UNCHANGED <<suitVars, msg, queue, histVars, workerVars>>

Receive == MsgReceive /\ UNCHANGED <<suitVars, histVars, workerVars>>

\* The end of the switch: the new status is formatted and posted.
PostsState ==
  /\ thread = "got" /\ thread' = "post" /\ msg' = None
  /\ UNCHANGED <<queue, histVars, workerVars>>

\* Mutant: the case of SUIT_DIGEST_START is missing and the default does nothing.
HandlesStatus_NoDigest ==
  /\ PostsState
  /\ msg.type \in StatusTypes \ (ErrorTypes \cup {"DOWNLOAD_START"})
  /\ suit_state' = IF msg.type = "DIGEST_START" THEN suit_state ELSE StateOf(msg.type)
  /\ UNCHANGED <<fw_size, count, armed>>

HandlesStatus ==
  /\ PostsState
  /\ msg.type \in StatusTypes \ (ErrorTypes \cup {"DOWNLOAD_START"})
  /\ suit_state' = StateOf(msg.type)
  /\ UNCHANGED <<fw_size, count, armed>>

\* Mutant: the case of SUIT_DIGEST_ERROR does not set the timer.
HandlesError_NoTimer ==
  /\ PostsState
  /\ msg.type \in ErrorTypes
  /\ suit_state' = StateOf(msg.type)
  /\ armed' = (armed \/ msg.type # "DIGEST_ERROR")
  /\ UNCHANGED <<fw_size, count>>

\* Every error sets the one timer, again if it is set.
HandlesError ==
  /\ PostsState
  /\ msg.type \in ErrorTypes
  /\ suit_state' = StateOf(msg.type)
  /\ armed' = TRUE
  /\ UNCHANGED <<fw_size, count>>

\* Mutant: the size is taken from the first download only.
HandlesDownloadStart_Once ==
  /\ PostsState
  /\ msg.type = "DOWNLOAD_START"
  /\ suit_state' = StateOf(msg.type)
  /\ fw_size' = (IF fw_size = 0 THEN msg.value ELSE fw_size) /\ count' = 0
  /\ UNCHANGED armed

HandlesDownloadStart ==
  /\ PostsState
  /\ msg.type = "DOWNLOAD_START"
  /\ suit_state' = StateOf(msg.type)
  /\ fw_size' = msg.value /\ count' = 0
  /\ UNCHANGED armed

\* Mutant: the case of SUIT_IDLE is missing.
HandlesIdle_Default ==
  /\ PostsState
  /\ msg.type = "IDLE"
  /\ UNCHANGED <<suit_state, fw_size, count, armed>>

HandlesIdle ==
  /\ PostsState
  /\ msg.type = "IDLE"
  /\ suit_state' = "IDLE"
  /\ UNCHANGED <<fw_size, count, armed>>

\* Mutant: the counter is not reduced modulo Cycle.
HandlesProgress_NoWrap ==
  /\ thread = "got"
  /\ msg.type = "DOWNLOAD_PROGRESS"
  /\ thread' = (IF count = 0 THEN "post" ELSE "loop") /\ msg' = None
  /\ count' = count + 1
  /\ UNCHANGED <<suit_state, fw_size, armed, queue, histVars, workerVars>>

\* One report in Cycle is formatted, with a division by fw_size, and posted.
HandlesProgress ==
  /\ thread = "got"
  /\ msg.type = "DOWNLOAD_PROGRESS"
  /\ thread' = (IF count = 0 THEN "post" ELSE "loop") /\ msg' = None
  /\ count' = (count + 1) % Cycle
  /\ UNCHANGED <<suit_state, fw_size, armed, queue, histVars, workerVars>>

\* send_coap_post, which may block in the network stack, returns.
PostReturns ==
  /\ thread = "post" /\ thread' = "loop"
  /\ UNCHANGED <<suitVars, msg, queue, histVars, workerVars>>

Handles ==
  \/ HandlesStatus \/ HandlesError \/ HandlesDownloadStart
  \/ HandlesIdle \/ HandlesProgress

ThreadStep == Register \/ Receive \/ Handles \/ PostReturns

-----------------------------------------------------------------------------
Worker == \E type \in NotifyTypes, value \in Values : WorkerNotifies(type, value)

Next == Worker \/ TimerFires \/ DeviceReboots \/ ThreadStep

\* The timer expires, and the thread, of higher priority than main, is scheduled
\* whenever it is ready, its posts returning.  Nothing is assumed of updates.
Fairness == WF_vars(TimerFires) /\ WF_vars(ThreadStep)

Spec == Init /\ [][Next]_vars /\ Fairness

-----------------------------------------------------------------------------
(* Properties.                                                             *)

\* An error status is always on its way out: its timer is set, or the SUIT_IDLE
\* it sent or the SUIT_TRIGGER of a new update is waiting for the thread.  A
\* SUIT_IDLE that a full queue refuses does no harm then.
ErrorHasExit ==
  suit_state \in ErrorTypes /\ ~ refused =>
    armed \/ \E i \in DOMAIN Pending : Pending[i].type \in {"IDLE", "TRIGGER"}

\* No error status stays for ever.
ErrorIsLeft == suit_state \in ErrorTypes ~> suit_state \notin ErrorTypes \/ refused

\* The last notification of the worker that changes the status.
LastStatus == IF phase = "DOWNLOAD_PROGRESS" THEN "DOWNLOAD_START" ELSE phase

\* When the thread has caught up with the worker and did not miss that very
\* notification, the status is the one it stands for, or a timer has cleared it:
\* other lost messages do no lasting harm.
StatusFollowsUpdate ==
  thread = "blocked" /\ phase # "NONE" /\ ~ missedLast =>
    suit_state \in {StateOf(LastStatus), "IDLE"}

\* A download report is divided by the size of its own image, never by zero and
\* never above 100 per cent, whatever was lost but a SUIT_DOWNLOAD_START.
ProgressHasSize ==
  thread = "got" /\ msg.type = "DOWNLOAD_PROGRESS" /\ ~ missedStart =>
    msg.value \in 1 .. fw_size

\* "nothing to declare" (coap_suit.c:22): the status only returns to idle from
\* an error, never while an update is under way.
IdleOnlyFromError ==
  [][HandlesIdle => suit_state \in ErrorTypes \cup {"IDLE"}]_vars
=============================================================================
