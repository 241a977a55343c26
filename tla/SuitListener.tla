---------------------------- MODULE SuitListener ----------------------------
(***************************************************************************)
(* A thread registered with suitreg for SUITREG_TYPE_STATUS and            *)
(* SUITREG_TYPE_ERROR, as coap_suit's thread and the main thread of        *)
(* apps/gui are: how the update worker's notifications reach its queue.    *)
(* suitreg is a RIOT package; what it does about a full queue is not       *)
(* visible here: it may drop the notification, or the worker may wait for  *)
(* room, which is a worker that takes no step for a while.                 *)
(***************************************************************************)
EXTENDS RiotMsg, SuitUpdate

CONSTANT None    \* no message

\* msg_init_queue takes a power of two; the largest image fills a slot.
ASSUME ListenerConstants ==
  /\ QueueSize \in Nat \ {0}
  /\ Sizes \subseteq Nat \ {0} /\ \E s \in Sizes : \A t \in Sizes : t <= s

VARIABLES missedStart, \* history: some SUIT_DOWNLOAD_START was never delivered
          refused      \* history: a full queue has refused some notification

missedVars == <<missedStart, refused>>

Notification == [type : NotifyTypes, value : Nat]

ListenerTypeOK ==
  /\ WorkerTypeOK
  /\ missedStart \in BOOLEAN /\ refused \in BOOLEAN
  /\ Len(queue) <= QueueSize

\* The thread is started but not registered yet.
ListenerInit ==
  /\ WorkerInit
  /\ thread = "boot" /\ msg = None /\ queue = <<>>
  /\ missedStart = FALSE /\ refused = FALSE

\* A notification now is not delivered: suitreg notifies registered threads only.
Missed == thread = "boot" \/ QueueFull

Notify(type, value) ==
  /\ WorkerSends(type, value)
  /\ IF thread = "boot"
       THEN UNCHANGED <<threadVars, queue>>
       ELSE Deliver([type |-> type, value |-> value])
  /\ missedStart' = (missedStart \/ (type = "DOWNLOAD_START" /\ Missed))
  /\ refused' = (refused \/ (thread # "boot" /\ QueueFull))

\* After SUIT_REBOOT the worker restarts the device.
ListenerRestarts ==
  /\ phase = "REBOOT" /\ WorkerRestarts
  /\ thread' = "boot" /\ msg' = None /\ queue' = <<>>
  /\ missedStart' = FALSE /\ refused' = FALSE
=============================================================================
