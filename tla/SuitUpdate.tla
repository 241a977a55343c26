----------------------------- MODULE SuitUpdate -----------------------------
(***************************************************************************)
(* The update worker of RIOT's suit module, as far as the messages it      *)
(* sends through suitreg tell: the threads of this repository that         *)
(* register with suitreg_register get the messages they switch on in this  *)
(* order.  The worker is not part of the repository.                       *)
(***************************************************************************)
EXTENDS Integers

CONSTANT Sizes    \* the sizes an image may have, in blocks

VARIABLES phase,    \* how far the update has come: the type of its last message
          size,     \* the size of the image being downloaded
          written   \* how much of it is written

workerVars == <<phase, size, written>>

ErrorTypes == {"SIGNATURE_ERROR", "SEQ_NR_ERROR", "DOWNLOAD_ERROR", "DIGEST_ERROR"}

StatusTypes ==
  ErrorTypes \cup {"TRIGGER", "SIGNATURE_START", "DOWNLOAD_START", "DIGEST_START", "REBOOT"}

NotifyTypes == StatusTypes \cup {"DOWNLOAD_PROGRESS"}

WorkerTypeOK ==
  /\ phase \in {"NONE"} \cup NotifyTypes
  /\ size \in {0} \cup Sizes
  /\ written \in 0 .. size

\* The device has just booted: nothing of an update is persisted here.
WorkerInit == phase = "NONE" /\ size = 0 /\ written = 0

WorkerRestarts == phase' = "NONE" /\ size' = 0 /\ written' = 0

Downloading == phase \in {"DOWNLOAD_START", "DOWNLOAD_PROGRESS"}

\* An update may also end without a word (the manifest cannot be fetched or
\* parsed), so the next one may start from any phase but the reboot.
\* The next notification the worker has for its listeners, and what it carries.
WorkerSends(type, value) ==
  /\ phase' = type
  /\ \/ /\ type = "TRIGGER" /\ phase # "REBOOT"
        /\ value = 0 /\ UNCHANGED <<size, written>>
     \/ /\ type = "SIGNATURE_START" /\ phase = "TRIGGER"
        /\ value = 0 /\ UNCHANGED <<size, written>>
     \/ /\ type \in {"SIGNATURE_ERROR", "SEQ_NR_ERROR"} /\ phase = "SIGNATURE_START"
        /\ value = 0 /\ UNCHANGED <<size, written>>
     \/ /\ type = "DOWNLOAD_START" /\ phase = "SIGNATURE_START"
        /\ value \in Sizes
        /\ size' = value /\ written' = 0
     \/ /\ type = "DOWNLOAD_PROGRESS" /\ Downloading
        /\ value \in written + 1 .. size
        /\ written' = value /\ UNCHANGED size
     \/ /\ type = "DOWNLOAD_ERROR" /\ Downloading
        /\ value = 0 /\ UNCHANGED <<size, written>>
     \/ /\ type = "DIGEST_START" /\ Downloading /\ written = size
        /\ value = 0 /\ UNCHANGED <<size, written>>
     \/ /\ type \in {"DIGEST_ERROR", "REBOOT"} /\ phase = "DIGEST_START"
        /\ value = 0 /\ UNCHANGED <<size, written>>

\* What a notification may carry: an image size, a number of blocks, or nothing.
Largest == CHOOSE s \in Sizes : \A t \in Sizes : t <= s
Values == 0 .. Largest
=============================================================================
