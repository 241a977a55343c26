------------------------------ MODULE RiotMsg ------------------------------
(***************************************************************************)
(* The part of RIOT's core/msg that the threads of this repository use: a  *)
(* thread with a message queue of its own (msg_init_queue), which it reads *)
(* with msg_receive.  RIOT is not part of the repository; this is what the *)
(* code relies on.                                                         *)
(***************************************************************************)
EXTENDS Integers, Sequences

CONSTANT QueueSize    \* the length of the thread's queue

VARIABLES thread,   \* where the thread is: "blocked" in msg_receive, about to
                    \* call it ("loop"), just back from it ("got"), or elsewhere
          msg,      \* the thread's local copy of the message it received
          queue     \* the messages waiting for it, oldest first

threadVars == <<thread, msg>>

\* The queue cannot take a message for the busy thread.
QueueFull == thread # "blocked" /\ Len(queue) >= QueueSize

\* msg_send_int and msg_try_send: hand a copy of m to a thread blocked in
\* msg_receive, else queue it, else refuse it.
Deliver(m) ==
  \/ /\ thread = "blocked"
     /\ thread' = "got" /\ msg' = m
     /\ UNCHANGED queue
  \/ /\ thread # "blocked" /\ Len(queue) < QueueSize
     /\ queue' = Append(queue, m)
     /\ UNCHANGED threadVars
  \/ QueueFull /\ UNCHANGED <<threadVars, queue>>

\* msg_receive: the oldest queued message, or block until one is delivered.
MsgReceive ==
  /\ thread = "loop"
  /\ \/ /\ queue # <<>>
        /\ msg' = Head(queue) /\ queue' = Tail(queue)
        /\ thread' = "got"
     \/ /\ queue = <<>>
        /\ thread' = "blocked"
        /\ UNCHANGED <<msg, queue>>

\* The messages the thread has yet to act on, oldest first.
InHand == IF thread = "got" THEN <<msg>> ELSE <<>>
Pending == InHand \o queue
=============================================================================
