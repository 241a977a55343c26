--------------------------- MODULE PeriodicTasks ---------------------------
(***************************************************************************)
(* What a user of schedreg is promised, without lists, timers or queues:   *)
(* once registered, a task waits for its period, becomes due, is run, and  *)
(* waits again, for ever.  SchedReg is shown to implement this module for  *)
(* clients that never unregister and fit in the message queue.             *)
(***************************************************************************)
CONSTANT Tasks

VARIABLE status    \* [Tasks -> {"idle", "waiting", "due"}]

TypeOK == status \in [Tasks -> {"idle", "waiting", "due"}]

Init == status = [t \in Tasks |-> "idle"]

Step(t, from, to) ==
  /\ status[t] = from
  /\ status' = [status EXCEPT ![t] = to]

Register(t) == Step(t, "idle", "waiting")

Expire(t) == Step(t, "waiting", "due")

Run(t) == Step(t, "due", "waiting")

Next == \E t \in Tasks : Register(t) \/ Expire(t) \/ Run(t)

SafetySpec == Init /\ [][Next]_status

\* Registering is up to the client; a period always ends and a due task always runs.
Fairness == \A t \in Tasks : WF_status(Expire(t)) /\ WF_status(Run(t))

Spec == SafetySpec /\ Fairness
=============================================================================
