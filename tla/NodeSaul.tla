------------------------------ MODULE NodeSaul ------------------------------
(***************************************************************************)
(* apps/node_saul: main announces the node, then registers a beacon and    *)
(* one callback per sensor that is there with schedreg, which post for     *)
(* ever.                                                                   *)
(*                                                                         *)
(* Composes SchedReg, whose one client is main, with the callbacks of      *)
(* coap_common and coap_saul.                                              *)
(***************************************************************************)
EXTENDS SchedReg

CONSTANTS NumOf,       \* ARRAY_SIZE(_send_int), the sensors the firmware knows
          MaxSensors   \* how many of them a node has at most

\* Entry 0 is beacon_reg, entry i is saul_reg[i - 1].
ASSUME NodeConstants ==
  /\ NumOf \in Nat /\ MaxSensors \in Nat /\ Entries = 0 .. NumOf

VARIABLES present,   \* the sensors saul_reg_find_type_and_subtype finds
          uid,       \* init_beacon_sender has run: uid is set, "reset" is posted
          next,      \* the next entry main has to register
          reported   \* history: the entries that have posted something

nodeVars == <<present, uid, next, reported>>
allVars == <<vars, nodeVars>>

Registered == {0} \cup present

NodeTypeOK ==
  /\ TypeOK
  /\ present \subseteq 1 .. NumOf /\ uid \in BOOLEAN
  /\ next \in 0 .. NumOf + 1
  /\ reported \subseteq Registered

NodeInit ==
  /\ Init
  /\ present \in {s \in SUBSET (1 .. NumOf) : Cardinality(s) <= MaxSensors}
  /\ uid = FALSE /\ next = 0 /\ reported = {}

-----------------------------------------------------------------------------
(* main: node_saul.                                                        *)

InitBeaconSender ==
  /\ MainRuns /\ ~ uid /\ uid' = TRUE
  /\ UNCHANGED <<vars, present, next, reported>>

\* Mutant: the loop over saul_reg goes one entry too far.
Booting_PastEnd == uid /\ main = "idle" /\ next <= NumOf + 1

\* Between two registrations.
Booting == uid /\ main = "idle" /\ next <= NumOf

RegisterNext ==
  /\ Booting /\ next \in Registered
  /\ RegisterBegin(next) /\ next' = next + 1
  /\ UNCHANGED <<present, uid, reported>>

SkipAbsent ==
  /\ MainRuns /\ Booting /\ next \notin Registered
  /\ next' = next + 1
  /\ UNCHANGED <<vars, present, uid, reported>>

Schedules == (RegisterAppend \/ RegisterResched) /\ UNCHANGED nodeVars

\* Mutant: schedreg_register does not call the callback.
FirstReport_NotCalled == RegisterReturns /\ UNCHANGED nodeVars

\* beacon_handler or saul_coap_send, called by schedreg_register, has posted.
FirstReport ==
  /\ RegisterReturns
  /\ reported' = reported \cup {entry}
  /\ UNCHANGED <<present, uid, next>>

MainStep ==
  InitBeaconSender \/ RegisterNext \/ SkipAbsent \/ Schedules \/ FirstReport

\* shell_run
ShellRuns == next > NumOf /\ main = "idle"

-----------------------------------------------------------------------------
(* The schedreg thread.                                                    *)

Dispatches == (Receive \/ ThreadResched) /\ UNCHANGED nodeVars

\* beacon_handler or saul_coap_send, called by the schedreg thread, has posted.
\* saul_coap_send compares a size_t with 0: it also posts when the read failed.
Reports(e) ==
  /\ CallbackReturns /\ e = schedreg[Index(msg) + 1]
  /\ reported' = reported \cup {e}
  /\ UNCHANGED <<present, uid, next>>

SchedThreadStep == Dispatches \/ \E e \in Entries : Reports(e)

TimerStep(e) == TimerFires(e) /\ UNCHANGED nodeVars

-----------------------------------------------------------------------------
NodeNext ==
  \/ MainStep \/ SchedThreadStep
  \/ \E e \in Entries : TimerStep(e)

\* As for SchedReg.  Main has the lowest priority, but the periods are of
\* seconds: time and again it gets the processor for its next step.
NodeFairness ==
  /\ \A e \in Entries : WF_allVars(TimerStep(e))
  /\ WF_allVars(SchedThreadStep)
  /\ SF_allVars(MainStep)

NodeSpec == NodeInit /\ [][NodeNext]_allVars /\ NodeFairness

-----------------------------------------------------------------------------
(* Properties.                                                             *)

\* The node announces its reset before anything else, and by the time the shell
\* runs the beacon and every sensor that is there have reported once.
BootReports ==
  /\ reported # {} => uid
  /\ ShellRuns => reported = Registered

\* Once the shell runs, nothing that is there is forgotten: its timer is set or its
\* message on the way.
PresentAreScheduled ==
  ShellRuns => \A e \in Registered : e \in armed \cup Due

\* The beacon and every sensor that is there report for ever, although the
\* callbacks of main's registrations and of the thread may block anywhere.
EverySensorReports ==
  \A e \in Entries : [](e \in Registered) => []<><<Reports(e)>>_allVars
=============================================================================
