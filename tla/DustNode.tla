------------------------------ MODULE DustNode ------------------------------
(***************************************************************************)
(* A node of the board enviro-samr21: auto_init brings up its dust sensors *)
(* before main starts gcoap, whose thread then answers from them, through  *)
(* the SAUL registry, while their interrupts go on.                        *)
(*                                                                         *)
(* Composes SmPwmDevices and CoapServer.                                   *)
(***************************************************************************)
EXTENDS SmPwmDevices, CoapServer

vars == <<devVars, led>>

\* _saul_list: what each sensor resource looks up; no driver here measures PM1.
SaulList == [eco2 |-> "co2", humidity |-> "hum", light |-> "light",
             pm10 |-> "tlp", pm1 |-> "pm1", pm2p5 |-> "tsp",
             pressure |-> "press", temperature |-> "temp", tvoc |-> "tvoc"]

\* The payload that fits in a reply: none, less than a reading, or enough.
Rooms == {0, 8, 64}

\* saul_reg_find_type_and_subtype: the sensor of the first entry, 0 for none.
Find(subtype) ==
  LET at == {i \in DOMAIN registry : registry[i][2] = subtype}
  IN  IF at = {} THEN 0 ELSE registry[CHOOSE i \in at : \A j \in at : i <= j][1]

\* read_mc_pm_2p5, read_mc_pm_10: one value, without failure.
DimRead == 1

\* _resources, in the order of the table and by handler; "suit/" is the row of a
\* whole subtree, SUIT_COAP_SUBTREE, whose handler is RIOT's.
Resources == <<"board", "eco2", "humidity", "light", "mcu", "name", "os", "pm10",
               "pm1", "pm2p5", "position", "pressure", "suit/", "suit_state",
               "temperature", "tvoc", "vendor", "version">>
Constants == {"board", "mcu", "name", "os"}
SuitPaths == {"suit_state", "vendor", "version"}
Paths == {Resources[i] : i \in DOMAIN Resources}
OwnPaths == Paths \ {"suit/"}

\* The alphabetical order.
Sorted == <<"board", "eco2", "humidity", "light", "mcu", "name", "os", "pm1",
            "pm10", "pm2p5", "position", "pressure", "suit/", "suit_state",
            "temperature", "tvoc", "vendor", "version">>
Rank == [path \in Paths |-> CHOOSE i \in DOMAIN Sorted : Sorted[i] = path]

\* What gcoap's search finds: it goes on past the paths that precede the one it
\* looks for, and gives up at one that follows it.
Found ==
  {Resources[i] : i \in {k \in DOMAIN Resources :
    \A j \in 1 .. k - 1 : Rank[Resources[j]] < Rank[Resources[k]]}}

\* GET of one of the node's own resources, whose text has n bytes.
Reply(path, n, room) ==
  IF path \notin Found THEN [code |-> "4.04", length |-> 0]
  ELSE CASE path \in Constants -> ConstantReply(n, room)
         [] path = "position"  -> PositionReply(n, room)
         [] path \in SuitPaths -> SuitReply(n, room)
         [] path \in DOMAIN SaulList ->
              SaulReply(ReadSaulDataStr(Find(SaulList[path]), DimRead, n), room)

-----------------------------------------------------------------------------
Init == DevInit /\ ServerInit

Sensors == DevNext /\ UNCHANGED led

\* gcoap_register_listener and the shell come after auto_init.
Serve == BootDone /\ NoInterruptWaits /\ LedNext /\ UNCHANGED devVars

Next == Sensors \/ Serve

\* Interrupts run, time goes on between them and so does the boot.
Fairness ==
  /\ WF_vars(Interrupts /\ UNCHANGED led)
  /\ SF_vars(Tick /\ UNCHANGED led)
  /\ SF_vars(AutoInit /\ UNCHANGED led)

Spec == Init /\ [][Next]_vars /\ Fairness

-----------------------------------------------------------------------------
(* Properties.                                                             *)

\* The sensors auto_init has brought up.
Started == {registry[i][1] : i \in DOMAIN registry}

\* After the boot the server answers for both sizes from the sensor whose samples
\* the one timer takes, if one sensor came up or none; but with two or more it
\* answers from the first, which is never sampled again, and samples the last.
AnswersAreSampled ==
  BootDone =>
    \A k \in Kinds : Find(k) = timerArg <=> Cardinality(Started) <= 1

\* What a pin of the timer's sensor has counted is taken into its average, again
\* and again, whatever became of the initialisation of the others.
LowTimeIsSampled ==
  \A p \in Toggling : p \in lpo /\ BootDone ~> p \notin lpo \/ p[1] # timerArg

\* A resource that is found is answered with content exactly if the text fits and,
\* for a sensor, its driver is there: whatever the -1 of a failed read is taken for.
ContentIsReading ==
  \A path \in OwnPaths \cap Found, n \in {3, 15}, room \in Rooms :
    Reply(path, n, room).code = "2.05" <=>
      n <= room /\ (path \in DOMAIN SaulList => Find(SaulList[path]) # 0)

\* Once the boot is over every resource of the table is found, which gcoap's search
\* promises of a table in "alphabetical order" (node_saul/main.c:59).
ResourcesAreFound ==
  BootDone => \A path \in OwnPaths : Reply(path, 3, 64).code # "4.04"
=============================================================================
