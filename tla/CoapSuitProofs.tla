--------------------------- MODULE CoapSuitProofs ---------------------------
(***************************************************************************)
(* Theorems about CoapSuit for every queue length, every report cycle and  *)
(* every set of image sizes with a largest one: its types, the way out of  *)
(* an error, the status after an update, and the size behind a report.     *)
(***************************************************************************)
EXTENDS CoapSuit, SuitListenerProofs

\* What the thread may be sent.
Sent == Carried \cup [type : {"IDLE"}, value : {0}]

\* TypeOK, with what the messages carry.
CoapTypes ==
  /\ WorkerTypeOK
  /\ missedStart \in BOOLEAN /\ refused \in BOOLEAN /\ missedLast \in BOOLEAN
  /\ suit_state \in States /\ fw_size \in {0} \cup Sizes
  /\ count \in 0 .. Cycle - 1 /\ armed \in BOOLEAN
  /\ thread \in {"boot", "loop", "blocked", "got", "post"}
  /\ thread = "boot" => suit_state = "IDLE" /\ ~ armed
  /\ Channel(Sent)

\* The messages that end an error status.
Exits == {"IDLE", "TRIGGER"}

\* Behind an error the thread gets the SUIT_IDLE of a timer or the SUIT_TRIGGER of
\* the next update, since the worker sends nothing else after an error.
ErrorIsFollowed ==
  ~ refused =>
    /\ \A i \in 1 .. Len(Pending) - 1 :
         Pending[i].type \in ErrorTypes => Pending[i + 1].type \in Exits
    /\ Len(Pending) > 0 /\ Pending[Len(Pending)].type \in ErrorTypes => phase \in ErrorTypes
    /\ suit_state \in ErrorTypes =>
         IF Len(Pending) = 0 THEN phase \in ErrorTypes ELSE Pending[1].type \in Exits

\* What the status will be when the thread has caught up.
StatusArrives ==
  ~ missedLast /\ phase # "NONE" =>
    /\ \A j : IsNewest(Pending, StatusTypes, j) => Pending[j].type = LastStatus
    /\ HasNone(Pending, StatusTypes) => suit_state \in {StateOf(LastStatus), "IDLE"}

\* What fw_size will be when the thread has caught up.
SizeArrives ==
  ~ missedStart =>
    /\ \A j : IsNewest(Pending, Starts, j) => Pending[j].value = size
    /\ HasNone(Pending, Starts) => fw_size = size

\* A report among the messages s is within the size sent before it, or else base.
ReportsFit(s, base) ==
  \A i \in 1 .. Len(s) : s[i].type = "DOWNLOAD_PROGRESS" =>
    /\ \A j \in 1 .. i - 1 :
         /\ s[j].type = "DOWNLOAD_START"
         /\ \A k \in j + 1 .. i - 1 : s[k].type # "DOWNLOAD_START"
         => s[i].value \in 1 .. s[j].value
    /\ (\A k \in 1 .. i - 1 : s[k].type # "DOWNLOAD_START") => s[i].value \in 1 .. base

\* The invariant the theorems rest on.
CoapInv ==
  /\ CoapTypes /\ ErrorIsFollowed /\ ErrorHasExit
  /\ StatusArrives /\ SizeArrives /\ (~ missedStart => ReportsFit(Pending, fw_size))

-----------------------------------------------------------------------------
(* Lemmas about the messages.                                              *)

\* A report that fits the newest size sent, or the one in force, fits.
LEMMA FitsAppended ==
  ASSUME NEW M, NEW s \in Seq(M), NEW m \in M, NEW base, ReportsFit(s, base),
         m.type = "DOWNLOAD_PROGRESS" =>
           /\ \A j : IsNewest(s, Starts, j) => m.value \in 1 .. s[j].value
           /\ HasNone(s, Starts) => m.value \in 1 .. base
  PROVE  ReportsFit(Append(s, m), base)
<1> DEFINE n == Len(s)
           r == Append(s, m)
<1>1. n \in Nat /\ Len(r) = n + 1 /\ r[n + 1] = m /\ \A i \in 1 .. n : r[i] = s[i]
  BY AppendProperties, LenProperties
<1> HIDE DEF r
<1> SUFFICES ASSUME NEW i \in 1 .. Len(r), r[i].type = "DOWNLOAD_PROGRESS"
             PROVE  /\ \A j \in 1 .. i - 1 :
                         /\ r[j].type = "DOWNLOAD_START"
                         /\ \A k \in j + 1 .. i - 1 : r[k].type # "DOWNLOAD_START"
                         => r[i].value \in 1 .. r[j].value
                    /\ (\A k \in 1 .. i - 1 : r[k].type # "DOWNLOAD_START")
                         => r[i].value \in 1 .. base
  BY DEF ReportsFit, r
<1>2. \A k \in 1 .. i - 1 : k \in 1 .. n /\ r[k] = s[k]
  BY <1>1
<1>3. CASE i \in 1 .. n
  <2>1. r[i] = s[i] /\ s[i].type = "DOWNLOAD_PROGRESS"
    BY <1>1, <1>3
  <2>2. /\ \A j \in 1 .. i - 1 :
             /\ s[j].type = "DOWNLOAD_START"
             /\ \A k \in j + 1 .. i - 1 : s[k].type # "DOWNLOAD_START"
             => s[i].value \in 1 .. s[j].value
        /\ (\A k \in 1 .. i - 1 : s[k].type # "DOWNLOAD_START") => s[i].value \in 1 .. base
    BY <1>3, <2>1 DEF ReportsFit
  <2>3. ASSUME NEW j \in 1 .. i - 1, r[j].type = "DOWNLOAD_START",
               \A k \in j + 1 .. i - 1 : r[k].type # "DOWNLOAD_START"
        PROVE  r[i].value \in 1 .. r[j].value
    <3>1. r[j] = s[j] /\ s[j].type = "DOWNLOAD_START"
      BY <1>2, <2>3
    <3>2. ASSUME NEW k \in j + 1 .. i - 1 PROVE s[k].type # "DOWNLOAD_START"
      <4>1. k \in 1 .. i - 1
        BY <1>1, <1>3
      <4> QED BY <1>2, <2>3, <4>1
    <3> QED BY <2>1, <2>2, <3>1, <3>2
  <2>4. ASSUME \A k \in 1 .. i - 1 : r[k].type # "DOWNLOAD_START" PROVE r[i].value \in 1 .. base
    <3>1. \A k \in 1 .. i - 1 : s[k].type # "DOWNLOAD_START"
      BY <1>2, <2>4
    <3> QED BY <2>1, <2>2, <3>1
  <2> QED BY <2>3, <2>4
<1>4. CASE i = n + 1
  <2>1. r[i] = m
    BY <1>1, <1>4
  <2>2. ASSUME NEW j \in 1 .. i - 1, r[j].type = "DOWNLOAD_START",
               \A k \in j + 1 .. i - 1 : r[k].type # "DOWNLOAD_START"
        PROVE  m.value \in 1 .. r[j].value
    <3>1. \A k \in 1 .. n : k > j => s[k].type # "DOWNLOAD_START"
      BY <1>1, <1>2, <1>4, <2>2
    <3>2. IsNewest(s, Starts, j) /\ r[j] = s[j]
      BY <1>2, <1>4, <2>2, <3>1 DEF IsNewest, Starts
    <3> QED BY <2>1, <3>2
  <2>3. ASSUME \A k \in 1 .. i - 1 : r[k].type # "DOWNLOAD_START" PROVE m.value \in 1 .. base
    <3>1. HasNone(s, Starts)
      BY <1>1, <1>2, <1>4, <2>3 DEF HasNone, Starts
    <3> QED BY <2>1, <3>1
  <2> QED BY <2>1, <2>2, <2>3
<1> QED BY <1>1, <1>3, <1>4

\* Acting on the oldest message puts its size in force, if it has one.
LEMMA FitsTail ==
  ASSUME NEW M, NEW s \in Seq(M), s # <<>>, NEW base, NEW new, ReportsFit(s, base),
         s[1].type = "DOWNLOAD_START" => new = s[1].value,
         s[1].type # "DOWNLOAD_START" => new = base
  PROVE  ReportsFit(Tail(s), new)
<1> DEFINE n == Len(s)
           r == Tail(s)
<1>1. n \in Nat /\ n > 0 /\ Len(r) = n - 1 /\ \A i \in 1 .. n - 1 : r[i] = s[i + 1]
  BY HeadTailProperties, LenProperties, EmptySeq
<1> HIDE DEF r
<1> SUFFICES ASSUME NEW i \in 1 .. n - 1, r[i].type = "DOWNLOAD_PROGRESS"
             PROVE  /\ \A j \in 1 .. i - 1 :
                         /\ r[j].type = "DOWNLOAD_START"
                         /\ \A k \in j + 1 .. i - 1 : r[k].type # "DOWNLOAD_START"
                         => r[i].value \in 1 .. r[j].value
                    /\ (\A k \in 1 .. i - 1 : r[k].type # "DOWNLOAD_START")
                         => r[i].value \in 1 .. new
  BY <1>1 DEF ReportsFit, r
<1>2. r[i] = s[i + 1] /\ i + 1 \in 1 .. n
  BY <1>1
<1>3. /\ \A j \in 1 .. i :
           /\ s[j].type = "DOWNLOAD_START"
           /\ \A k \in j + 1 .. i : s[k].type # "DOWNLOAD_START"
           => r[i].value \in 1 .. s[j].value
      /\ (\A k \in 1 .. i : s[k].type # "DOWNLOAD_START") => r[i].value \in 1 .. base
  <2>1. (i + 1) - 1 = i
    OBVIOUS
  <2> QED BY <1>2, <2>1 DEF ReportsFit
<1>4. ASSUME NEW k \in 2 .. i PROVE k - 1 \in 1 .. i - 1 /\ r[k - 1] = s[k]
  <2>1. k - 1 \in 1 .. n - 1 /\ (k - 1) + 1 = k
    BY <1>1
  <2> QED BY <1>1, <2>1
<1>5. ASSUME NEW j \in 1 .. i - 1, r[j].type = "DOWNLOAD_START",
             \A k \in j + 1 .. i - 1 : r[k].type # "DOWNLOAD_START"
      PROVE  r[i].value \in 1 .. r[j].value
  <2>1. j + 1 \in 1 .. i /\ r[j] = s[j + 1]
    BY <1>1
  <2>2. ASSUME NEW k \in (j + 1) + 1 .. i PROVE s[k].type # "DOWNLOAD_START"
    <3>1. k \in 2 .. i /\ k - 1 \in j + 1 .. i - 1
      OBVIOUS
    <3> QED BY <1>4, <1>5, <3>1
  <2> QED BY <1>3, <1>5, <2>1, <2>2
<1>6. ASSUME \A k \in 1 .. i - 1 : r[k].type # "DOWNLOAD_START" PROVE r[i].value \in 1 .. new
  <2>1. \A k \in 2 .. i : s[k].type # "DOWNLOAD_START"
    BY <1>4, <1>6
  <2>2. CASE s[1].type = "DOWNLOAD_START"
    <3>1. 1 \in 1 .. i /\ \A k \in 1 + 1 .. i : s[k].type # "DOWNLOAD_START"
      BY <2>1
    <3> QED BY <1>3, <2>2, <3>1
  <2>3. CASE s[1].type # "DOWNLOAD_START"
    <3>1. \A k \in 1 .. i : s[k].type # "DOWNLOAD_START"
      BY <2>1, <2>3
    <3> QED BY <1>3, <2>3, <3>1
  <2> QED BY <2>2, <2>3
<1> QED BY <1>5, <1>6

-----------------------------------------------------------------------------
(* The initial state, and what the messages are.                           *)

\* The typed messages are those of TypeOK.
LEMMA TypesAreTypeOK == CoapTypes => TypeOK
<1> SUFFICES ASSUME CoapTypes PROVE TypeOK
  OBVIOUS
<1>1. Sent \subseteq Message
  BY DEF Sent, Carried, Message
<1>2. queue \in Seq(Message) /\ msg \in IF thread = "got" THEN Message ELSE {None}
  BY <1>1 DEF CoapTypes, Channel
<1> QED BY <1>2 DEF CoapTypes, TypeOK, ListenerTypeOK, Channel

\* After a boot.
LEMMA CoapInit == Init => CoapInv
<1> SUFFICES ASSUME Init PROVE CoapInv
  OBVIOUS
<1> USE DEF Init, ListenerInit, WorkerInit
<1>1. Channel(Sent) /\ Pending = <<>>
  <2>1. Channel(Sent)
    BY ListenerConstants, EmptySeq DEF Channel
  <2> QED BY <2>1, NothingPending
<1>2. CoapTypes
  <2>1. WorkerTypeOK /\ 0 \in 0 .. Cycle - 1 /\ suit_state \in States
    BY CycleFits DEF WorkerTypeOK, States
  <2> QED BY <1>1, <2>1, Zenon DEF CoapTypes
<1>3. suit_state \notin ErrorTypes /\ phase = "NONE"
  BY DEF ErrorTypes
<1>4. Len(Pending) = 0
  BY <1>1
<1>5. ErrorIsFollowed
  BY <1>3, <1>4 DEF ErrorIsFollowed
<1>6. SizeArrives
  BY <1>4 DEF SizeArrives, IsNewest
<1>7. ReportsFit(Pending, fw_size)
  BY <1>4 DEF ReportsFit
<1> QED BY <1>2, <1>3, <1>5, <1>6, <1>7 DEF CoapInv, ErrorHasExit, StatusArrives

\* The states of errors, and of the other messages.
LEMMA StateOfTypes ==
  /\ \A t \in StatusTypes : StateOf(t) \in States
  /\ \A t \in StatusTypes : StateOf(t) \in ErrorTypes <=> t \in ErrorTypes
  /\ "IDLE" \in States /\ "IDLE" \notin ErrorTypes /\ "IDLE" \notin StatusTypes
  /\ "DOWNLOAD_PROGRESS" \notin StatusTypes /\ ErrorTypes \subseteq StatusTypes
  /\ NotifyTypes = StatusTypes \cup {"DOWNLOAD_PROGRESS"}
  /\ Exits \cap ErrorTypes = {} /\ "DOWNLOAD_PROGRESS" \notin Exits
BY DEF StateOf, States, ErrorTypes, StatusTypes, NotifyTypes, Exits

\* A message behind the pending ones keeps the exits of errors, if it is one where
\* one is needed.
LEMMA FollowedAppended ==
  ASSUME Pending \in Seq(Sent), NEW m \in Sent, ErrorIsFollowed,
         Pending' = Append(Pending, m), suit_state' = suit_state, refused => refused',
         phase \in ErrorTypes => m.type \in Exits,
         m.type \in ErrorTypes => phase' \in ErrorTypes
  PROVE  ErrorIsFollowed'
<1> DEFINE n == Len(Pending)
<1>1. n \in Nat /\ Len(Pending') = n + 1 /\ Pending'[n + 1] = m
      /\ \A i \in 1 .. n : Pending'[i] = Pending[i]
  BY AppendProperties, LenProperties
<1> SUFFICES ASSUME ~ refused' PROVE
       /\ \A i \in 1 .. n : Pending'[i].type \in ErrorTypes => Pending'[i + 1].type \in Exits
       /\ m.type \in ErrorTypes => phase' \in ErrorTypes
       /\ suit_state \in ErrorTypes => Pending'[1].type \in Exits
  BY <1>1 DEF ErrorIsFollowed
<1>2. /\ ~ refused
      /\ phase \in ErrorTypes => m.type \in Exits
  OBVIOUS
<1>3. /\ \A i \in 1 .. n - 1 : Pending[i].type \in ErrorTypes => Pending[i + 1].type \in Exits
      /\ n > 0 /\ Pending[n].type \in ErrorTypes => phase \in ErrorTypes
      /\ suit_state \in ErrorTypes =>
           IF n = 0 THEN phase \in ErrorTypes ELSE Pending[1].type \in Exits
  BY <1>2 DEF ErrorIsFollowed
<1>4. ASSUME NEW i \in 1 .. n, Pending'[i].type \in ErrorTypes
      PROVE  Pending'[i + 1].type \in Exits
  <2>1. CASE i = n
    <3>1. Pending[n].type \in ErrorTypes /\ n > 0
      BY <1>1, <1>4, <2>1
    <3> QED BY <1>1, <1>2, <1>3, <2>1, <3>1
  <2>2. CASE i # n
    <3>1. i \in 1 .. n - 1 /\ i + 1 \in 1 .. n
      BY <1>1, <2>2
    <3> QED BY <1>1, <1>3, <1>4, <3>1
  <2> QED BY <2>1, <2>2
<1>5. suit_state \in ErrorTypes => Pending'[1].type \in Exits
  <2>1. CASE n = 0
    BY <1>1, <1>2, <1>3, <2>1
  <2>2. CASE n # 0
    <3>1. 1 \in 1 .. n
      BY <1>1, <2>2
    <3> QED BY <1>1, <1>3, <2>2, <3>1
  <2> QED BY <2>1, <2>2
<1> QED BY <1>4, <1>5

-----------------------------------------------------------------------------
(* The actions.                                                            *)

\* The worker's notifications.
LEMMA CoapNotified ==
  ASSUME CoapInv, NEW type \in NotifyTypes, NEW value \in Values, WorkerNotifies(type, value)
  PROVE  CoapInv'
<1> DEFINE m == [type |-> type, value |-> value]
<1>0. Channel(Sent) /\ WorkerTypeOK /\ Notify(type, value) /\ Carried \subseteq Sent
  BY DEF CoapInv, CoapTypes, WorkerNotifies, Sent
<1>1. /\ Channel(Sent)' /\ WorkerTypeOK'
      /\ \/ Missed /\ Pending' = Pending
         \/ ~ Missed /\ Pending' = Append(Pending, m)
      /\ thread' = "boot" <=> thread = "boot"
  BY <1>0, PendingNotify
<1>2. /\ WorkerSends(type, value) /\ phase' = type
      /\ missedStart' = (missedStart \/ (type = "DOWNLOAD_START" /\ Missed))
      /\ refused' = (refused \/ (thread # "boot" /\ QueueFull))
      /\ missedLast' = IF type \in StatusTypes THEN Missed ELSE missedLast
      /\ UNCHANGED <<suit_state, fw_size, count, armed>>
  BY DEF WorkerNotifies, Notify, WorkerSends, suitVars
<1>3. m \in Sent /\ Pending \in Seq(Sent) /\ m.type = type /\ m.value = value
  <2>1. m \in Carried
    BY <1>0, <1>2, WorkerTypes
  <2>2. Pending \in Seq(Sent)
    BY <1>0, PendingTyped
  <2> QED BY <1>0, <2>1, <2>2
<1> HIDE DEF m
<1>n. \A T :
        /\ \A j : IsNewest(Append(Pending, m), T, j) =>
             IF m.type \in T THEN Append(Pending, m)[j] = m
             ELSE IsNewest(Pending, T, j) /\ Append(Pending, m)[j] = Pending[j]
        /\ HasNone(Append(Pending, m), T) => HasNone(Pending, T) /\ m.type \notin T
  BY <1>3, NewestAppended, Zenon
<1>4. CoapTypes'
  <2>1. thread' \in {"boot", "loop", "blocked", "got", "post"}
    BY <1>0 DEF Notify, Deliver, threadVars, CoapInv, CoapTypes
  <2>2. missedStart' \in BOOLEAN /\ refused' \in BOOLEAN /\ missedLast' \in BOOLEAN
    <3>1. Missed \in BOOLEAN /\ QueueFull \in BOOLEAN
      BY DEF Missed, QueueFull
    <3> QED BY <1>2, <3>1 DEF CoapInv, CoapTypes
  <2> QED BY <1>1, <1>2, <2>1, <2>2 DEF CoapInv, CoapTypes
<1>5. /\ type = "DOWNLOAD_START" => size' = value
      /\ type # "DOWNLOAD_START" => size' = size
      /\ type = "DOWNLOAD_PROGRESS" => Downloading /\ value \in written + 1 .. size
      /\ phase \in ErrorTypes => type = "TRIGGER"
  BY <1>2 DEF WorkerSends, ErrorTypes, Downloading
<1>6. ErrorIsFollowed'
  <2>1. CASE Missed /\ Pending' = Pending
    <3>1. CASE thread # "boot"
      BY <1>2, <2>1, <3>1 DEF Missed, ErrorIsFollowed
    <3>2. CASE thread = "boot"
      <4>1. Pending = <<>> /\ suit_state \notin ErrorTypes
        BY <1>0, <3>2, NothingPending DEF CoapInv, CoapTypes, ErrorTypes
      <4>2. Len(Pending') = 0 /\ suit_state' \notin ErrorTypes
        BY <1>2, <2>1, <4>1
      <4> QED BY <4>2 DEF ErrorIsFollowed
    <3> QED BY <3>1, <3>2
  <2>2. CASE Pending' = Append(Pending, m)
    BY <1>2, <1>3, <1>5, <2>2, FollowedAppended DEF CoapInv, Exits
  <2> QED BY <1>1, <2>1, <2>2
<1>7. ErrorHasExit'
  <2> SUFFICES ASSUME suit_state \in ErrorTypes, ~ refused
               PROVE  armed \/ \E i \in DOMAIN Pending' : Pending'[i].type \in {"IDLE", "TRIGGER"}
    BY <1>2 DEF ErrorHasExit
  <2>1. armed \/ \E i \in DOMAIN Pending : Pending[i].type \in {"IDLE", "TRIGGER"}
    BY DEF CoapInv, ErrorHasExit
  <2>2. \A i \in DOMAIN Pending : i \in DOMAIN Pending' /\ Pending'[i] = Pending[i]
    BY <1>1, <1>3, AppendProperties, LenProperties
  <2> QED BY <2>1, <2>2, Zenon
<1>8. StatusArrives'
  <2> SUFFICES ASSUME ~ missedLast'
               PROVE  /\ \A j : IsNewest(Pending', StatusTypes, j) => Pending'[j].type = LastStatus'
                      /\ HasNone(Pending', StatusTypes) => suit_state' \in {StateOf(LastStatus'), "IDLE"}
    BY DEF StatusArrives, StateOf
  <2>1. CASE type \in StatusTypes
    <3>1. LastStatus' = type /\ Pending' = Append(Pending, m)
      BY <1>1, <1>2, <2>1, StateOfTypes DEF LastStatus
    <3>2. ~ HasNone(Pending', StatusTypes)
      BY <1>3, <1>n, <2>1, <3>1, Zenon
    <3>3. \A j : IsNewest(Pending', StatusTypes, j) => Pending'[j] = m
      BY <1>3, <1>n, <2>1, <3>1, Zenon
    <3> QED BY <1>3, <3>1, <3>2, <3>3
  <2>2. CASE type = "DOWNLOAD_PROGRESS"
    <3>1. LastStatus' = LastStatus /\ ~ missedLast /\ phase # "NONE" /\ type \notin StatusTypes
      BY <1>2, <1>5, <2>2, StateOfTypes DEF LastStatus, Downloading
    <3>2. /\ \A j : IsNewest(Pending, StatusTypes, j) => Pending[j].type = LastStatus
          /\ HasNone(Pending, StatusTypes) => suit_state \in {StateOf(LastStatus), "IDLE"}
      BY <3>1 DEF CoapInv, StatusArrives
    <3>3. /\ \A j : IsNewest(Pending', StatusTypes, j) =>
                      IsNewest(Pending, StatusTypes, j) /\ Pending'[j] = Pending[j]
          /\ HasNone(Pending', StatusTypes) => HasNone(Pending, StatusTypes)
      <4>1. CASE Pending' = Pending
        BY <4>1
      <4>2. CASE Pending' = Append(Pending, m)
        BY <1>3, <1>n, <3>1, <4>2, Zenon
      <4> QED BY <1>1, <4>1, <4>2
    <3>4. StateOf(LastStatus') = StateOf(LastStatus)
      BY <3>1
    <3> QED BY <1>2, <3>1, <3>2, <3>3, <3>4
  <2> QED BY <2>1, <2>2, StateOfTypes
<1>9. SizeArrives'
  <2> SUFFICES ASSUME ~ missedStart'
               PROVE  /\ \A j : IsNewest(Pending', Starts, j) => Pending'[j].value = size'
                      /\ HasNone(Pending', Starts) => fw_size' = size'
    BY DEF SizeArrives
  <2>1. ~ missedStart /\ (type = "DOWNLOAD_START" => ~ Missed) /\ fw_size' = fw_size
    BY <1>2
  <2>2. /\ \A j : IsNewest(Pending, Starts, j) => Pending[j].value = size
        /\ HasNone(Pending, Starts) => fw_size = size
    BY <2>1 DEF CoapInv, SizeArrives
  <2>3. CASE Pending' = Pending /\ type # "DOWNLOAD_START"
    BY <1>5, <2>1, <2>2, <2>3
  <2>4. CASE Pending' = Append(Pending, m)
    <3>1. /\ \A j : IsNewest(Pending', Starts, j) =>
                IF m.type \in Starts THEN Pending'[j] = m
                ELSE IsNewest(Pending, Starts, j) /\ Pending'[j] = Pending[j]
          /\ HasNone(Pending', Starts) => HasNone(Pending, Starts) /\ m.type \notin Starts
      BY <1>n, <2>4, Zenon
    <3> QED BY <1>3, <1>5, <2>1, <2>2, <3>1 DEF Starts
  <2> QED BY <1>1, <2>1, <2>3, <2>4
<1>10. ~ missedStart' => ReportsFit(Pending, fw_size)'
  <2> SUFFICES ASSUME ~ missedStart' PROVE ReportsFit(Pending', fw_size)
    BY <1>2
  <2>1. ~ missedStart
    BY <1>2
  <2>2. /\ ReportsFit(Pending, fw_size)
        /\ \A j : IsNewest(Pending, Starts, j) => Pending[j].value = size
        /\ HasNone(Pending, Starts) => fw_size = size
    BY <2>1 DEF CoapInv, SizeArrives
  <2>3. m.type = "DOWNLOAD_PROGRESS" => m.value \in 1 .. size
    <3>1. written \in Nat /\ size \in Nat
      BY <1>0, ListenerConstants DEF WorkerTypeOK
    <3> QED BY <1>3, <1>5, <3>1
  <2>4. m.type = "DOWNLOAD_PROGRESS" =>
           /\ \A j : IsNewest(Pending, Starts, j) => m.value \in 1 .. Pending[j].value
           /\ HasNone(Pending, Starts) => m.value \in 1 .. fw_size
    BY <2>2, <2>3
  <2>5. ReportsFit(Append(Pending, m), fw_size)
    BY <1>3, <2>2, <2>4, FitsAppended, Zenon
  <2> QED BY <1>1, <2>2, <2>5
<1> QED BY <1>4, <1>6, <1>7, <1>8, <1>9, <1>10 DEF CoapInv

\* The timer sends its SUIT_IDLE, or the full queue it meets holds the exit already.
LEMMA CoapTimerFires ==
  ASSUME CoapInv, TimerFires
  PROVE  CoapInv'
<1> DEFINE m == [type |-> "IDLE", value |-> 0]
<1>0. Channel(Sent) /\ thread # "boot" /\ Deliver(m) /\ m \in Sent
  BY DEF CoapInv, CoapTypes, TimerFires, Sent
<1>1. /\ armed' = FALSE /\ UNCHANGED <<suit_state, fw_size, count, missedLast, missedStart, refused>>
      /\ UNCHANGED <<phase, size, written>>
      /\ m.type = "IDLE"
  BY DEF TimerFires, histVars, missedVars, workerVars
<1> HIDE DEF m
<1>2. /\ Channel(Sent)'
      /\ \/ Pending' = Append(Pending, m) /\ ~ QueueFull
         \/ Pending' = Pending /\ QueueFull
  BY <1>0, PendingDeliver
<1>3. Pending \in Seq(Sent) /\ Len(Pending) \in Nat /\ DOMAIN Pending = 1 .. Len(Pending)
  BY <1>0, PendingTyped
<1>n. \A T :
        /\ \A j : IsNewest(Append(Pending, m), T, j) =>
             IF m.type \in T THEN Append(Pending, m)[j] = m
             ELSE IsNewest(Pending, T, j) /\ Append(Pending, m)[j] = Pending[j]
        /\ HasNone(Append(Pending, m), T) => HasNone(Pending, T) /\ m.type \notin T
  BY <1>0, <1>3, NewestAppended, Zenon
<1>4. CoapTypes'
  <2>1. thread' \in {"boot", "loop", "blocked", "got", "post"} /\ thread' # "boot"
    BY <1>0 DEF Deliver, threadVars, CoapInv, CoapTypes
  <2> QED BY <1>1, <1>2, <2>1 DEF CoapInv, CoapTypes, WorkerTypeOK
<1>5. ErrorIsFollowed'
  <2>1. CASE Pending' = Append(Pending, m)
    BY <1>0, <1>1, <1>3, <2>1, FollowedAppended, StateOfTypes DEF CoapInv, Exits
  <2>2. CASE Pending' = Pending
    BY <1>1, <2>2 DEF CoapInv, ErrorIsFollowed
  <2> QED BY <1>2, <2>1, <2>2
<1>6. ErrorHasExit'
  <2> SUFFICES ASSUME suit_state \in ErrorTypes, ~ refused
               PROVE  \E i \in DOMAIN Pending' : Pending'[i].type \in {"IDLE", "TRIGGER"}
    BY <1>1 DEF ErrorHasExit
  <2>1. CASE Pending' = Append(Pending, m)
    <3>1. Len(Pending) + 1 \in DOMAIN Pending' /\ Pending'[Len(Pending) + 1] = m
      BY <1>0, <1>3, <2>1, AppendProperties
    <3> QED BY <1>1, <3>1
  <2>2. CASE Pending' = Pending /\ QueueFull
    <3>1. Len(Pending) > 0
      BY <1>0, <2>2, FullIsPending
    <3>2. Pending[1].type \in Exits /\ 1 \in DOMAIN Pending
      BY <1>3, <3>1 DEF CoapInv, ErrorIsFollowed
    <3> QED BY <2>2, <3>2 DEF Exits
  <2> QED BY <1>2, <2>1, <2>2
<1>7. \A T : m.type \notin T =>
        /\ \A j : IsNewest(Pending', T, j) => IsNewest(Pending, T, j) /\ Pending'[j] = Pending[j]
        /\ HasNone(Pending', T) => HasNone(Pending, T)
  <2>1. CASE Pending' = Pending
    BY <2>1
  <2>2. CASE Pending' = Append(Pending, m)
    BY <1>n, <2>2, Zenon
  <2> QED BY <1>2, <2>1, <2>2
<1>8. /\ \A j : IsNewest(Pending', StatusTypes, j) =>
                  IsNewest(Pending, StatusTypes, j) /\ Pending'[j] = Pending[j]
      /\ HasNone(Pending', StatusTypes) => HasNone(Pending, StatusTypes)
  <2>1. m.type \notin StatusTypes
    BY <1>1, StateOfTypes
  <2> QED BY <1>7, <2>1, Zenon
<1>9. /\ \A j : IsNewest(Pending', Starts, j) =>
                  IsNewest(Pending, Starts, j) /\ Pending'[j] = Pending[j]
      /\ HasNone(Pending', Starts) => HasNone(Pending, Starts)
  <2>1. m.type \notin Starts
    BY <1>1 DEF Starts
  <2> QED BY <1>7, <2>1, Zenon
<1>10. StatusArrives'
  <2>1. LastStatus' = LastStatus /\ StateOf(LastStatus') = StateOf(LastStatus)
    BY <1>1 DEF LastStatus
  <2> QED BY <1>1, <1>8, <2>1 DEF CoapInv, StatusArrives
<1>11. SizeArrives'
  BY <1>1, <1>9 DEF CoapInv, SizeArrives
<1>12. ~ missedStart' => ReportsFit(Pending, fw_size)'
  <2> SUFFICES ASSUME ~ missedStart PROVE ReportsFit(Pending', fw_size)
    BY <1>1
  <2>1. ReportsFit(Pending, fw_size)
    BY DEF CoapInv
  <2>2. m.type # "DOWNLOAD_PROGRESS"
    BY <1>1
  <2>3. ReportsFit(Append(Pending, m), fw_size)
    BY <1>0, <1>3, <2>1, <2>2, FitsAppended, Zenon
  <2> QED BY <1>2, <2>1, <2>3
<1> QED BY <1>4, <1>5, <1>6, <1>10, <1>11, <1>12 DEF CoapInv

\* The thread acts on a message.
LEMMA CoapHandled ==
  ASSUME CoapInv, Handles
  PROVE  CoapInv'
<1>1. /\ thread = "got" /\ thread' \in {"loop", "post"} /\ msg' = None
      /\ UNCHANGED <<queue, missedLast, missedStart, refused, phase, size, written>>
  BY DEF Handles, HandlesStatus, HandlesError, HandlesDownloadStart, HandlesIdle, HandlesProgress,
         PostsState, histVars, missedVars, workerVars
<1>2. Channel(Sent)
  BY DEF CoapInv, CoapTypes
<1>3. /\ Channel(Sent)' /\ Pending # <<>> /\ Pending[1] = msg /\ Pending' = Tail(Pending)
  BY <1>1, <1>2, PendingHandled
<1>4. Pending \in Seq(Sent) /\ msg \in Sent
  BY <1>1, <1>2, PendingTyped DEF Channel
<1>5. /\ msg.type \in StatusTypes => suit_state' = StateOf(msg.type)
      /\ msg.type \in ErrorTypes => armed'
      /\ msg.type = "IDLE" => suit_state' = "IDLE"
      /\ msg.type = "DOWNLOAD_PROGRESS" => suit_state' = suit_state
      /\ msg.type \in StatusTypes \cup {"IDLE", "DOWNLOAD_PROGRESS"}
      /\ armed' \in BOOLEAN
      /\ msg.type = "DOWNLOAD_START" => fw_size' = msg.value
      /\ msg.type # "DOWNLOAD_START" => fw_size' = fw_size
  BY StateOfTypes DEF Handles, HandlesStatus, HandlesError, HandlesDownloadStart, HandlesIdle,
     HandlesProgress, ErrorTypes, StatusTypes, CoapInv, CoapTypes
<1>6. count' \in 0 .. Cycle - 1
  <2>1. count \in 0 .. Cycle - 1 /\ Cycle \in Nat /\ Cycle > 0
    BY CycleFits DEF CoapInv, CoapTypes
  <2>2. count' \in {count, 0, (count + 1) % Cycle}
    BY DEF Handles, HandlesStatus, HandlesError, HandlesDownloadStart, HandlesIdle, HandlesProgress
  <2>3. (count + 1) % Cycle \in 0 .. Cycle - 1
    BY <2>1
  <2> QED BY <2>1, <2>2, <2>3
<1>7. CoapTypes'
  <2>1. suit_state' \in States
    BY <1>5, StateOfTypes DEF CoapInv, CoapTypes
  <2>2. msg.type = "DOWNLOAD_START" => msg.value \in Sizes
    BY <1>4 DEF Sent, Carried
  <2>3. fw_size' \in {0} \cup Sizes
    BY <1>5, <2>2 DEF CoapInv, CoapTypes
  <2> QED BY <1>1, <1>3, <1>5, <1>6, <2>1, <2>3 DEF CoapInv, CoapTypes, WorkerTypeOK
<1>8. /\ Len(Pending) \in Nat /\ Len(Pending) > 0 /\ Len(Pending') = Len(Pending) - 1
      /\ \A i \in 1 .. Len(Pending) - 1 : Pending'[i] = Pending[i + 1]
  BY <1>3, <1>4, HeadTailProperties, LenProperties, EmptySeq
<1>9. ~ refused /\ suit_state' \in ErrorTypes => msg.type \in ErrorTypes
  <2> SUFFICES ASSUME ~ refused, suit_state' \in ErrorTypes, msg.type \notin ErrorTypes PROVE FALSE
    OBVIOUS
  <2>1. msg.type = "DOWNLOAD_PROGRESS" /\ suit_state \in ErrorTypes
    BY <1>5, StateOfTypes
  <2>2. Pending[1].type \in Exits
    BY <1>8, <2>1 DEF CoapInv, ErrorIsFollowed
  <2> QED BY <1>3, <2>1, <2>2, StateOfTypes
<1>10. ErrorIsFollowed'
  <2> DEFINE n == Len(Pending)
  <2> SUFFICES ASSUME ~ refused
      PROVE /\ \A i \in 1 .. (n - 1) - 1 :
                 Pending'[i].type \in ErrorTypes => Pending'[i + 1].type \in Exits
            /\ n - 1 > 0 /\ Pending'[n - 1].type \in ErrorTypes => phase \in ErrorTypes
            /\ suit_state' \in ErrorTypes =>
                 IF n - 1 = 0 THEN phase \in ErrorTypes ELSE Pending'[1].type \in Exits
    BY <1>1, <1>8 DEF ErrorIsFollowed
  <2>1. /\ \A i \in 1 .. n - 1 : Pending[i].type \in ErrorTypes => Pending[i + 1].type \in Exits
        /\ n > 0 /\ Pending[n].type \in ErrorTypes => phase \in ErrorTypes
    BY DEF CoapInv, ErrorIsFollowed
  <2>2. ASSUME NEW i \in 1 .. (n - 1) - 1, Pending'[i].type \in ErrorTypes
        PROVE  Pending'[i + 1].type \in Exits
    <3>1. /\ i \in 1 .. n - 1 /\ i + 1 \in 1 .. n - 1
          /\ Pending'[i] = Pending[i + 1] /\ Pending'[i + 1] = Pending[(i + 1) + 1]
      BY <1>8
    <3> QED BY <2>1, <2>2, <3>1
  <2>3. n - 1 > 0 /\ Pending'[n - 1].type \in ErrorTypes => phase \in ErrorTypes
    <3>1. n - 1 > 0 => Pending'[n - 1] = Pending[n]
      BY <1>8
    <3> QED BY <1>8, <2>1, <3>1
  <2>4. suit_state' \in ErrorTypes =>
          IF n - 1 = 0 THEN phase \in ErrorTypes ELSE Pending'[1].type \in Exits
    <3> SUFFICES ASSUME suit_state' \in ErrorTypes
                 PROVE  IF n - 1 = 0 THEN phase \in ErrorTypes ELSE Pending'[1].type \in Exits
      OBVIOUS
    <3>1. Pending[1].type \in ErrorTypes
      BY <1>3, <1>9
    <3>2. CASE n = 1
      BY <1>8, <2>1, <3>1, <3>2
    <3>3. CASE n # 1
      <4>1. 1 \in 1 .. n - 1 /\ Pending'[1] = Pending[1 + 1]
        BY <1>8, <3>3
      <4> QED BY <1>8, <2>1, <3>1, <3>3, <4>1
    <3> QED BY <3>2, <3>3
  <2> QED BY <2>2, <2>3, <2>4
<1>11. ErrorHasExit'
  BY <1>1, <1>5, <1>9 DEF ErrorHasExit
<1>12. \A T : /\ \A j : IsNewest(Pending', T, j) =>
                    IsNewest(Pending, T, j + 1) /\ Pending'[j] = Pending[j + 1]
              /\ HasNone(Pending', T) => HasNone(Pending, T) \/ IsNewest(Pending, T, 1)
  BY <1>3, <1>4, NewestOfTail
<1>13. \A T : HasNone(Pending, T) => msg.type \notin T
  BY <1>3, <1>8 DEF HasNone
<1>14. \A T : IsNewest(Pending, T, 1) => msg.type \in T
  BY <1>3 DEF IsNewest
<1>15. StatusArrives'
  <2>1. LastStatus' = LastStatus /\ StateOf(LastStatus') = StateOf(LastStatus)
    BY <1>1 DEF LastStatus
  <2>2. SUFFICES ASSUME ~ missedLast, phase # "NONE"
                 PROVE  /\ \A j : IsNewest(Pending', StatusTypes, j) => Pending'[j].type = LastStatus
                        /\ HasNone(Pending', StatusTypes) => suit_state' \in {StateOf(LastStatus), "IDLE"}
    BY <1>1, <2>1 DEF StatusArrives
  <2>3. /\ \A j : IsNewest(Pending, StatusTypes, j) => Pending[j].type = LastStatus
        /\ HasNone(Pending, StatusTypes) => suit_state \in {StateOf(LastStatus), "IDLE"}
    BY <2>2 DEF CoapInv, StatusArrives
  <2>4. ASSUME NEW j, IsNewest(Pending', StatusTypes, j) PROVE Pending'[j].type = LastStatus
    <3>1. IsNewest(Pending, StatusTypes, j + 1) /\ Pending'[j] = Pending[j + 1]
      BY <1>12, <2>4, Zenon
    <3>2. Pending[j + 1].type = LastStatus
      BY <2>3, <3>1, Zenon
    <3> QED BY <3>1, <3>2
  <2>5. ASSUME HasNone(Pending', StatusTypes)
        PROVE  suit_state' \in {StateOf(LastStatus), "IDLE"}
    <3>1. CASE HasNone(Pending, StatusTypes)
      BY <1>5, <1>13, <2>3, <3>1
    <3>2. CASE IsNewest(Pending, StatusTypes, 1)
      <4>1. msg.type \in StatusTypes /\ Pending[1].type = LastStatus
        BY <1>14, <2>3, <3>2, Zenon
      <4> QED BY <1>3, <1>5, <4>1
    <3> QED BY <1>12, <2>5, <3>1, <3>2, Zenon
  <2> QED BY <2>4, <2>5
<1>16. SizeArrives'
  <2>1. UNCHANGED <<missedStart, size>>
    BY <1>1
  <2>2. SUFFICES ASSUME ~ missedStart
                 PROVE  /\ \A j : IsNewest(Pending', Starts, j) => Pending'[j].value = size
                        /\ HasNone(Pending', Starts) => fw_size' = size
    BY <2>1 DEF SizeArrives
  <2>3. /\ \A j : IsNewest(Pending, Starts, j) => Pending[j].value = size
        /\ HasNone(Pending, Starts) => fw_size = size
    BY <2>2 DEF CoapInv, SizeArrives
  <2>4. ASSUME NEW j, IsNewest(Pending', Starts, j) PROVE Pending'[j].value = size
    <3>1. IsNewest(Pending, Starts, j + 1) /\ Pending'[j] = Pending[j + 1]
      BY <1>12, <2>4, Zenon
    <3>2. Pending[j + 1].value = size
      BY <2>3, <3>1, Zenon
    <3> QED BY <3>1, <3>2
  <2>5. ASSUME HasNone(Pending', Starts) PROVE fw_size' = size
    <3>1. CASE HasNone(Pending, Starts)
      BY <1>5, <1>13, <2>3, <3>1 DEF Starts
    <3>2. CASE IsNewest(Pending, Starts, 1)
      <4>1. msg.type \in Starts /\ Pending[1].value = size
        BY <1>14, <2>3, <3>2, Zenon
      <4> QED BY <1>3, <1>5, <4>1 DEF Starts
    <3> QED BY <1>12, <2>5, <3>1, <3>2, Zenon
  <2> QED BY <2>4, <2>5
<1>17. ~ missedStart' => ReportsFit(Pending, fw_size)'
  <2> SUFFICES ASSUME ~ missedStart PROVE ReportsFit(Pending', fw_size')
    BY <1>1
  <2>1. ReportsFit(Pending, fw_size)
    BY DEF CoapInv
  <2>2. /\ Pending[1].type = "DOWNLOAD_START" => fw_size' = Pending[1].value
        /\ Pending[1].type # "DOWNLOAD_START" => fw_size' = fw_size
    BY <1>3, <1>5
  <2>3. ReportsFit(Tail(Pending), fw_size')
    BY <1>3, <1>4, <2>1, <2>2, FitsTail, Zenon
  <2> QED BY <1>3, <2>3
<1> QED BY <1>7, <1>10, <1>11, <1>15, <1>16, <1>17 DEF CoapInv

\* The steps that leave the pending messages and the status alone.
LEMMA CoapKept ==
  ASSUME CoapInv, Register \/ Receive \/ PostReturns \/ UNCHANGED vars
  PROVE  CoapInv'
<1>1. Channel(Sent)
  BY DEF CoapInv, CoapTypes
<1>2. Channel(Sent)' /\ Pending' = Pending
  <2>1. CASE Register \/ PostReturns
    BY <1>1, <2>1, PendingKept DEF Register, PostReturns
  <2>2. CASE Receive
    BY <1>1, <2>2, PendingReceive DEF Receive
  <2>3. CASE UNCHANGED vars
    BY <1>1, <2>3 DEF vars, threadVars, Channel, Pending, InHand
  <2> QED BY <2>1, <2>2, <2>3
<1>3. /\ UNCHANGED <<suit_state, fw_size, count, armed, missedLast, missedStart, refused>>
      /\ UNCHANGED <<phase, size, written>>
      /\ thread' = "boot" => thread = "boot"
      /\ thread' \in {"boot", "loop", "blocked", "got", "post"}
  BY DEF Register, Receive, PostReturns, MsgReceive, vars, threadVars, suitVars, histVars,
         missedVars, workerVars, CoapInv, CoapTypes
<1>4. LastStatus' = LastStatus /\ StateOf(LastStatus') = StateOf(LastStatus)
  BY <1>3 DEF LastStatus
<1>5. CoapTypes'
  BY <1>2, <1>3 DEF CoapInv, CoapTypes, WorkerTypeOK
<1>6. ErrorIsFollowed' /\ ErrorHasExit'
  BY <1>2, <1>3 DEF CoapInv, ErrorIsFollowed, ErrorHasExit
<1>7. StatusArrives' /\ SizeArrives'
  BY <1>2, <1>3, <1>4 DEF CoapInv, StatusArrives, SizeArrives
<1>8. ~ missedStart' => ReportsFit(Pending, fw_size)'
  BY <1>2, <1>3 DEF CoapInv, ReportsFit
<1> QED BY <1>5, <1>6, <1>7, <1>8 DEF CoapInv

\* Every step keeps the invariant.
LEMMA CoapStep ==
  ASSUME CoapInv, [Next]_vars
  PROVE  CoapInv'
<1>1. ASSUME NEW type \in NotifyTypes, NEW value \in Values, WorkerNotifies(type, value)
      PROVE  CoapInv'
  BY <1>1, CoapNotified
<1>2. CASE TimerFires
  BY <1>2, CoapTimerFires
<1>3. CASE DeviceReboots
  <2>1. Init'
    BY <1>3 DEF DeviceReboots, ListenerRestarts, WorkerRestarts, Init, ListenerInit, WorkerInit
  <2>2. Init' => CoapInv'
    BY CoapInit, PTL
  <2> QED BY <2>1, <2>2
<1>4. CASE Handles
  BY <1>4, CoapHandled
<1>5. CASE Register \/ Receive \/ PostReturns \/ UNCHANGED vars
  BY <1>5, CoapKept
<1> QED BY <1>1, <1>2, <1>3, <1>4, <1>5 DEF Next, Worker, ThreadStep

\* The invariant holds in every state.
LEMMA CoapInvHolds == Spec => []CoapInv
BY CoapInit, CoapStep, PTL DEF Spec

-----------------------------------------------------------------------------
(* Theorems.                                                               *)

\* modules/coap_suit: for every queue length, report cycle and set of sizes, the
\* thread, its messages and the status are well-typed.
THEOREM TypeCorrect == Spec => []TypeOK
<1>1. CoapInv => TypeOK
  BY TypesAreTypeOK DEF CoapInv
<1> QED BY <1>1, CoapInvHolds, PTL

\* coap_suit.c:132, :137, :145, :169: for every queue length, an error status is on
\* its way out, even when the full queue has refused the timer's SUIT_IDLE.
THEOREM ErrorsHaveExit == Spec => []ErrorHasExit
<1>1. CoapInv => ErrorHasExit
  BY DEF CoapInv
<1> QED BY <1>1, CoapInvHolds, PTL

\* coap_suit.c:122-173: for every queue length, a thread that has caught up reports
\* the worker's last status, or idle, unless that very notification was lost.
THEOREM StatusFollows == Spec => []StatusFollowsUpdate
<1>1. CoapInv => StatusFollowsUpdate
  <2> SUFFICES ASSUME CoapInv, thread = "blocked", phase # "NONE", ~ missedLast
               PROVE  suit_state \in {StateOf(LastStatus), "IDLE"}
    BY DEF StatusFollowsUpdate
  <2>1. Pending = <<>>
    BY NothingPending DEF CoapInv, CoapTypes
  <2>2. HasNone(Pending, StatusTypes)
    BY <2>1 DEF HasNone
  <2> QED BY <2>2 DEF CoapInv, StatusArrives
<1> QED BY <1>1, CoapInvHolds, PTL

\* coap_suit.c:159, the division by fw_size: for every queue length and every set of
\* sizes, a report the thread acts on lies within the size it divides by, unless
\* a SUIT_DOWNLOAD_START was lost.
THEOREM ReportsHaveSize == Spec => []ProgressHasSize
<1>1. CoapInv => ProgressHasSize
  <2> SUFFICES ASSUME CoapInv, thread = "got", msg.type = "DOWNLOAD_PROGRESS", ~ missedStart
               PROVE  msg.value \in 1 .. fw_size
    BY DEF ProgressHasSize
  <2>1. Channel(Sent) /\ ReportsFit(Pending, fw_size)
    BY DEF CoapInv, CoapTypes
  <2>2. InHand = <<msg>> /\ msg \in Sent /\ queue \in Seq(Sent)
    BY <2>1 DEF InHand, Channel
  <2>3. Pending[1] = msg /\ 1 \in 1 .. Len(Pending)
    BY <2>2, ConcatProperties DEF Pending
  <2>4. \A k \in 1 .. 1 - 1 : Pending[k].type # "DOWNLOAD_START"
    OBVIOUS
  <2> QED BY <2>1, <2>3, <2>4 DEF ReportsFit
<1> QED BY <1>1, CoapInvHolds, PTL
=============================================================================
