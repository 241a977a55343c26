--------------------------- MODULE SchedRegProofs ---------------------------
(***************************************************************************)
(* Theorems about SchedReg for every set of entries, queue size and        *)
(* registry limit.                                                         *)
(***************************************************************************)
EXTENDS SchedReg, SequenceTheorems, FiniteSetTheorems, TLAPS

-----------------------------------------------------------------------------
(* Type correctness of the whole interface.                                *)

\* What is left of a list when one element is unlinked (LL_DELETE).
LEMMA RemoveAtProperties ==
  ASSUME NEW S, NEW s \in Seq(S), NEW k \in 1 .. Len(s)
  PROVE  /\ RemoveAt(s, k) \in Seq(S)
         /\ Len(RemoveAt(s, k)) = Len(s) - 1
         /\ \A i \in 1 .. k - 1 : RemoveAt(s, k)[i] = s[i]
         /\ \A i \in k .. Len(s) - 1 : RemoveAt(s, k)[i] = s[i + 1]
<1> DEFINE a == SubSeq(s, 1, k - 1)
           b == SubSeq(s, k + 1, Len(s))
<1>1. Len(s) \in Nat /\ \A i \in 1 .. Len(s) : s[i] \in S
  BY LenProperties, ElementOfSeq
<1>2. /\ a \in Seq(S) /\ Len(a) = k - 1
      /\ \A i \in 1 .. k - 1 : a[i] = s[i]
  <2>1. k - 1 \in Int /\ \A i \in 1 .. k - 1 : s[i] \in S
    BY <1>1
  <2>2. /\ a \in Seq(S) /\ Len(a) = IF 1 <= k - 1 THEN k - 1 - 1 + 1 ELSE 0
        /\ \A i \in 1 .. k - 1 - 1 + 1 : a[i] = s[1 + i - 1]
    BY <2>1, SubSeqProperties
  <2> QED BY <2>2, <1>1
<1>3. /\ b \in Seq(S) /\ Len(b) = Len(s) - k
      /\ \A i \in 1 .. Len(s) - k : b[i] = s[k + i]
  <2>1. k + 1 \in Int /\ Len(s) \in Int /\ \A i \in k + 1 .. Len(s) : s[i] \in S
    BY <1>1
  <2>2. /\ b \in Seq(S) /\ Len(b) = IF k + 1 <= Len(s) THEN Len(s) - (k + 1) + 1 ELSE 0
        /\ \A i \in 1 .. Len(s) - (k + 1) + 1 : b[i] = s[k + 1 + i - 1]
    BY <2>1, SubSeqProperties
  <2> QED BY <2>2, <1>1
<1>4. /\ a \o b \in Seq(S) /\ Len(a \o b) = Len(a) + Len(b)
      /\ \A i \in 1 .. Len(a) + Len(b) :
           (a \o b)[i] = IF i <= Len(a) THEN a[i] ELSE b[i - Len(a)]
  BY <1>2, <1>3, ConcatProperties
<1> HIDE DEF a, b
<1>5. ASSUME NEW i \in 1 .. k - 1 PROVE (a \o b)[i] = s[i]
  BY <1>1, <1>2, <1>3, <1>4
<1>6. ASSUME NEW i \in k .. Len(s) - 1 PROVE (a \o b)[i] = s[i + 1]
  <2>1. /\ i \in 1 .. Len(a) + Len(b) /\ ~(i <= Len(a))
        /\ i - Len(a) \in 1 .. Len(s) - k /\ k + (i - Len(a)) = i + 1
    BY <1>1, <1>2, <1>3
  <2> QED BY <2>1, <1>3, <1>4
<1>7. Len(a) + Len(b) = Len(s) - 1
  BY <1>1, <1>2, <1>3
<1> QED BY <1>4, <1>5, <1>6, <1>7 DEF RemoveAt, a, b

\* The message a timer sends leaves the queue and the thread well typed.
LEMMA DeliverTyped ==
  ASSUME TypeOK, NEW m \in Message, Deliver(m)
  PROVE  /\ queue' \in Seq(Message) /\ Len(queue') <= QueueSize
         /\ thread' \in {"blocked", "loop", "got", "cb"}
         /\ msg' \in Message \cup {None}
         /\ thread' = "got" => msg' \in Message
<1>1. m.src \in Entries
  BY DEF Message
<1>2. CASE thread # "blocked" /\ Len(queue) < QueueSize /\ queue' = Append(queue, m)
           /\ UNCHANGED threadVars
  <2>1. queue' \in Seq(Message) /\ Len(queue') = Len(queue) + 1
    BY <1>2, AppendProperties DEF TypeOK
  <2> QED BY <1>2, <2>1, SizesAreNat, LenProperties DEF TypeOK, threadVars
<1> QED BY <1>1, <1>2 DEF Deliver, QueueFull, TypeOK, threadVars

\* The initial types.
LEMMA TypeInit == Init => TypeOK
BY EmptySeq, SizesAreNat DEF Init, TypeOK, Message

\* Every call and every interrupt keeps the types.
LEMMA TypeStep == TypeOK /\ [Next]_vars => TypeOK'
<1> SUFFICES ASSUME TypeOK, [Next]_vars PROVE TypeOK'
  OBVIOUS
<1> USE DEF TypeOK
<1>l. Len(schedreg) \in Nat /\ \A i \in 1 .. Len(schedreg) : schedreg[i] \in Entries
  BY LenProperties, ElementOfSeq
<1>1. ASSUME NEW e \in Entries, TimerFires(e) PROVE TypeOK'
  <2>1. [type |-> msgType[e], src |-> e] \in Message
    BY DEF Message
  <2>2. Deliver([type |-> msgType[e], src |-> e])
    BY <1>1 DEF TimerFires
  <2>3. /\ queue' \in Seq(Message) /\ Len(queue') <= QueueSize
        /\ thread' \in {"blocked", "loop", "got", "cb"}
        /\ msg' \in Message \cup {None}
        /\ thread' = "got" => msg' \in Message
    BY <2>1, <2>2, DeliverTyped
  <2>4. /\ armed' = armed \ {e} /\ lost' \subseteq Entries
        /\ UNCHANGED <<schedreg, msgType, main, entry, count>>
    BY <1>1 DEF TimerFires, mainVars
  <2> QED BY <2>3, <2>4
<1>2. CASE Receive
  <2>1. CASE queue # <<>> /\ msg' = Head(queue) /\ queue' = Tail(queue)
    <3>1. Head(queue) \in Message /\ Tail(queue) \in Seq(Message)
          /\ Len(Tail(queue)) = Len(queue) - 1 /\ Len(queue) \in Nat
      BY <2>1, HeadTailProperties, LenProperties
    <3>2. Len(queue') <= QueueSize
      BY <2>1, <3>1, SizesAreNat
    <3>3. thread' = "got" /\ UNCHANGED <<schedreg, msgType, armed, main, entry, count, lost>>
      BY <1>2, <2>1 DEF Receive, MsgReceive, mainVars
    <3> QED BY <2>1, <3>1, <3>2, <3>3
  <2>2. CASE queue = <<>> /\ UNCHANGED <<msg, queue>>
    BY <1>2, <2>2 DEF Receive, MsgReceive, mainVars
  <2> QED BY <1>2, <2>1, <2>2 DEF Receive, MsgReceive
<1>3. CASE ThreadResched
  <2>1. Index(msg) \in Nat /\ Index(msg) + 1 \in 1 .. Len(schedreg)
    BY <1>3, <1>l, SizesAreNat DEF ThreadResched, HasNth, Index, Message
  <2> QED BY <1>3, <1>l, <2>1 DEF ThreadResched, SetNthTimer, mainVars
<1>4. CASE ThreadSkip
  BY <1>4 DEF ThreadSkip, mainVars
<1>5. CASE CallbackReturns
  BY <1>5 DEF CallbackReturns, mainVars
<1>6. ASSUME NEW e \in Entries, RegisterBegin(e) PROVE TypeOK'
  BY <1>6, <1>l, SizesAreNat DEF RegisterBegin, threadVars
<1>7. CASE RegisterAppend
  <2>1. /\ schedreg' = Append(schedreg, entry) /\ entry \in Entries
        /\ main' = "resched" /\ Len(schedreg) < RegistryMax
    BY <1>7 DEF RegisterAppend
  <2>2. schedreg' \in Seq(Entries) /\ Len(schedreg') = Len(schedreg) + 1
    BY <2>1, AppendProperties
  <2> QED BY <1>7, <1>l, <2>1, <2>2, SizesAreNat DEF RegisterAppend, threadVars
<1>8. CASE RegisterResched
  <2>1. count + 1 \in 1 .. Len(schedreg)
    BY <1>8, <1>l DEF RegisterResched, HasNth
  <2> QED BY <1>8, <1>l, <2>1 DEF RegisterResched, SetNthTimer, threadVars
<1>9. CASE RegisterReturns
  BY <1>9 DEF RegisterReturns, threadVars
<1>10. ASSUME NEW e \in Entries, Unregister(e) PROVE TypeOK'
  <2>1. schedreg' \in Seq(Entries) /\ Len(schedreg') = Len(schedreg) - 1
    BY <1>10, RemoveAtProperties, LenProperties DEF Unregister
  <2> QED BY <1>10, <1>l, <2>1, SizesAreNat DEF Unregister, threadVars
<1>11. CASE UpdateEntry
  <2>1. count + 1 \in 1 .. Len(schedreg) /\ TypeBase + count \in Nat
    BY <1>11, <1>l, SizesAreNat DEF UpdateEntry
  <2> QED BY <1>11, <1>l, <2>1 DEF UpdateEntry, threadVars
<1>12. CASE UnregisterReturns
  BY <1>12 DEF UnregisterReturns, threadVars
<1>13. CASE UNCHANGED vars
  BY <1>13 DEF vars
<1> QED BY <1>1, <1>2, <1>3, <1>4, <1>5, <1>6, <1>7, <1>8, <1>9, <1>10, <1>11,
           <1>12, <1>13
        DEF Next, StaticNext, Timers, ThreadStep, Registration, Unregistration

\* TypeOK is an invariant of every use of the interface, unregistering included.
THEOREM TypeCorrect == Spec => []TypeOK
BY TypeInit, TypeStep, PTL DEF Spec

-----------------------------------------------------------------------------
(* Positions and message types, unregistering included.                    *)

\* TypesMatchPositions is not inductive: renumbering one entry leaves the others'
\* types alone only if no entry is in the list twice, and between the two assignments
\* of schedreg_register the entry about to be appended already has its type.
ListInv ==
  /\ \A i, j \in 1 .. Len(schedreg) : schedreg[i] = schedreg[j] => i = j
  /\ TypesMatchPositions
  /\ main = "append" =>
       /\ \A i \in 1 .. Len(schedreg) : schedreg[i] # entry
       /\ msgType[entry] = TypeBase + Len(schedreg)

\* Neither a timer nor the schedreg thread touches what ListInv speaks of.
LEMMA ListUntouched ==
  ASSUME Timers \/ ThreadStep
  PROVE  UNCHANGED <<schedreg, msgType, main, entry, count>>
BY DEF Timers, ThreadStep, TimerFires, Receive, MsgReceive, ThreadResched, ThreadSkip,
       CallbackReturns, mainVars

\* The empty list is in order.
LEMMA ListInit == Init => ListInv
BY EmptySeq DEF Init, ListInv, TypesMatchPositions

\* Every call keeps the list in order.
LEMMA ListStep == TypeOK /\ ListInv /\ [Next]_vars => ListInv'
<1> SUFFICES ASSUME TypeOK, ListInv, [Next]_vars PROVE ListInv'
  OBVIOUS
<1>l. /\ Len(schedreg) \in Nat /\ DOMAIN schedreg = 1 .. Len(schedreg)
      /\ \A i \in 1 .. Len(schedreg) : schedreg[i] \in Entries
  BY LenProperties, ElementOfSeq DEF TypeOK
<1>1. CASE Timers \/ ThreadStep
  BY <1>1, ListUntouched DEF ListInv, TypesMatchPositions
<1>2. ASSUME NEW e \in Entries, RegisterBegin(e) PROVE ListInv'
  <2>1. \A i \in 1 .. Len(schedreg) : schedreg[i] # e
    BY <1>2, <1>l DEF RegisterBegin, Range
  <2>2. msgType' = [msgType EXCEPT ![e] = TypeBase + Len(schedreg)]
        /\ schedreg' = schedreg /\ main' = "append" /\ main = "idle" /\ entry' = e
    BY <1>2 DEF RegisterBegin
  <2> QED BY <2>1, <2>2, <1>l DEF ListInv, TypesMatchPositions, TypeOK
<1>3. CASE RegisterAppend
  <2>1. /\ main = "append" /\ main' = "resched" /\ UNCHANGED <<msgType, entry>>
        /\ schedreg' = Append(schedreg, entry) /\ entry \in Entries
    BY <1>3 DEF RegisterAppend, TypeOK
  <2>2. /\ Len(schedreg') = Len(schedreg) + 1
        /\ \A i \in 1 .. Len(schedreg) : schedreg'[i] = schedreg[i]
        /\ schedreg'[Len(schedreg) + 1] = entry
    BY <2>1, AppendProperties DEF TypeOK
  <2>3. ASSUME NEW i \in 1 .. Len(schedreg'), NEW j \in 1 .. Len(schedreg'),
               schedreg'[i] = schedreg'[j]
        PROVE  i = j
    BY <2>1, <2>2, <2>3, <1>l DEF ListInv
  <2>4. ASSUME NEW i \in 1 .. Len(schedreg')
        PROVE  msgType[schedreg'[i]] = TypeBase + (i - 1)
    <3>1. CASE i = Len(schedreg) + 1
      BY <2>1, <2>2, <3>1, <1>l DEF ListInv
    <3>2. CASE i # Len(schedreg) + 1
      <4>1. i \in 1 .. Len(schedreg) /\ schedreg'[i] = schedreg[i]
        BY <2>2, <3>2, <1>l
      <4> QED BY <2>1, <4>1 DEF ListInv, TypesMatchPositions
    <3> QED BY <3>1, <3>2
  <2> QED BY <2>1, <2>3, <2>4 DEF ListInv, TypesMatchPositions
<1>4. CASE RegisterResched
  BY <1>4 DEF RegisterResched, ListInv, TypesMatchPositions
<1>5. CASE RegisterReturns
  BY <1>5 DEF RegisterReturns, ListInv, TypesMatchPositions
<1>6. ASSUME NEW e \in Entries, Unregister(e) PROVE ListInv'
  <2>1. /\ main' = "update" /\ count' = 0
        /\ \E k \in 1 .. Len(schedreg) : schedreg' = RemoveAt(schedreg, k)
    BY <1>6, <1>l DEF Unregister
  <2>2. PICK k \in 1 .. Len(schedreg) : schedreg' = RemoveAt(schedreg, k)
    BY <2>1
  <2>3. /\ Len(schedreg') = Len(schedreg) - 1
        /\ \A i \in 1 .. k - 1 : schedreg'[i] = schedreg[i]
        /\ \A i \in k .. Len(schedreg) - 1 : schedreg'[i] = schedreg[i + 1]
    BY <2>2, RemoveAtProperties DEF TypeOK
  <2>4. ASSUME NEW i \in 1 .. Len(schedreg'), NEW j \in 1 .. Len(schedreg'),
               schedreg'[i] = schedreg'[j]
        PROVE  i = j
    <3> DEFINE old(n) == IF n < k THEN n ELSE n + 1
    <3>1. \A n \in 1 .. Len(schedreg') :
            old(n) \in 1 .. Len(schedreg) /\ schedreg'[n] = schedreg[old(n)]
      <4> TAKE n \in 1 .. Len(schedreg')
      <4>1. CASE n < k
        BY <4>1, <2>3, <1>l
      <4>2. CASE ~(n < k)
        BY <4>2, <2>3, <1>l
      <4> QED BY <4>1, <4>2
    <3>2. old(i) = old(j)
      BY <2>4, <3>1 DEF ListInv
    <3> QED BY <3>2, <2>3, <1>l
  <2>5. ASSUME NEW i \in 1 .. Len(schedreg')
        PROVE  i > count' /\ msgType[schedreg'[i]] \in {TypeBase + (i - 1), TypeBase + i}
    <3>1. \A j \in 1 .. Len(schedreg) : msgType[schedreg[j]] = TypeBase + (j - 1)
      BY <1>6 DEF Unregister, ListInv, TypesMatchPositions
    <3>2. CASE i < k
      BY <2>1, <2>3, <3>1, <3>2, <1>l
    <3>3. CASE ~(i < k)
      <4>1. i + 1 \in 1 .. Len(schedreg) /\ schedreg'[i] = schedreg[i + 1]
        BY <2>3, <3>3, <1>l
      <4> QED BY <2>1, <3>1, <4>1, <1>l
    <3> QED BY <3>2, <3>3
  <2>6. UNCHANGED msgType
    BY <1>6 DEF Unregister
  <2> QED BY <2>1, <2>4, <2>5, <2>6 DEF ListInv, TypesMatchPositions
<1>7. CASE UpdateEntry
  <2>1. /\ main = "update" /\ count + 1 \in 1 .. Len(schedreg)
        /\ msgType' = [msgType EXCEPT ![schedreg[count + 1]] = TypeBase + count]
        /\ count' = count + 1 /\ UNCHANGED <<schedreg, main, entry>>
    BY <1>7, <1>l DEF UpdateEntry, TypeOK
  <2>2. ASSUME NEW i \in 1 .. Len(schedreg)
        PROVE  \/ msgType'[schedreg[i]] = TypeBase + (i - 1)
               \/ i > count + 1 /\ msgType'[schedreg[i]] = TypeBase + i
    <3>1. CASE i = count + 1
      BY <3>1, <2>1, <1>l DEF TypeOK
    <3>2. CASE i # count + 1
      <4>1. schedreg[i] # schedreg[count + 1]
        BY <3>2, <2>1 DEF ListInv
      <4>2. msgType'[schedreg[i]] = msgType[schedreg[i]]
        BY <4>1, <2>1, <1>l DEF TypeOK
      <4> QED BY <3>2, <4>2, <2>1 DEF ListInv, TypesMatchPositions, TypeOK
    <3> QED BY <3>1, <3>2
  <2> QED BY <2>1, <2>2 DEF ListInv, TypesMatchPositions
<1>8. CASE UnregisterReturns
  <2>1. /\ main = "update" /\ main' = "idle" /\ count >= Len(schedreg)
        /\ UNCHANGED <<schedreg, msgType, entry>>
    BY <1>8 DEF UnregisterReturns
  <2> QED BY <2>1, <1>l DEF ListInv, TypesMatchPositions, TypeOK
<1>9. CASE UNCHANGED vars
  BY <1>9 DEF vars, ListInv, TypesMatchPositions
<1> QED BY <1>1, <1>2, <1>3, <1>4, <1>5, <1>6, <1>7, <1>8, <1>9
        DEF Next, StaticNext, Registration, Unregistration

\* The list holds no entry twice and its numbering is kept by every step.
THEOREM ListInvariant == Spec => []ListInv
BY ListInit, ListStep, TypeCorrect, PTL DEF Spec

\* Every registered entry's message has the entry's position as its type, or the one
\* before the unregistration that is still renumbering, whatever the order of calls
\* and wherever _schedreg_update is interrupted.
THEOREM TypesMatch == Spec => []TypesMatchPositions
<1>1. ListInv => TypesMatchPositions
  BY DEF ListInv
<1> QED BY <1>1, ListInvariant, PTL

-----------------------------------------------------------------------------
(* How the pending messages change.                                        *)

\* Pending is a sequence of messages.
LEMMA PendingTyped ==
  ASSUME TypeOK
  PROVE  /\ Pending \in Seq(Message) /\ Len(Pending) \in Nat
         /\ DOMAIN Pending = 1 .. Len(Pending)
         /\ \A i \in 1 .. Len(Pending) : Pending[i] \in Message /\ Pending[i].src \in Entries
<1>1. InHand \in Seq(Message) /\ queue \in Seq(Message)
  BY DEF InHand, TypeOK
<1>2. Pending \in Seq(Message)
  BY <1>1, ConcatProperties DEF Pending
<1>3. \A m \in Message : m.src \in Entries
  BY DEF Message
<1> QED BY <1>2, <1>3, LenProperties, ElementOfSeq

\* A step that leaves the thread and its queue alone leaves Pending alone.
LEMMA PendingUnchanged ==
  ASSUME UNCHANGED <<thread, msg, queue>>
  PROVE  Pending' = Pending
BY DEF Pending, InHand

\* A sent message goes behind all the pending ones or is refused.  With messages
\* queued the thread is not blocked, so it cannot overtake them.
LEMMA PendingDeliver ==
  ASSUME TypeOK, thread = "blocked" => queue = <<>>, NEW m \in Message, Deliver(m)
  PROVE  /\ thread' = "blocked" => queue' = <<>>
         /\ \/ Pending' = Append(Pending, m) /\ ~ QueueFull
            \/ Pending' = Pending /\ QueueFull
<1>1. CASE thread = "blocked" /\ thread' = "got" /\ msg' = m /\ UNCHANGED queue
  <2>1. Pending = <<>> \o <<>> /\ Pending' = <<m>> \o <<>>
    BY <1>1 DEF Pending, InHand
  <2>2. <<m>> \in Seq(Message) /\ <<>> \in Seq(Message)
    OBVIOUS
  <2>3. Pending = <<>> /\ Pending' = <<m>>
    BY <2>1, <2>2, ConcatEmptySeq
  <2>4. ~ QueueFull
    BY <1>1 DEF QueueFull
  <2> QED BY <1>1, <2>3, <2>4
<1>2. CASE /\ thread # "blocked" /\ Len(queue) < QueueSize
           /\ queue' = Append(queue, m) /\ UNCHANGED threadVars
  <2>1. InHand \in Seq(Message) /\ queue \in Seq(Message) /\ <<m>> \in Seq(Message)
    BY DEF InHand, TypeOK
  <2>2. InHand \o Append(queue, m) = Append(InHand \o queue, m)
    BY <2>1, AppendIsConcat, ConcatAssociative, ConcatProperties
  <2>3. InHand' = InHand /\ thread' = thread
    BY <1>2 DEF InHand, threadVars
  <2>4. ~ QueueFull
    <3>1. Len(queue) \in Nat
      BY LenProperties DEF TypeOK
    <3> QED BY <1>2, <3>1, SizesAreNat DEF QueueFull
  <2>5. Pending' = Append(Pending, m)
    BY <1>2, <2>2, <2>3 DEF Pending
  <2> QED BY <1>2, <2>3, <2>4, <2>5
<1>3. CASE QueueFull /\ UNCHANGED <<threadVars, queue>>
  BY <1>3 DEF Pending, InHand, threadVars
<1> QED BY <1>1, <1>2, <1>3 DEF Deliver, QueueFull

\* msg_receive keeps the order of the pending messages.
LEMMA PendingReceive ==
  ASSUME TypeOK, Receive
  PROVE  Pending' = Pending /\ (thread' = "blocked" => queue' = <<>>)
<1>1. InHand = <<>> /\ Pending = queue
  BY ConcatEmptySeq DEF Receive, MsgReceive, InHand, Pending, TypeOK
<1>2. CASE queue # <<>> /\ msg' = Head(queue) /\ queue' = Tail(queue) /\ thread' = "got"
  <2>1. Head(queue) \in Message /\ Tail(queue) \in Seq(Message)
    BY <1>2, HeadTailProperties DEF TypeOK
  <2>2. <<Head(queue)>> \o Tail(queue) = queue
    BY <1>2, <2>1 DEF TypeOK
  <2>3. InHand' = <<Head(queue)>>
    BY <1>2 DEF InHand
  <2> QED BY <1>1, <1>2, <2>2, <2>3 DEF Pending
<1>3. CASE queue = <<>> /\ thread' = "blocked" /\ UNCHANGED <<msg, queue>>
  <2>1. InHand' = <<>> /\ queue' = <<>>
    BY <1>3 DEF InHand
  <2> QED BY <1>1, <1>3, <2>1 DEF Pending, InHand
<1> QED BY <1>2, <1>3 DEF Receive, MsgReceive

\* Acting on a message removes the oldest pending one.
LEMMA PendingHandled ==
  ASSUME TypeOK, thread = "got", thread' # "got", UNCHANGED queue
  PROVE  /\ Len(Pending) > 0 /\ Pending[1] = msg
         /\ Len(Pending') = Len(Pending) - 1 /\ DOMAIN Pending' = 1 .. Len(Pending) - 1
         /\ \A i \in 1 .. Len(Pending) - 1 : Pending'[i] = Pending[i + 1]
<1>1. InHand = <<msg>> /\ InHand' = <<>> /\ msg \in Message
  BY DEF InHand, TypeOK
<1>2. <<msg>> \in Seq(Message) /\ queue \in Seq(Message) /\ Len(queue) \in Nat
  BY <1>1, LenProperties DEF TypeOK
<1>3. /\ Len(<<msg>> \o queue) = 1 + Len(queue)
      /\ \A i \in 1 .. 1 + Len(queue) :
           (<<msg>> \o queue)[i] = IF i <= 1 THEN <<msg>>[i] ELSE queue[i - 1]
  BY <1>2, ConcatProperties
<1>4. Pending = <<msg>> \o queue /\ Pending' = queue
  BY <1>1, <1>2, ConcatEmptySeq DEF Pending
<1>5. DOMAIN queue = 1 .. Len(queue)
  BY <1>2, LenProperties
<1> QED BY <1>2, <1>3, <1>4, <1>5

-----------------------------------------------------------------------------
(* Clients that never unregister: one token per entry, routed to it.       *)

\* The inductive invariant.  Registered entries never move, so a type sent
\* earlier still names its sender; the entry being scheduled by
\* schedreg_register has neither a timer nor a message yet.
TokenInv ==
  /\ main # "update"
  /\ thread = "blocked" => queue = <<>>
  /\ RoutedToSender
  /\ OneTokenPerEntry
  /\ armed \subseteq Range(schedreg)
  /\ main = "append" => count = Len(schedreg)
  /\ main = "resched" =>
       /\ Len(schedreg) = count + 1 /\ schedreg[count + 1] = entry
       /\ entry \notin armed \cup Due

\* A use that never unregisters is a use.
LEMMA StaticIsSpec == StaticSpec => Spec
<1>1. [StaticNext]_vars => [Next]_vars
  BY DEF Next
<1> QED BY <1>1, PTL DEF StaticSpec, Spec

\* RoutedToSender, element by element.
LEMMA Routing ==
  ASSUME TypeOK, RoutedToSender
  PROVE  \A i \in 1 .. Len(Pending) :
           /\ Index(Pending[i]) + 1 \in 1 .. Len(schedreg)
           /\ schedreg[Index(Pending[i]) + 1] = Pending[i].src
           /\ Pending[i].src \in Range(schedreg)
<1>1. Len(schedreg) \in Nat /\ DOMAIN schedreg = 1 .. Len(schedreg)
  BY LenProperties DEF TypeOK
<1>2. \A i \in 1 .. Len(Pending) :
        Index(Pending[i]) \in 0 .. Len(schedreg) - 1
        /\ schedreg[Index(Pending[i]) + 1] = Pending[i].src
  BY PendingTyped DEF RoutedToSender
<1> QED BY <1>1, <1>2 DEF Range

\* The timer of a registered entry expires.
LEMMA TokenTimer ==
  ASSUME TypeOK, ListInv, TokenInv, NEW e \in Entries, TimerFires(e)
  PROVE  TokenInv'
<1> DEFINE m == [type |-> msgType[e], src |-> e]
<1>1. /\ m \in Message /\ m.src = e /\ m.type = msgType[e]
      /\ e \in armed /\ Deliver(m) /\ armed' = armed \ {e}
      /\ UNCHANGED <<schedreg, msgType, main, entry, count>>
  BY DEF TimerFires, TypeOK, Message, mainVars
<1> HIDE DEF m
<1>2. PICK k \in 1 .. Len(schedreg) : schedreg[k] = e
  BY <1>1, LenProperties DEF TokenInv, TypeOK, Range
<1>3. Index(m) = k - 1 /\ k \in Nat /\ Len(schedreg) \in Nat
  <2>1. Len(schedreg) \in Nat
    BY LenProperties DEF TypeOK
  <2>2. m.type = TypeBase + (k - 1)
    BY <1>1, <1>2 DEF ListInv, TypesMatchPositions, TokenInv
  <2> QED BY <2>1, <2>2, <1>2, SizesAreNat DEF Index
<1>4. e \notin Due
  BY <1>1 DEF TokenInv, OneTokenPerEntry
<1>5. thread' = "blocked" => queue' = <<>>
  BY <1>1, PendingDeliver DEF TokenInv
<1>6. CASE Pending' = Append(Pending, m)
  <2>1. /\ Len(Pending') = Len(Pending) + 1 /\ DOMAIN Pending' = 1 .. Len(Pending) + 1
        /\ \A i \in 1 .. Len(Pending) : Pending'[i] = Pending[i]
        /\ Pending'[Len(Pending) + 1] = m
        /\ Len(Pending) \in Nat /\ DOMAIN Pending = 1 .. Len(Pending)
    BY <1>1, <1>6, PendingTyped, AppendProperties, LenProperties
  <2>2. RoutedToSender'
    <3> SUFFICES ASSUME NEW i \in DOMAIN Pending'
                 PROVE  /\ Index(Pending'[i]) \in 0 .. Len(schedreg) - 1
                        /\ schedreg[Index(Pending'[i]) + 1] = Pending'[i].src
      BY <1>1 DEF RoutedToSender, Index
    <3>1. CASE i = Len(Pending) + 1
      BY <3>1, <2>1, <1>1, <1>2, <1>3
    <3>2. CASE i \in DOMAIN Pending
      BY <3>2, <2>1 DEF TokenInv, RoutedToSender
    <3> QED BY <3>1, <3>2, <2>1
  <2>3. Due' = Due \cup {e}
    BY <2>1, <1>1 DEF Due
  <2>4. OneTokenPerEntry'
    <3>1. armed' \cap Due' = {}
      BY <1>1, <2>3 DEF TokenInv, OneTokenPerEntry
    <3>2. ASSUME NEW i \in DOMAIN Pending', NEW j \in DOMAIN Pending',
                 Pending'[i].src = Pending'[j].src
          PROVE  i = j
      <4>1. \A n \in DOMAIN Pending : Pending[n].src # e
        BY <1>4 DEF Due
      <4>2. CASE i \in DOMAIN Pending /\ j \in DOMAIN Pending
        BY <4>2, <3>2, <2>1 DEF TokenInv, OneTokenPerEntry
      <4>3. CASE i = Len(Pending) + 1 /\ j \in DOMAIN Pending
        BY <4>1, <4>3, <3>2, <2>1, <1>1
      <4>4. CASE j = Len(Pending) + 1 /\ i \in DOMAIN Pending
        BY <4>1, <4>4, <3>2, <2>1, <1>1
      <4>5. CASE i = Len(Pending) + 1 /\ j = Len(Pending) + 1
        BY <4>5
      <4> QED BY <4>2, <4>3, <4>4, <4>5, <2>1
    <3> QED BY <3>1, <3>2 DEF OneTokenPerEntry
  <2> QED BY <1>1, <1>5, <2>2, <2>3, <2>4 DEF TokenInv
<1>7. CASE Pending' = Pending
  <2>1. RoutedToSender' /\ Due' = Due
    BY <1>1, <1>7 DEF TokenInv, RoutedToSender, Index, Due
  <2>2. OneTokenPerEntry'
    BY <1>1, <1>7, <2>1 DEF TokenInv, OneTokenPerEntry
  <2> QED BY <1>1, <1>5, <2>1, <2>2 DEF TokenInv
<1> QED BY <1>1, <1>6, <1>7, PendingDeliver DEF TokenInv

\* The message in hand names the entry it was sent for; acting on it swaps the
\* entry's pending message for its timer.
LEMMA HandledRouted ==
  ASSUME TypeOK, TokenInv, thread = "got"
  PROVE  /\ msg.type >= TypeBase /\ HasNth(Index(msg))
         /\ schedreg[Index(msg) + 1] = msg.src /\ msg.src \in Due /\ msg.src \in Entries
<1>1. Len(Pending) > 0 /\ Pending[1] = msg
  <2>1. InHand = <<msg>> /\ <<msg>> \in Seq(Message) /\ queue \in Seq(Message)
    BY DEF InHand, TypeOK
  <2> QED BY <2>1, ConcatProperties, LenProperties DEF Pending
<1>2. 1 \in DOMAIN Pending /\ msg \in Message
  BY <1>1, PendingTyped DEF TypeOK
<1>3. Index(msg) + 1 \in 1 .. Len(schedreg) /\ schedreg[Index(msg) + 1] = msg.src
  BY <1>1, <1>2, PendingTyped, Routing DEF TokenInv
<1>4. msg.type \in Nat /\ msg.src \in Entries /\ Len(schedreg) \in Nat
  BY <1>2, LenProperties DEF Message, TypeOK
<1> QED BY <1>1, <1>2, <1>3, <1>4, SizesAreNat DEF Index, HasNth, Due

\* What is due once the message in hand is handled.
LEMMA DueHandled ==
  ASSUME TypeOK, TokenInv, thread = "got", thread' # "got", UNCHANGED queue
  PROVE  Due' = Due \ {msg.src}
<1>1. /\ Len(Pending) > 0 /\ Pending[1] = msg
      /\ Len(Pending') = Len(Pending) - 1
      /\ \A i \in 1 .. Len(Pending) - 1 : Pending'[i] = Pending[i + 1]
  BY PendingHandled
<1>2. Len(Pending) \in Nat /\ DOMAIN Pending = 1 .. Len(Pending)
  BY PendingTyped
<1>3. DOMAIN Pending' = 1 .. Len(Pending) - 1
  BY PendingHandled
<1>4. \A i, j \in DOMAIN Pending : Pending[i].src = Pending[j].src => i = j
  BY DEF TokenInv, OneTokenPerEntry
<1>5. ASSUME NEW d \in Due, d # msg.src PROVE d \in Due'
  <2>1. PICK i \in DOMAIN Pending : d = Pending[i].src
    BY <1>5 DEF Due
  <2>2. i - 1 \in 1 .. Len(Pending) - 1 /\ Pending'[i - 1] = Pending[i]
    BY <2>1, <1>1, <1>2, <1>5
  <2> QED BY <2>1, <2>2, <1>3 DEF Due
<1>6. ASSUME NEW d \in Due' PROVE d \in Due /\ d # msg.src
  <2>1. PICK i \in 1 .. Len(Pending) - 1 : d = Pending'[i].src
    BY <1>3 DEF Due
  <2>2. i + 1 \in DOMAIN Pending /\ i + 1 # 1 /\ 1 \in DOMAIN Pending /\ d = Pending[i + 1].src
    BY <2>1, <1>1, <1>2
  <2> QED BY <2>2, <1>1, <1>4 DEF Due
<1> QED BY <1>5, <1>6

\* The thread acts on the message in hand.
LEMMA TokenResched ==
  ASSUME TypeOK, TokenInv, ThreadResched
  PROVE  TokenInv'
<1>1. /\ thread = "got" /\ thread' = "cb"
      /\ armed' = armed \cup {schedreg[Index(msg) + 1]}
      /\ UNCHANGED <<queue, schedreg, msgType, main, entry, count>>
  BY DEF ThreadResched, SetNthTimer, mainVars
<1>2. schedreg[Index(msg) + 1] = msg.src /\ msg.src \in Due /\ msg.src \in Range(schedreg)
  <2>1. msg.src \in Due /\ schedreg[Index(msg) + 1] = msg.src
    BY <1>1, HandledRouted
  <2>2. \A d \in Due : d \in Range(schedreg)
    BY PendingTyped, Routing DEF Due, TokenInv
  <2> QED BY <2>1, <2>2
<1>3. Due' = Due \ {msg.src}
  BY <1>1, DueHandled
<1>4. /\ Len(Pending') = Len(Pending) - 1 /\ DOMAIN Pending' = 1 .. Len(Pending) - 1
      /\ \A i \in 1 .. Len(Pending) - 1 : Pending'[i] = Pending[i + 1]
      /\ Len(Pending) \in Nat /\ DOMAIN Pending = 1 .. Len(Pending)
  BY <1>1, PendingHandled, PendingTyped
<1>5. \A i \in DOMAIN Pending' :
        i \in Nat /\ i + 1 \in DOMAIN Pending /\ Pending'[i] = Pending[i + 1]
  BY <1>4
<1>6. RoutedToSender'
  BY <1>1, <1>5 DEF RoutedToSender, TokenInv, Index
<1>7. OneTokenPerEntry'
  <2>1. armed' \cap Due' = {}
    BY <1>1, <1>2, <1>3 DEF OneTokenPerEntry, TokenInv
  <2>2. ASSUME NEW i \in DOMAIN Pending', NEW j \in DOMAIN Pending',
               Pending'[i].src = Pending'[j].src
        PROVE  i = j
    <3>1. i + 1 = j + 1
      BY <2>2, <1>5 DEF OneTokenPerEntry, TokenInv
    <3> QED BY <3>1, <1>5
  <2> QED BY <2>1, <2>2 DEF OneTokenPerEntry
<1>8. main' = "resched" => entry' \notin armed' \cup Due'
  BY <1>1, <1>2, <1>3 DEF TokenInv
<1> QED BY <1>1, <1>2, <1>6, <1>7, <1>8 DEF TokenInv

\* schedreg_register: the new entry gets its first token when it is in the list.
LEMMA TokenRegistration ==
  ASSUME TypeOK, ListInv, TokenInv, Registration
  PROVE  TokenInv'
<1>1. UNCHANGED <<queue, thread, msg>>
  BY DEF Registration, RegisterBegin, RegisterAppend, RegisterResched, RegisterReturns,
         threadVars
<1>2. Pending' = Pending /\ Due' = Due
  BY <1>1, PendingUnchanged DEF Due
<1>3. \A i \in 1 .. Len(Pending) :
         /\ Index(Pending[i]) + 1 \in 1 .. Len(schedreg)
         /\ schedreg[Index(Pending[i]) + 1] = Pending[i].src
         /\ Pending[i].src \in Range(schedreg)
  BY Routing DEF TokenInv
<1>4. Due \subseteq Range(schedreg) /\ Len(schedreg) \in Nat
      /\ DOMAIN schedreg = 1 .. Len(schedreg)
  BY <1>3, PendingTyped, LenProperties DEF Due, TypeOK
<1>5. ASSUME UNCHANGED schedreg PROVE RoutedToSender'
  BY <1>2, <1>5 DEF TokenInv, RoutedToSender, Index
<1>6. ASSUME UNCHANGED armed PROVE OneTokenPerEntry'
  BY <1>2, <1>6 DEF TokenInv, OneTokenPerEntry
<1>7. ASSUME NEW e \in Entries, RegisterBegin(e) PROVE TokenInv'
  BY <1>1, <1>5, <1>6, <1>7 DEF TokenInv, RegisterBegin
<1>8. CASE RegisterAppend
  <2>1. /\ main = "append" /\ main' = "resched" /\ UNCHANGED <<msgType, entry, armed, count>>
        /\ schedreg' = Append(schedreg, entry) /\ entry \in Entries
    BY <1>8 DEF RegisterAppend, TypeOK
  <2>2. /\ Len(schedreg') = Len(schedreg) + 1 /\ DOMAIN schedreg' = 1 .. Len(schedreg) + 1
        /\ \A i \in 1 .. Len(schedreg) : schedreg'[i] = schedreg[i]
        /\ schedreg'[Len(schedreg) + 1] = entry
    BY <2>1, AppendProperties, LenProperties DEF TypeOK
  <2>3. Range(schedreg) \subseteq Range(schedreg') /\ entry \notin Range(schedreg)
    BY <2>1, <2>2, <1>4 DEF Range, ListInv
  <2>4. RoutedToSender'
    <3> SUFFICES ASSUME NEW i \in DOMAIN Pending
                 PROVE  /\ Index(Pending[i]) \in 0 .. Len(schedreg') - 1
                        /\ schedreg'[Index(Pending[i]) + 1] = Pending[i].src
      BY <1>2 DEF RoutedToSender, Index
    <3>1. /\ Index(Pending[i]) + 1 \in 1 .. Len(schedreg)
          /\ schedreg[Index(Pending[i]) + 1] = Pending[i].src
      BY <1>3, PendingTyped
    <3>2. Index(Pending[i]) \in 0 .. Len(schedreg) - 1
      BY DEF TokenInv, RoutedToSender
    <3> QED BY <3>1, <3>2, <2>2, <1>4
  <2>5. entry' \notin armed' \cup Due'
    BY <2>1, <2>3, <1>2, <1>4 DEF TokenInv
  <2>6. armed' \subseteq Range(schedreg')
    BY <2>1, <2>3 DEF TokenInv
  <2>7. Len(schedreg') = count' + 1 /\ schedreg'[count' + 1] = entry'
    BY <2>1, <2>2 DEF TokenInv
  <2> QED BY <1>1, <1>6, <2>1, <2>4, <2>5, <2>6, <2>7 DEF TokenInv
<1>9. CASE RegisterResched
  <2>1. /\ main = "resched" /\ main' = "cb" /\ UNCHANGED schedreg
        /\ armed' = armed \cup {schedreg[count + 1]}
    BY <1>9 DEF RegisterResched, SetNthTimer
  <2>2. entry \notin Due /\ schedreg[count + 1] = entry /\ entry \in Range(schedreg)
    BY <2>1, <1>4 DEF TokenInv, TypeOK, Range
  <2>3. OneTokenPerEntry'
    BY <2>1, <2>2, <1>2 DEF TokenInv, OneTokenPerEntry
  <2> QED BY <1>1, <1>5, <2>1, <2>2, <2>3 DEF TokenInv
<1>10. CASE RegisterReturns
  BY <1>1, <1>5, <1>6, <1>10 DEF TokenInv, RegisterReturns
<1> QED BY <1>7, <1>8, <1>9, <1>10 DEF Registration

\* TokenInv holds of every use that never unregisters.
LEMMA TokenStep ==
  ASSUME TypeOK, ListInv, TokenInv, [StaticNext]_vars
  PROVE  TokenInv'
<1>1. CASE Timers
  BY <1>1, TokenTimer DEF Timers
<1>2. CASE Receive
  <2>1. Pending' = Pending /\ (thread' = "blocked" => queue' = <<>>)
        /\ UNCHANGED <<schedreg, msgType, armed, main, entry, count>>
    BY <1>2, PendingReceive DEF Receive, MsgReceive, mainVars
  <2> QED BY <2>1 DEF TokenInv, RoutedToSender, OneTokenPerEntry, Due, Index
<1>3. CASE ThreadResched
  BY <1>3, TokenResched
<1>4. CASE ThreadSkip
  BY <1>4, HandledRouted DEF ThreadSkip
<1>5. CASE CallbackReturns \/ UNCHANGED vars
  <2>1. Pending' = Pending /\ (thread' = "blocked" => thread = "blocked")
        /\ UNCHANGED <<queue, schedreg, msgType, armed, main, entry, count>>
    BY <1>5 DEF CallbackReturns, vars, Pending, InHand, mainVars
  <2> QED BY <2>1 DEF TokenInv, RoutedToSender, OneTokenPerEntry, Due, Index
<1>6. CASE Registration
  BY <1>6, TokenRegistration
<1> QED BY <1>1, <1>2, <1>3, <1>4, <1>5, <1>6 DEF StaticNext, ThreadStep

\* Before any registration nothing is pending.
LEMMA TokenInit ==
  ASSUME Init
  PROVE  TokenInv
<1>1. Pending = <<>>
  <2>1. InHand = <<>> /\ queue = <<>>
    BY DEF Init, InHand
  <2>2. <<>> \in Seq(Message)
    BY EmptySeq
  <2> QED BY <2>1, <2>2, ConcatEmptySeq DEF Pending
<1>2. DOMAIN Pending = {}
  BY <1>1
<1> QED BY <1>2 DEF TokenInv, Init, RoutedToSender, OneTokenPerEntry, Due

\* The invariant of clients that never unregister.
LEMMA TokenInvariant == StaticSpec => [](TypeOK /\ ListInv /\ TokenInv)
<1>1. TypeOK /\ ListInv /\ TokenInv /\ [StaticNext]_vars => TokenInv'
  BY TokenStep
<1>2. Init => TokenInv
  BY TokenInit
<1> QED BY <1>1, <1>2, StaticIsSpec, TypeCorrect, ListInvariant, PTL DEF StaticSpec

\* For clients that never unregister, every pending message leads the thread to
\* the entry whose timer sent it, whatever the queue size and the interleaving.
THEOREM MessagesAreRouted == StaticSpec => []RoutedToSender
<1>1. TokenInv => RoutedToSender
  BY DEF TokenInv
<1> QED BY <1>1, TokenInvariant, PTL

\* For clients that never unregister, an entry never has two messages, nor a
\* message and a timer: no callback is run twice for one period.
THEOREM OneToken == StaticSpec => []OneTokenPerEntry
<1>1. TokenInv => OneTokenPerEntry
  BY DEF TokenInv
<1> QED BY <1>1, TokenInvariant, PTL

-----------------------------------------------------------------------------
(* When the queue has room for every entry, no message is lost.            *)

EnoughRoom == Cardinality(Entries) <= QueueSize

\* The queued messages come from different entries, none of them the one whose
\* timer is set, so a queue as long as a set S of all entries in use is never
\* full for it.
LEMMA RoomForTimer ==
  ASSUME TypeOK, TokenInv, NEW S, IsFiniteSet(S), Cardinality(S) <= QueueSize,
         armed \cup Due \subseteq S, NEW e \in armed
  PROVE  Len(queue) < QueueSize
<1> DEFINE f == [i \in 1 .. Len(queue) |-> queue[i].src]
           T == S \ {e}
<1>1. Len(queue) \in Nat /\ e \in S /\ queue \in Seq(Message) /\ InHand \in Seq(Message)
  BY LenProperties DEF TypeOK, InHand
<1>2. Len(InHand) \in Nat /\ DOMAIN Pending = 1 .. Len(InHand) + Len(queue)
  BY <1>1, ConcatProperties, LenProperties DEF Pending
<1>3. ASSUME NEW i \in 1 .. Len(queue)
      PROVE  /\ Len(InHand) + i \in DOMAIN Pending
             /\ Pending[Len(InHand) + i] = queue[i]
             /\ queue[i].src \in Due /\ queue[i].src \in S
  <2>1. Len(InHand) + i \in 1 .. Len(InHand) + Len(queue)
        /\ ~(Len(InHand) + i <= Len(InHand)) /\ Len(InHand) + i - Len(InHand) = i
    BY <1>1, <1>2
  <2>2. Pending[Len(InHand) + i] = queue[i]
    BY <1>1, <2>1, ConcatProperties DEF Pending
  <2>3. queue[i] \in Message
    BY <1>1, ElementOfSeq
  <2> QED BY <1>2, <2>1, <2>2, <2>3 DEF Due, Message
<1>4. e \notin Due
  BY DEF TokenInv, OneTokenPerEntry
<1>5. f \in [1 .. Len(queue) -> T]
  BY <1>3, <1>4
<1>6. ASSUME NEW i \in 1 .. Len(queue), NEW j \in 1 .. Len(queue), f[i] = f[j]
      PROVE  i = j
  <2>1. Len(InHand) + i = Len(InHand) + j
    BY <1>3, <1>6 DEF TokenInv, OneTokenPerEntry
  <2> QED BY <2>1, <1>2
<1>7. f \in Injection(1 .. Len(queue), T)
  BY <1>5, <1>6 DEF Injection, IsInjective
<1>8. IsFiniteSet(T) /\ Cardinality(T) = Cardinality(S) - 1
  BY <1>1, FS_RemoveElement
<1> HIDE DEF f, T
<1>9. Cardinality(1 .. Len(queue)) <= Cardinality(T)
  BY <1>7, <1>8, FS_Injection
<1>10. Cardinality(1 .. Len(queue)) = Len(queue)
  <2>1. Len(queue) \in Int /\ 1 \in Int
    BY <1>1
  <2>2. Cardinality(1 .. Len(queue)) = IF 1 > Len(queue) THEN 0 ELSE Len(queue) - 1 + 1
    BY <2>1, FS_Interval, Zenon
  <2> QED BY <1>1, <2>2
<1>11. Cardinality(S) \in Nat
  BY FS_CardinalityType
<1> QED BY <1>1, <1>8, <1>9, <1>10, <1>11, SizesAreNat

\* In particular, a queue as long as the set of all entries.
LEMMA RoomForEntries ==
  ASSUME EnoughRoom, TypeOK, TokenInv, NEW e \in armed
  PROVE  ~ QueueFull
<1>1. armed \cup Due \subseteq Entries
  BY PendingTyped DEF TypeOK, Due
<1>2. Len(queue) < QueueSize
  BY <1>1, EntriesFinite, RoomForTimer DEF EnoughRoom
<1> QED BY <1>2, SizesAreNat, LenProperties DEF QueueFull, TypeOK

\* Only a full queue loses a message, and only a timer's.
LEMMA NothingRefused ==
  ASSUME [StaticNext]_vars, armed # {} => ~ QueueFull
  PROVE  lost' = lost
<1>1. ASSUME NEW e \in Entries, TimerFires(e) PROVE lost' = lost
  BY <1>1 DEF TimerFires
<1>2. CASE ThreadStep
  BY <1>2 DEF ThreadStep, Receive, ThreadResched, ThreadSkip, CallbackReturns
<1>3. CASE Registration \/ UNCHANGED vars
  BY <1>3 DEF Registration, RegisterBegin, RegisterAppend, RegisterResched,
              RegisterReturns, vars
<1> QED BY <1>1, <1>2, <1>3 DEF StaticNext, Timers

\* With as many queue slots as entries, no periodic message is ever refused,
\* however long the callbacks block the thread.
THEOREM NoLoss == ASSUME EnoughRoom PROVE StaticSpec => []NothingLost
<1>1. TypeOK /\ TokenInv /\ NothingLost /\ [StaticNext]_vars => NothingLost'
  <2> SUFFICES ASSUME TypeOK, TokenInv, NothingLost, [StaticNext]_vars PROVE lost' = lost
    BY DEF NothingLost
  <2>1. armed # {} => ~ QueueFull
    BY EnoughRoom, RoomForEntries
  <2> QED BY <2>1, NothingRefused
<1>2. Init => NothingLost
  BY DEF Init, NothingLost
<1> QED BY <1>1, <1>2, TokenInvariant, PTL DEF StaticSpec

-----------------------------------------------------------------------------
(* Where every registered entry's token is.                                *)

\* A registered entry has its timer set, a message pending or its message lost,
\* except between the two halves of its registration; lost ones stay registered.
TokenSomewhere ==
  /\ lost \subseteq Range(schedreg)
  /\ main = "resched" => entry \notin lost
  /\ \A e \in Range(schedreg) :
       e \in armed \cup Due \cup lost \/ (main = "resched" /\ entry = e)

\* No step loses track of a token.
LEMMA SomewhereStep ==
  ASSUME TypeOK, ListInv, TokenInv, TokenSomewhere, DroppedIsSilent, [StaticNext]_vars
  PROVE  TokenSomewhere' /\ DroppedIsSilent'
<1> USE DEF TokenSomewhere, DroppedIsSilent
<1>l. DOMAIN schedreg = 1 .. Len(schedreg) /\ Len(schedreg) \in Nat
  BY LenProperties DEF TypeOK
<1>1. ASSUME NEW e \in Entries, TimerFires(e)
      PROVE  TokenSomewhere' /\ DroppedIsSilent'
  <2> DEFINE m == [type |-> msgType[e], src |-> e]
  <2>1. /\ m \in Message /\ m.src = e /\ e \in armed /\ Deliver(m)
        /\ armed' = armed \ {e} /\ UNCHANGED <<schedreg, main, entry>>
        /\ lost' = IF QueueFull THEN lost \cup {e} ELSE lost
    BY <1>1 DEF TimerFires, TypeOK, Message, mainVars
  <2> HIDE DEF m
  <2>2. CASE Pending' = Append(Pending, m) /\ lost' = lost
    <3>1. /\ DOMAIN Pending' = 1 .. Len(Pending) + 1
          /\ \A i \in 1 .. Len(Pending) : Pending'[i] = Pending[i]
          /\ Pending'[Len(Pending) + 1] = m
          /\ Len(Pending) \in Nat /\ DOMAIN Pending = 1 .. Len(Pending)
      BY <2>1, <2>2, PendingTyped, AppendProperties, LenProperties
    <3>2. Due' = Due \cup {e}
      BY <2>1, <3>1 DEF Due
    <3> QED BY <2>1, <2>2, <3>2
  <2>3. CASE Pending' = Pending /\ lost' = lost \cup {e}
    <3>1. Due' = Due /\ e \notin Due /\ e \in Range(schedreg)
      BY <2>1, <2>3 DEF Due, TokenInv, OneTokenPerEntry
    <3> QED BY <2>1, <2>3, <3>1 DEF TokenInv
  <2> QED BY <2>1, <2>2, <2>3, PendingDeliver DEF TokenInv
<1>2. CASE Receive
  <2>1. Pending' = Pending /\ UNCHANGED <<schedreg, armed, main, entry, lost>>
    BY <1>2, PendingReceive DEF Receive, MsgReceive, mainVars
  <2> QED BY <2>1 DEF Due
<1>3. CASE ThreadResched
  <2>1. /\ thread = "got" /\ thread' = "cb"
        /\ armed' = armed \cup {schedreg[Index(msg) + 1]}
        /\ UNCHANGED <<queue, schedreg, main, entry, lost>>
    BY <1>3 DEF ThreadResched, SetNthTimer, mainVars
  <2>2. schedreg[Index(msg) + 1] = msg.src /\ msg.src \in Due /\ Due' = Due \ {msg.src}
    BY <2>1, HandledRouted, DueHandled
  <2> QED BY <2>1, <2>2
<1>4. CASE ThreadSkip
  BY <1>4, HandledRouted DEF ThreadSkip
<1>5. CASE CallbackReturns \/ UNCHANGED vars
  <2>1. Pending' = Pending /\ UNCHANGED <<schedreg, armed, main, entry, lost>>
    BY <1>5 DEF CallbackReturns, vars, Pending, InHand, mainVars
  <2> QED BY <2>1 DEF Due
<1>6. CASE Registration
  <2>1. Due' = Due /\ lost' = lost
    <3>1. UNCHANGED <<queue, thread, msg, lost>>
      BY <1>6 DEF Registration, RegisterBegin, RegisterAppend, RegisterResched,
                  RegisterReturns, threadVars
    <3> QED BY <3>1, PendingUnchanged DEF Due
  <2>2. CASE \E e \in Entries : RegisterBegin(e)
    BY <2>1, <2>2 DEF RegisterBegin
  <2>3. CASE RegisterAppend
    <3>1. /\ main = "append" /\ main' = "resched" /\ UNCHANGED <<entry, armed>>
          /\ schedreg' = Append(schedreg, entry) /\ entry \in Entries
      BY <2>3 DEF RegisterAppend, TypeOK
    <3>2. /\ DOMAIN schedreg' = 1 .. Len(schedreg) + 1
          /\ \A i \in 1 .. Len(schedreg) : schedreg'[i] = schedreg[i]
          /\ schedreg'[Len(schedreg) + 1] = entry
      BY <3>1, AppendProperties, LenProperties DEF TypeOK
    <3>3. Range(schedreg') = Range(schedreg) \cup {entry} /\ entry \notin Range(schedreg)
      BY <3>1, <3>2, <1>l DEF Range, ListInv
    <3> QED BY <2>1, <3>1, <3>3
  <2>4. CASE RegisterResched
    <3>1. /\ main = "resched" /\ main' = "cb" /\ UNCHANGED <<schedreg, entry>>
          /\ armed' = armed \cup {entry}
      BY <2>4 DEF RegisterResched, SetNthTimer, TokenInv
    <3> QED BY <2>1, <3>1
  <2>5. CASE RegisterReturns
    BY <2>1, <2>5 DEF RegisterReturns
  <2> QED BY <1>6, <2>2, <2>3, <2>4, <2>5 DEF Registration
<1> QED BY <1>1, <1>2, <1>3, <1>4, <1>5, <1>6 DEF StaticNext, Timers, ThreadStep

\* Where the tokens are, in every state.
LEMMA SomewhereInvariant == StaticSpec => [](TokenSomewhere /\ DroppedIsSilent)
<1>1. Init => TokenSomewhere /\ DroppedIsSilent
  <2> SUFFICES ASSUME Init PROVE TokenSomewhere /\ DroppedIsSilent
    OBVIOUS
  <2>1. Range(schedreg) = {} /\ lost = {} /\ main = "idle"
    BY EmptySeq DEF Init, Range
  <2> QED BY <2>1 DEF TokenSomewhere, DroppedIsSilent
<1>2. /\ TypeOK /\ ListInv /\ TokenInv /\ TokenSomewhere /\ DroppedIsSilent
      /\ [StaticNext]_vars
      => TokenSomewhere' /\ DroppedIsSilent'
  BY SomewhereStep
<1> QED BY <1>1, <1>2, TokenInvariant, PTL DEF StaticSpec

\* Once the queue has refused an entry's message, the entry has neither a timer
\* nor a message ever after: one overflow silences it.
THEOREM DroppedStaysSilent == StaticSpec => []DroppedIsSilent
BY SomewhereInvariant, PTL

\* With as many queue slots as entries, a registered entry always has its timer
\* set or its message on the way to the thread.
THEOREM AlwaysScheduled == ASSUME EnoughRoom PROVE StaticSpec => []RegisteredIsScheduled
<1>1. TokenSomewhere /\ NothingLost => RegisteredIsScheduled
  BY DEF TokenSomewhere, NothingLost, RegisteredIsScheduled
<1> QED BY <1>1, SomewhereInvariant, NoLoss, PTL

-----------------------------------------------------------------------------
(* How much an overflow can do.                                            *)

\* A full queue holds messages of QueueSize entries other than the one whose
\* message it refuses, and these are not lost.
LEMMA LossStep ==
  ASSUME TypeOK, ListInv, TokenInv, TokenSomewhere, DroppedIsSilent, LossIsBounded,
         [StaticNext]_vars
  PROVE  LossIsBounded'
<1> DEFINE S == Range(schedreg) \ lost
<1>f. IsFiniteSet(S) /\ Cardinality(S) \in Nat /\ S \subseteq Entries
  <2>1. \A i \in DOMAIN schedreg : schedreg[i] \in Entries
    BY ElementOfSeq, LenProperties DEF TypeOK
  <2>2. S \subseteq Entries
    BY <2>1 DEF Range
  <2> QED BY <2>2, EntriesFinite, FS_Subset, FS_CardinalityType
<1>1. ASSUME NEW e \in Entries, TimerFires(e) PROVE LossIsBounded'
  <2>1. /\ e \in armed /\ schedreg' = schedreg
        /\ lost' = IF QueueFull THEN lost \cup {e} ELSE lost
    BY <1>1 DEF TimerFires
  <2>2. CASE QueueFull
    <3>1. armed \cup Due \subseteq S /\ e \in S
      <4>1. Due \subseteq Range(schedreg)
        BY PendingTyped, Routing DEF Due, TokenInv, Range
      <4> QED BY <2>1, <4>1 DEF TokenInv, DroppedIsSilent
    <3>2. ~ (Len(queue) < QueueSize)
      BY <2>2, SizesAreNat, LenProperties DEF QueueFull, TypeOK
    <3>3. ~ (Cardinality(S) <= QueueSize)
      BY <2>1, <3>1, <3>2, <1>f, RoomForTimer
    <3>4. Range(schedreg') \ lost' = S \ {e}
      BY <2>1, <2>2
    <3>5. Cardinality(S \ {e}) = Cardinality(S) - 1
      BY <3>1, <1>f, FS_RemoveElement
    <3>6. Cardinality(S \ {e}) >= QueueSize
      BY <3>3, <3>5, <1>f, SizesAreNat
    <3> QED BY <3>4, <3>6 DEF LossIsBounded
  <2>3. CASE ~ QueueFull
    BY <2>1, <2>3 DEF LossIsBounded
  <2> QED BY <2>2, <2>3
<1>2. ASSUME RegisterAppend PROVE LossIsBounded'
  <2>1. /\ schedreg' = Append(schedreg, entry) /\ entry \in Entries /\ lost' = lost
        /\ main = "append"
    BY <1>2 DEF RegisterAppend, TypeOK
  <2>2. /\ DOMAIN schedreg' = 1 .. Len(schedreg) + 1 /\ DOMAIN schedreg = 1 .. Len(schedreg)
        /\ Len(schedreg) \in Nat
        /\ \A i \in 1 .. Len(schedreg) : schedreg'[i] = schedreg[i]
        /\ schedreg'[Len(schedreg) + 1] = entry
    BY <2>1, AppendProperties, LenProperties DEF TypeOK
  <2>3. Range(schedreg') = Range(schedreg) \cup {entry} /\ entry \notin Range(schedreg)
    BY <2>1, <2>2 DEF Range, ListInv
  <2>4. Range(schedreg') \ lost' = S \cup {entry}
    BY <2>1, <2>3 DEF TokenSomewhere
  <2>5. Cardinality(S \cup {entry}) = Cardinality(S) + 1
    BY <2>3, <1>f, FS_AddElement
  <2>6. Cardinality(S \cup {entry}) >= Cardinality(S)
    BY <2>5, <1>f
  <2>7. lost = {} \/ Cardinality(S \cup {entry}) >= QueueSize
    BY <2>5, <1>f, SizesAreNat DEF LossIsBounded
  <2> QED BY <2>1, <2>4, <2>7 DEF LossIsBounded
<1>3. CASE ThreadStep \/ UNCHANGED vars
  BY <1>3 DEF ThreadStep, Receive, ThreadResched, ThreadSkip, CallbackReturns, vars,
              mainVars, LossIsBounded
<1>4. ASSUME Registration, ~ RegisterAppend PROVE LossIsBounded'
  BY <1>4 DEF Registration, RegisterBegin, RegisterResched, RegisterReturns, LossIsBounded
<1> QED BY <1>1, <1>2, <1>3, <1>4 DEF StaticNext, Timers

\* For clients that never unregister and every queue size: overflows leave at least
\* as many entries scheduled as the queue has slots.
THEOREM OverflowIsBounded == StaticSpec => []LossIsBounded
<1>1. Init => LossIsBounded
  BY DEF Init, LossIsBounded
<1>2. /\ TypeOK /\ ListInv /\ TokenInv /\ TokenSomewhere /\ DroppedIsSilent
      /\ LossIsBounded /\ [StaticNext]_vars
      => LossIsBounded'
  BY LossStep
<1> QED BY <1>1, <1>2, TokenInvariant, SomewhereInvariant, PTL DEF StaticSpec

-----------------------------------------------------------------------------
(* SchedReg implements PeriodicTasks (safety).                             *)

\* A step that changes the tokens of one entry only is a step of one task.
LEMMA StatusChange ==
  ASSUME NEW e \in Entries, NEW from, NEW to,
         TaskStatus[e] = from, TaskStatus'[e] = to,
         \A d \in Entries \ {e} : (d \in armed' <=> d \in armed) /\ (d \in Due' <=> d \in Due)
  PROVE  Abstract!Step(e, from, to)
<1>1. \A d \in Entries \ {e} : TaskStatus'[d] = TaskStatus[d]
  BY DEF TaskStatus
<1>2. TaskStatus' = [TaskStatus EXCEPT ![e] = to]
  <2>1. TaskStatus' = [d \in Entries |-> TaskStatus'[d]]
        /\ TaskStatus = [d \in Entries |-> TaskStatus[d]]
    BY DEF TaskStatus
  <2>2. ASSUME NEW d \in Entries
        PROVE  TaskStatus'[d] = [TaskStatus EXCEPT ![e] = to][d]
    BY <1>1, <2>1
  <2> QED BY <2>1, <2>2
<1> QED BY <1>2 DEF Abstract!Step

\* No task is registered at first.
LEMMA InitImplements == Init => Abstract!Init
<1> SUFFICES ASSUME Init PROVE TaskStatus = [t \in Entries |-> "idle"]
  BY DEF Abstract!Init
<1>1. Pending = <<>>
  <2>1. InHand = <<>> /\ queue = <<>> /\ <<>> \in Seq(Message)
    BY EmptySeq DEF Init, InHand
  <2> QED BY <2>1, ConcatEmptySeq DEF Pending
<1>2. armed = {} /\ Due = {}
  BY <1>1 DEF Init, Due
<1> QED BY <1>2 DEF TaskStatus

\* Each step is a step of one periodic task, or none, while the queue has room.
LEMMA StepImplements ==
  ASSUME armed # {} => ~ QueueFull, TypeOK, ListInv, TokenInv, [StaticNext]_vars
  PROVE  [Abstract!Next]_TaskStatus
<1>1. ASSUME NEW e \in Entries, TimerFires(e) PROVE Abstract!Expire(e)
  <2> DEFINE m == [type |-> msgType[e], src |-> e]
  <2>1. m \in Message /\ m.src = e /\ e \in armed /\ Deliver(m) /\ armed' = armed \ {e}
    BY <1>1 DEF TimerFires, TypeOK, Message
  <2> HIDE DEF m
  <2>2. ~ QueueFull
    BY <2>1
  <2>3. Pending' = Append(Pending, m)
    BY <2>1, <2>2, PendingDeliver DEF TokenInv
  <2>4. /\ DOMAIN Pending' = 1 .. Len(Pending) + 1
        /\ \A i \in 1 .. Len(Pending) : Pending'[i] = Pending[i]
        /\ Pending'[Len(Pending) + 1] = m
        /\ Len(Pending) \in Nat /\ DOMAIN Pending = 1 .. Len(Pending)
    BY <2>1, <2>3, PendingTyped, AppendProperties, LenProperties
  <2>5. Due' = Due \cup {e}
    BY <2>1, <2>4 DEF Due
  <2>6. TaskStatus[e] = "waiting" /\ TaskStatus'[e] = "due"
    BY <2>1, <2>5 DEF TaskStatus
  <2>7. \A d \in Entries \ {e} : (d \in armed' <=> d \in armed) /\ (d \in Due' <=> d \in Due)
    BY <2>1, <2>5
  <2> QED BY <2>6, <2>7, StatusChange DEF Abstract!Expire
<1>2. CASE Receive
  <2>1. Pending' = Pending /\ armed' = armed
    BY <1>2, PendingReceive DEF Receive, MsgReceive
  <2> QED BY <2>1 DEF TaskStatus, Due
<1>3. ASSUME ThreadResched PROVE msg.src \in Entries /\ Abstract!Run(msg.src)
  <2>1. /\ thread = "got" /\ thread' = "cb" /\ UNCHANGED queue
        /\ armed' = armed \cup {schedreg[Index(msg) + 1]}
    BY <1>3 DEF ThreadResched, SetNthTimer
  <2>2. /\ schedreg[Index(msg) + 1] = msg.src /\ msg.src \in Due /\ msg.src \in Entries
        /\ Due' = Due \ {msg.src}
    BY <2>1, HandledRouted, DueHandled
  <2>3. TaskStatus[msg.src] = "due" /\ TaskStatus'[msg.src] = "waiting"
    BY <2>1, <2>2 DEF TaskStatus, TokenInv, OneTokenPerEntry
  <2>4. \A d \in Entries \ {msg.src} :
          (d \in armed' <=> d \in armed) /\ (d \in Due' <=> d \in Due)
    BY <2>1, <2>2
  <2> QED BY <2>2, <2>3, <2>4, StatusChange DEF Abstract!Run
<1>4. CASE ThreadSkip
  BY <1>4, HandledRouted DEF ThreadSkip
<1>5. CASE CallbackReturns \/ UNCHANGED vars
  <2>1. Pending' = Pending /\ armed' = armed
    BY <1>5 DEF CallbackReturns, vars, Pending, InHand
  <2> QED BY <2>1 DEF TaskStatus, Due
<1>6. ASSUME Registration, ~ RegisterResched PROVE UNCHANGED TaskStatus
  <2>1. UNCHANGED <<queue, thread, msg, armed>>
    BY <1>6 DEF Registration, RegisterBegin, RegisterAppend, RegisterReturns, threadVars
  <2>2. Due' = Due
    BY <2>1, PendingUnchanged DEF Due
  <2> QED BY <2>1, <2>2 DEF TaskStatus
<1>7. ASSUME RegisterResched PROVE entry \in Entries /\ Abstract!Register(entry)
  <2>1. /\ main = "resched" /\ entry \in Entries /\ armed' = armed \cup {entry}
        /\ UNCHANGED <<queue, thread, msg>>
    BY <1>7 DEF RegisterResched, SetNthTimer, TokenInv, TypeOK, threadVars
  <2>2. Due' = Due
    BY <2>1, PendingUnchanged DEF Due
  <2>3. TaskStatus[entry] = "idle" /\ TaskStatus'[entry] = "waiting"
    BY <2>1 DEF TaskStatus, TokenInv
  <2>4. \A d \in Entries \ {entry} :
          (d \in armed' <=> d \in armed) /\ (d \in Due' <=> d \in Due)
    BY <2>1, <2>2
  <2> QED BY <2>1, <2>3, <2>4, StatusChange DEF Abstract!Register
<1> QED BY <1>1, <1>2, <1>3, <1>4, <1>5, <1>6, <1>7
        DEF StaticNext, Timers, ThreadStep, Abstract!Next

\* With as many queue slots as entries and no unregistering, schedreg behaves as
\* periodic tasks do: each registered entry alternates between waiting for its
\* period and being run once for it.
THEOREM ImplementsSafety == ASSUME EnoughRoom PROVE StaticSpec => Abstract!SafetySpec
<1>1. Init => Abstract!Init
  BY InitImplements
<1>2. TypeOK /\ ListInv /\ TokenInv /\ [StaticNext]_vars => [Abstract!Next]_TaskStatus
  BY EnoughRoom, RoomForEntries, StepImplements
<1> QED BY <1>1, <1>2, TokenInvariant, PTL DEF StaticSpec, Abstract!SafetySpec
=============================================================================
