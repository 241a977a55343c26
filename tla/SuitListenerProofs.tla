------------------------- MODULE SuitListenerProofs -------------------------
(***************************************************************************)
(* What the proofs about CoapSuit and SuitGui share: what a step of a      *)
(* listener does to the messages it has yet to act on, and what is then    *)
(* the newest message of some types among them.                            *)
(***************************************************************************)
EXTENDS SuitListener, SequenceTheorems, TLAPS

\* The thread, its message and its queue hold messages of M; a blocked thread has
\* none queued, and one that is not registered is sent none.
Channel(M) ==
  /\ queue \in Seq(M) /\ Len(queue) <= QueueSize
  /\ msg \in IF thread = "got" THEN M ELSE {None}
  /\ thread \in {"boot", "blocked"} => queue = <<>>

\* The notifications the worker can send.
Carried ==
  {m \in Notification :
    /\ m.type = "DOWNLOAD_START" => m.value \in Sizes
    /\ m.type = "DOWNLOAD_PROGRESS" => m.value \in 1 .. Largest}

\* The types of the notification that carries a size, and of those that report.
Starts == {"DOWNLOAD_START"}
Reports == {"DOWNLOAD_PROGRESS"}

-----------------------------------------------------------------------------
(* The worker.                                                             *)

\* There is a largest size.
LEMMA LargestSize == Largest \in Sizes /\ Largest \in Nat /\ \A s \in Sizes : s <= Largest
<1>1. \E s \in Sizes : \A t \in Sizes : t <= s
  BY ListenerConstants
<1>2. Largest \in Sizes /\ \A s \in Sizes : s <= Largest
  BY <1>1 DEF Largest
<1> QED BY <1>2, ListenerConstants

\* What the worker sends is typed, and so is what it goes on with.
LEMMA WorkerTypes ==
  ASSUME WorkerTypeOK, NEW type \in NotifyTypes, NEW value \in Values, WorkerSends(type, value)
  PROVE  WorkerTypeOK' /\ [type |-> type, value |-> value] \in Carried
<1>1. Largest \in Nat /\ (\A s \in Sizes : s <= Largest) /\ value \in Nat /\ Sizes \subseteq Nat
  BY LargestSize, ListenerConstants DEF Values
<1>2. phase' = type /\ size \in Nat /\ size <= Largest /\ written \in Nat /\ written <= size
  BY <1>1 DEF WorkerSends, WorkerTypeOK
<1>3. CASE type = "DOWNLOAD_START"
  <2>1. value \in Sizes /\ size' = value /\ written' = 0
    BY <1>3 DEF WorkerSends, ErrorTypes
  <2> QED BY <1>1, <1>2, <1>3, <2>1 DEF WorkerTypeOK, Carried, Notification
<1>4. CASE type = "DOWNLOAD_PROGRESS"
  <2>1. value \in written + 1 .. size /\ written' = value /\ size' = size
    BY <1>4 DEF WorkerSends, ErrorTypes
  <2> QED BY <1>1, <1>2, <1>4, <2>1 DEF WorkerTypeOK, Carried, Notification
<1>5. CASE type \notin {"DOWNLOAD_START", "DOWNLOAD_PROGRESS"}
  <2>1. UNCHANGED <<size, written>>
    BY <1>5 DEF WorkerSends
  <2> QED BY <1>1, <1>2, <1>5, <2>1 DEF WorkerTypeOK, Carried, Notification
<1> QED BY <1>3, <1>4, <1>5

-----------------------------------------------------------------------------
(* The pending messages.                                                   *)

\* Pending is a sequence of messages.
LEMMA PendingTyped ==
  ASSUME NEW M, Channel(M)
  PROVE  /\ Pending \in Seq(M) /\ Len(Pending) \in Nat /\ DOMAIN Pending = 1 .. Len(Pending)
         /\ \A i \in 1 .. Len(Pending) : Pending[i] \in M
<1>1. InHand \in Seq(M) /\ queue \in Seq(M)
  BY DEF InHand, Channel
<1>2. Pending \in Seq(M)
  BY <1>1, ConcatProperties DEF Pending
<1> QED BY <1>2, LenProperties, ElementOfSeq

\* A thread that is blocked, or not registered, has nothing pending.
LEMMA NothingPending ==
  ASSUME NEW M, Channel(M), thread \in {"boot", "blocked"}
  PROVE  Pending = <<>>
<1>1. InHand = <<>> /\ queue = <<>>
  BY DEF Channel, InHand
<1> QED BY <1>1, ConcatEmptySeq DEF Pending

\* A full queue is not empty, and its thread not blocked.
LEMMA FullIsPending ==
  ASSUME NEW M, Channel(M), QueueFull
  PROVE  Len(Pending) > 0 /\ thread # "blocked"
<1>1. InHand \in Seq(M) /\ queue \in Seq(M) /\ Len(InHand) \in Nat
  BY DEF InHand, Channel
<1>2. Len(queue) \in Nat /\ Len(queue) >= QueueSize
  BY <1>1, LenProperties DEF QueueFull
<1>3. Len(Pending) = Len(InHand) + Len(queue)
  BY <1>1, ConcatProperties DEF Pending
<1> QED BY <1>1, <1>2, <1>3, ListenerConstants DEF QueueFull

\* A sent message goes behind all the pending ones or is refused.
LEMMA PendingDeliver ==
  ASSUME NEW M, Channel(M), thread # "boot", NEW m \in M, Deliver(m)
  PROVE  /\ Channel(M)'
         /\ \/ Pending' = Append(Pending, m) /\ ~ QueueFull
            \/ Pending' = Pending /\ QueueFull
<1>1. CASE thread = "blocked" /\ thread' = "got" /\ msg' = m /\ UNCHANGED queue
  <2>1. queue = <<>> /\ Pending = <<>>
    BY <1>1, NothingPending DEF Channel
  <2>2. Pending' = <<m>> \o <<>> /\ <<m>> \in Seq(M)
    BY <1>1, <2>1 DEF Pending, InHand
  <2>3. Pending' = Append(Pending, m)
    BY <2>1, <2>2, ConcatEmptySeq
  <2> QED BY <1>1, <2>3 DEF QueueFull, Channel
<1>2. CASE /\ thread # "blocked" /\ Len(queue) < QueueSize
           /\ queue' = Append(queue, m) /\ UNCHANGED threadVars
  <2>1. InHand \in Seq(M) /\ queue \in Seq(M) /\ <<m>> \in Seq(M) /\ Len(queue) \in Nat
    BY DEF InHand, Channel
  <2>2. InHand \o Append(queue, m) = Append(InHand \o queue, m)
    BY <2>1, AppendIsConcat, ConcatAssociative, ConcatProperties
  <2>3. InHand' = InHand /\ thread' = thread /\ msg' = msg
    BY <1>2 DEF InHand, threadVars
  <2>4. ~ QueueFull
    BY <1>2, <2>1, ListenerConstants DEF QueueFull
  <2>5. Pending' = Append(Pending, m)
    BY <1>2, <2>2, <2>3 DEF Pending
  <2>6. queue' \in Seq(M) /\ Len(queue') = Len(queue) + 1
    BY <1>2, <2>1, AppendProperties
  <2>7. Channel(M)'
    BY <1>2, <2>1, <2>3, <2>6, ListenerConstants DEF Channel
  <2> QED BY <2>4, <2>5, <2>7
<1>3. CASE QueueFull /\ UNCHANGED <<threadVars, queue>>
  BY <1>3 DEF Pending, InHand, Channel, threadVars
<1> QED BY <1>1, <1>2, <1>3 DEF Deliver

\* msg_receive only moves the oldest message into the thread's hand.
LEMMA PendingReceive ==
  ASSUME NEW M, Channel(M), MsgReceive
  PROVE  Channel(M)' /\ Pending' = Pending
<1>1. InHand = <<>> /\ Pending = queue /\ msg = None
  BY ConcatEmptySeq DEF MsgReceive, InHand, Pending, Channel
<1>2. CASE queue # <<>> /\ msg' = Head(queue) /\ queue' = Tail(queue) /\ thread' = "got"
  <2>1. Head(queue) \in M /\ Tail(queue) \in Seq(M) /\ Len(Tail(queue)) = Len(queue) - 1
    BY <1>2, HeadTailProperties DEF Channel
  <2>2. <<Head(queue)>> \o Tail(queue) = queue
    BY <1>2, <2>1 DEF Channel
  <2>3. InHand' = <<Head(queue)>>
    BY <1>2 DEF InHand
  <2>4. Channel(M)'
    BY <1>2, <2>1, ListenerConstants, LenProperties DEF Channel
  <2> QED BY <1>1, <1>2, <2>2, <2>3, <2>4 DEF Pending
<1>3. CASE queue = <<>> /\ thread' = "blocked" /\ UNCHANGED <<msg, queue>>
  BY <1>1, <1>3 DEF Pending, InHand, Channel
<1> QED BY <1>2, <1>3 DEF MsgReceive

\* Acting on a message removes the oldest pending one.
LEMMA PendingHandled ==
  ASSUME NEW M, Channel(M), thread = "got", thread' \notin {"got", "boot", "blocked"},
         msg' = None, UNCHANGED queue
  PROVE  /\ Channel(M)' /\ Pending # <<>> /\ Pending[1] = msg /\ Pending' = Tail(Pending)
<1>1. InHand = <<msg>> /\ InHand' = <<>> /\ msg \in M /\ queue \in Seq(M)
  BY DEF InHand, Channel
<1>2. <<msg>> \in Seq(M)
  BY <1>1
<1>3. Pending = <<msg>> \o queue /\ Pending' = queue
  BY <1>1, <1>2, ConcatEmptySeq DEF Pending
<1>4. /\ <<msg>> \o queue # <<>> /\ (<<msg>> \o queue)[1] = msg
      /\ Tail(<<msg>> \o queue) = queue
  BY <1>1, <1>2
<1>5. Channel(M)'
  BY DEF Channel
<1> QED BY <1>3, <1>4, <1>5

\* Other steps of the thread leave what is pending alone.
LEMMA PendingKept ==
  ASSUME NEW M, Channel(M), UNCHANGED <<msg, queue>>,
         thread # "got", thread' # "got", thread' \in {"boot", "blocked"} => thread' = thread
  PROVE  Channel(M)' /\ Pending' = Pending
BY DEF Channel, Pending, InHand

\* A notification is not delivered, goes behind the pending messages, or is refused.
LEMMA PendingNotify ==
  ASSUME NEW M, Channel(M), Carried \subseteq M, WorkerTypeOK,
         NEW type \in NotifyTypes, NEW value \in Values, Notify(type, value)
  PROVE  /\ Channel(M)' /\ WorkerTypeOK'
         /\ \/ Missed /\ Pending' = Pending
            \/ /\ ~ Missed
               /\ Pending' = Append(Pending, [type |-> type, value |-> value])
         /\ thread' = "boot" <=> thread = "boot"
<1> DEFINE m == [type |-> type, value |-> value]
<1>1. m \in M /\ WorkerTypeOK'
  BY WorkerTypes DEF Notify
<1>2. CASE thread = "boot"
  <2>1. UNCHANGED <<thread, msg, queue>>
    BY <1>2 DEF Notify, threadVars
  <2> QED BY <1>1, <1>2, <2>1 DEF Channel, Pending, InHand, Missed
<1>3. CASE thread # "boot"
  <2>1. Deliver(m)
    BY <1>3 DEF Notify
  <2>2. thread' # "boot"
    BY <1>3, <2>1 DEF Deliver, threadVars
  <2> HIDE DEF m
  <2>3. /\ Channel(M)'
        /\ \/ Pending' = Append(Pending, m) /\ ~ QueueFull
           \/ Pending' = Pending /\ QueueFull
    BY <1>1, <1>3, <2>1, PendingDeliver
  <2> QED BY <1>1, <1>3, <2>2, <2>3 DEF Missed, m
<1> QED BY <1>2, <1>3

-----------------------------------------------------------------------------
(* The newest of some messages.                                            *)

\* The message at j is the newest in s with a type in T; s has none of T.
IsNewest(s, T, j) ==
  /\ j \in 1 .. Len(s) /\ s[j].type \in T
  /\ \A k \in 1 .. Len(s) : k > j => s[k].type \notin T
HasNone(s, T) == \A k \in 1 .. Len(s) : s[k].type \notin T

\* A new message is the newest of its types, and leaves the others'.
LEMMA NewestAppended ==
  ASSUME NEW M, NEW s \in Seq(M), NEW m \in M, NEW T
  PROVE  /\ \A j : IsNewest(Append(s, m), T, j) =>
              IF m.type \in T THEN Append(s, m)[j] = m
                              ELSE IsNewest(s, T, j) /\ Append(s, m)[j] = s[j]
         /\ HasNone(Append(s, m), T) => HasNone(s, T) /\ m.type \notin T
<1>1. /\ Len(s) \in Nat /\ Len(Append(s, m)) = Len(s) + 1
      /\ Append(s, m)[Len(s) + 1] = m
      /\ \A i \in 1 .. Len(s) : Append(s, m)[i] = s[i]
  BY AppendProperties, LenProperties
<1> DEFINE n == Len(s)
           r == Append(s, m)
<1>2. n \in Nat /\ Len(r) = n + 1 /\ r[n + 1] = m /\ \A i \in 1 .. n : r[i] = s[i]
  BY <1>1
<1> HIDE DEF r
<1>3. ASSUME NEW j, IsNewest(r, T, j)
      PROVE  IF m.type \in T THEN r[j] = m ELSE IsNewest(s, T, j) /\ r[j] = s[j]
  <2>1. CASE m.type \in T
    BY <1>2, <1>3, <2>1 DEF IsNewest
  <2>2. CASE m.type \notin T
    BY <1>2, <1>3, <2>2 DEF IsNewest
  <2> QED BY <2>1, <2>2
<1>4. HasNone(r, T) => HasNone(s, T) /\ m.type \notin T
  BY <1>2 DEF HasNone
<1> QED BY <1>3, <1>4 DEF r

\* Without the oldest message the newest is the same, unless the oldest was it.
LEMMA NewestOfTail ==
  ASSUME NEW M, NEW s \in Seq(M), s # <<>>, NEW T
  PROVE  /\ \A j : IsNewest(Tail(s), T, j) => IsNewest(s, T, j + 1) /\ Tail(s)[j] = s[j + 1]
         /\ HasNone(Tail(s), T) => HasNone(s, T) \/ IsNewest(s, T, 1)
<1> DEFINE n == Len(s)
           r == Tail(s)
<1>1. n \in Nat /\ n > 0 /\ Len(r) = n - 1 /\ \A i \in 1 .. n - 1 : r[i] = s[i + 1]
  BY HeadTailProperties, LenProperties, EmptySeq
<1> HIDE DEF r
<1>2. ASSUME NEW j, IsNewest(r, T, j)
      PROVE  IsNewest(s, T, j + 1) /\ r[j] = s[j + 1]
  <2>1. j \in 1 .. n - 1 /\ j + 1 \in 1 .. n /\ r[j] = s[j + 1]
    BY <1>1, <1>2 DEF IsNewest
  <2>2. ASSUME NEW k \in 1 .. n, k > j + 1 PROVE s[k].type \notin T
    <3>1. k - 1 \in 1 .. n - 1 /\ k - 1 > j /\ r[k - 1] = s[k]
      BY <1>1, <2>1, <2>2
    <3> QED BY <1>1, <1>2, <3>1 DEF IsNewest
  <2> QED BY <1>2, <2>1, <2>2 DEF IsNewest
<1>3. ASSUME HasNone(r, T) PROVE HasNone(s, T) \/ IsNewest(s, T, 1)
  <2>1. ASSUME NEW k \in 1 .. n, k # 1 PROVE s[k].type \notin T
    <3>1. k - 1 \in 1 .. n - 1 /\ r[k - 1] = s[k]
      BY <1>1, <2>1
    <3> QED BY <1>1, <1>3, <3>1 DEF HasNone
  <2> QED BY <1>1, <2>1 DEF HasNone, IsNewest
<1> QED BY <1>2, <1>3 DEF r
=============================================================================
