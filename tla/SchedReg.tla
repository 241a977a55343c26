------------------------------ MODULE SchedReg ------------------------------
(***************************************************************************)
(* modules/schedreg: a registry of periodic callbacks.  Each entry owns a  *)
(* ztimer and a message.  When its timer expires, the timer interrupt      *)
(* sends a copy of the message to the schedreg thread; the message type is *)
(* CONFIG_SCHEDREG_TYPE plus the entry's position in the list, and the     *)
(* thread uses it to find the entry, set its timer again and run its       *)
(* callback.                                                               *)
(*                                                                         *)
(* Three contexts interleave: the timer interrupt, the schedreg thread     *)
(* (THREAD_PRIORITY_MAIN - 1) and one client thread of lower priority,     *)
(* main, the only caller of schedreg_register and schedreg_unregister.     *)
(***************************************************************************)
EXTENDS RiotMsg, FiniteSets, Functions, SequencesExt

\* QueueSize (RiotMsg) is CONFIG_SCHEDREG_QUEUE_SIZE.
CONSTANTS Entries,      \* the schedreg_t objects of the application
          RegistryMax,  \* 0xFF: a registry of this length is full
          TypeBase,     \* CONFIG_SCHEDREG_TYPE
          None          \* no entry, no message

ASSUME EntriesFinite == IsFiniteSet(Entries)
ASSUME SizesAreNat == QueueSize \in Nat /\ RegistryMax \in Nat /\ TypeBase \in Nat

VARIABLES schedreg,  \* the list, from the head pointer on
          msgType,   \* entry->msg->type
          armed,     \* the entries whose ztimer is set
          main,      \* where the client is inside register or unregister
          entry,     \* the client's argument
          count,     \* the client's local: count, or i of _schedreg_update
          lost       \* history: the entries whose message a full queue refused

mainVars == <<main, entry, count>>
vars == <<schedreg, msgType, armed, queue, thread, msg, main, entry, count, lost>>

\* A queued message is a copy: it keeps the type it had when it was sent.
\* src, which the code does not have, remembers whose timer sent it.
Message == [type : Nat, src : Entries]

TypeOK ==
  /\ schedreg \in Seq(Entries)
  /\ Len(schedreg) <= RegistryMax
  /\ msgType \in [Entries -> Nat]
  /\ armed \subseteq Entries
  /\ queue \in Seq(Message)
  /\ Len(queue) <= QueueSize
  /\ thread \in {"blocked", "loop", "got", "cb"}
  /\ msg \in Message \cup {None}
  /\ thread = "got" => msg \in Message
  /\ main \in {"idle", "append", "resched", "cb", "update"}
  /\ entry \in Entries \cup {None}
  /\ main \in {"append", "resched"} => entry \in Entries
  /\ main = "append" => Len(schedreg) < RegistryMax
  /\ count \in Nat
  /\ lost \subseteq Entries

\* thread_create runs the new thread at once, up to its first msg_receive.
Init ==
  /\ schedreg = <<>>
  /\ msgType = [e \in Entries |-> 0]
  /\ armed = {}
  /\ queue = <<>>
  /\ thread = "blocked" /\ msg = None
  /\ main = "idle" /\ entry = None /\ count = 0
  /\ lost = {}

-----------------------------------------------------------------------------
(* The timer interrupt.                                                    *)

\* The interrupt's ztimer callback sends the message as it is now: its type is read here.
TimerFires(e) ==
  /\ e \in armed
  /\ armed' = armed \ {e}
  /\ Deliver([type |-> msgType[e], src |-> e])
  /\ lost' = IF QueueFull THEN lost \cup {e} ELSE lost
  /\ UNCHANGED <<schedreg, msgType, mainVars>>

-----------------------------------------------------------------------------
(* The schedreg thread.                                                    *)

\* _schedreg_find_nth(n) # NULL
HasNth(n) == n < Len(schedreg)

\* Mutant: the walk through the list never leaves its first entry.
SetNthTimer_First(n) == armed' = armed \cup {schedreg[1]}

\* schedreg_resched(n) when the entry exists: its timer is set for another
\* period before its callback is called.
SetNthTimer(n) == armed' = armed \cup {schedreg[n + 1]}

Receive == MsgReceive /\ UNCHANGED <<schedreg, msgType, armed, mainVars, lost>>

\* The index a received message carries.
Index(m) == m.type - TypeBase

\* Mutant: the callback is called but the timer is not set again.
ThreadResched_NoTimer ==
  /\ thread = "got"
  /\ msg.type >= TypeBase /\ HasNth(Index(msg))
  /\ thread' = "cb"
  /\ UNCHANGED <<schedreg, msgType, armed, queue, msg, mainVars, lost>>

ThreadResched ==
  /\ thread = "got"
  /\ msg.type >= TypeBase /\ HasNth(Index(msg))
  /\ SetNthTimer(Index(msg))
  /\ thread' = "cb"
  /\ UNCHANGED <<schedreg, msgType, queue, msg, mainVars, lost>>

\* No entry at that position, or a type below CONFIG_SCHEDREG_TYPE.
ThreadSkip ==
  /\ thread = "got"
  /\ ~(msg.type >= TypeBase /\ HasNth(Index(msg)))
  /\ thread' = "loop"
  /\ UNCHANGED <<schedreg, msgType, armed, queue, msg, mainVars, lost>>

\* Mutant: the thread's loop ends after the first message.
CallbackReturns_Ends ==
  /\ thread = "cb"
  /\ thread' = "done"
  /\ UNCHANGED <<schedreg, msgType, armed, queue, msg, mainVars, lost>>

\* The callback, which may block in a sensor driver or the network stack, returns.
CallbackReturns ==
  /\ thread = "cb"
  /\ thread' = "loop"
  /\ UNCHANGED <<schedreg, msgType, armed, queue, msg, mainVars, lost>>

ThreadStep == Receive \/ ThreadResched \/ ThreadSkip \/ CallbackReturns

-----------------------------------------------------------------------------
(* The client thread.  It only has the processor while the schedreg thread *)
(* is blocked: in msg_receive, or anywhere inside a callback.              *)

MainRuns == thread \in {"blocked", "cb"}

\* Mutant: a full registry takes one more entry (count > 0xFF).
RegisterBegin_PastFull(e) ==
  /\ MainRuns /\ main = "idle"
  /\ e \notin Range(schedreg)
  /\ Len(schedreg) <= RegistryMax
  /\ msgType' = [msgType EXCEPT ![e] = TypeBase + Len(schedreg)]
  /\ main' = "append" /\ entry' = e /\ count' = Len(schedreg)
  /\ UNCHANGED <<schedreg, armed, queue, threadVars, lost>>

\* schedreg_register: a full registry is refused with 1 and nothing changes.
\* An entry is registered once: LL_APPEND of a linked entry would close a loop.
RegisterBegin(e) ==
  /\ MainRuns /\ main = "idle"
  /\ e \notin Range(schedreg)
  /\ Len(schedreg) < RegistryMax
  /\ msgType' = [msgType EXCEPT ![e] = TypeBase + Len(schedreg)]
  /\ main' = "append" /\ entry' = e /\ count' = Len(schedreg)
  /\ UNCHANGED <<schedreg, armed, queue, threadVars, lost>>

\* Mutant: LL_PREPEND for LL_APPEND.
RegisterAppend_Prepend ==
  /\ MainRuns /\ main = "append"
  /\ schedreg' = <<entry>> \o schedreg
  /\ main' = "resched"
  /\ UNCHANGED <<msgType, armed, queue, threadVars, entry, count, lost>>

\* Mutant: the new entry is appended but not scheduled.
RegisterAppend_NoResched ==
  /\ MainRuns /\ main = "append"
  /\ schedreg' = Append(schedreg, entry)
  /\ main' = "cb"
  /\ UNCHANGED <<msgType, armed, queue, threadVars, entry, count, lost>>

RegisterAppend ==
  /\ MainRuns /\ main = "append"
  /\ schedreg' = Append(schedreg, entry)
  /\ main' = "resched"
  /\ UNCHANGED <<msgType, armed, queue, threadVars, entry, count, lost>>

\* Mutant: registering an entry schedules the whole list afresh.
RegisterResched_All ==
  /\ MainRuns /\ main = "resched"
  /\ HasNth(count)
  /\ armed' = armed \cup Range(schedreg)
  /\ main' = "cb"
  /\ UNCHANGED <<schedreg, msgType, queue, threadVars, entry, count, lost>>

\* schedreg_resched(count, pid), in the client's context.
RegisterResched ==
  /\ MainRuns /\ main = "resched"
  /\ HasNth(count)
  /\ SetNthTimer(count)
  /\ main' = "cb"
  /\ UNCHANGED <<schedreg, msgType, queue, threadVars, entry, count, lost>>

\* The first callback, in the client's context, has returned and so does register.
RegisterReturns ==
  /\ MainRuns /\ main = "cb"
  /\ main' = "idle" /\ entry' = None /\ count' = 0
  /\ UNCHANGED <<schedreg, msgType, armed, queue, threadVars, lost>>

Registration ==
  \/ \E e \in Entries : RegisterBegin(e)
  \/ RegisterAppend \/ RegisterResched \/ RegisterReturns

\* schedreg_unregister: LL_DELETE, then _schedreg_update one entry at a time.
\* The timer is left as it is.
Unregister(e) ==
  /\ MainRuns /\ main = "idle"
  /\ \E k \in DOMAIN schedreg :
       schedreg[k] = e /\ schedreg' = RemoveAt(schedreg, k)
  /\ main' = "update" /\ count' = 0
  /\ UNCHANGED <<msgType, armed, queue, threadVars, entry, lost>>

UpdateEntry ==
  /\ MainRuns /\ main = "update"
  /\ count < Len(schedreg)
  /\ msgType' = [msgType EXCEPT ![schedreg[count + 1]] = TypeBase + count]
  /\ count' = count + 1
  /\ UNCHANGED <<schedreg, armed, queue, threadVars, main, entry, lost>>

\* Mutant: the loop of _schedreg_update stops one entry early.
UnregisterReturns_Early ==
  /\ MainRuns /\ main = "update"
  /\ count >= Len(schedreg) - 1
  /\ main' = "idle" /\ count' = 0
  /\ UNCHANGED <<schedreg, msgType, armed, queue, threadVars, entry, lost>>

UnregisterReturns ==
  /\ MainRuns /\ main = "update"
  /\ count >= Len(schedreg)
  /\ main' = "idle" /\ count' = 0
  /\ UNCHANGED <<schedreg, msgType, armed, queue, threadVars, entry, lost>>

Unregistration ==
  \/ \E e \in Entries : Unregister(e)
  \/ UpdateEntry \/ UnregisterReturns

-----------------------------------------------------------------------------
Timers == \E e \in Entries : TimerFires(e)

\* The application in this repository registers at boot and never unregisters.
StaticNext == Timers \/ ThreadStep \/ Registration

\* The whole interface of schedreg.h.
Next == StaticNext \/ Unregistration

\* Timers expire; the schedreg thread, of higher priority than its client, is
\* scheduled whenever it is ready, and callbacks return.  The client only gets
\* the processor left over, so nothing is assumed of it.
Fairness ==
  /\ \A e \in Entries : WF_vars(TimerFires(e))
  /\ WF_vars(ThreadStep)

StaticSpec == Init /\ [][StaticNext]_vars /\ Fairness

Spec == Init /\ [][Next]_vars /\ Fairness

-----------------------------------------------------------------------------
(* Properties.                                                             *)

\* Whose timer sent a pending message.
Due == {Pending[i].src : i \in DOMAIN Pending}

\* The type of a registered entry's message is the entry's position, or one more
\* while _schedreg_update has yet to reach it after an unregistration: a timer that
\* expires in the middle of one names its entry's old position, and no other.
TypesMatchPositions ==
  \A i \in 1 .. Len(schedreg) :
    \/ msgType[schedreg[i]] = TypeBase + (i - 1)
    \/ main = "update" /\ i > count /\ msgType[schedreg[i]] = TypeBase + i

\* The thread runs the callback of the entry whose timer sent the message it acts
\* on ("cb to execute upon message", schedreg.h:41), not another entry's.  The timer
\* of an entry that was unregistered, whose memory may be in other use by then
\* (schedreg.h:54), reaches no callback.
RunsSendersCallback ==
  [][ThreadResched => schedreg[Index(msg) + 1] = msg.src]_vars

\* A pending message leads the thread to the entry whose timer sent it: copies
\* in the queue are never out of date with the list.
RoutedToSender ==
  \A i \in DOMAIN Pending :
    LET n == Index(Pending[i]) IN
      n \in 0 .. Len(schedreg) - 1 /\ schedreg[n + 1] = Pending[i].src

\* An entry has its timer set or one message pending, never both and never two
\* messages: its callback is not run twice for one period.
OneTokenPerEntry ==
  /\ armed \cap Due = {}
  /\ \A i, j \in DOMAIN Pending : Pending[i].src = Pending[j].src => i = j

\* No periodic message was ever refused by a full queue.
NothingLost == lost = {}

\* An entry whose message was once refused is never scheduled again: nothing in
\* the thread sets its timer but its own message.
DroppedIsSilent == lost \cap (armed \cup Due) = {}

\* However many entries share a short queue, an overflow only ever silences the
\* entry beyond those whose messages fill it: as many as fit stay scheduled.
LossIsBounded == lost = {} \/ Cardinality(Range(schedreg) \ lost) >= QueueSize

\* Every timer that is set leads to its entry's message being handled.
TimeoutsAreHandled ==
  \A e \in Entries : (e \in armed) ~> (thread = "got" /\ msg.src = e)

\* A registration that is over leaves its entry scheduled.
RegisteredIsScheduled ==
  \A e \in Range(schedreg) :
    e \in armed \cup Due \/ (main = "resched" /\ entry = e)

\* The status of an entry, seen as a task of PeriodicTasks.
TaskStatus ==
  [e \in Entries |-> IF e \in armed THEN "waiting"
                     ELSE IF e \in Due THEN "due" ELSE "idle"]

Abstract == INSTANCE PeriodicTasks WITH Tasks <- Entries, status <- TaskStatus

\* Registered entries are run for ever, each once per period.
ImplementsPeriodicTasks == Abstract!Spec
=============================================================================
