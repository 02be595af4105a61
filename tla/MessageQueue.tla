---------------------------- MODULE MessageQueue -----------------------------
(***************************************************************************)
(* Utils::MessageQueue::MessageQueue<Message>                              *)
(* (CommonUtils/MessageQueue/include/Utils/MessageQueue.hpp).              *)
(*                                                                         *)
(* push, pop and empty touch the queue only while they hold mutex_, so the *)
(* part of a call between two releases of the mutex is one step.  pop is   *)
(* two kinds of step: the first run of the critical section, and one more  *)
(* for every time the thread comes back from cond_.wait.  notify_one moves *)
(* an arbitrary thread out of the set of sleepers; the thread still has to *)
(* take the mutex and test the predicate again, and others may be faster.  *)
(*                                                                         *)
(* Any thread may push, so producers have no state here.  A message is the *)
(* number of the push that brought it.                                     *)
(***************************************************************************)
EXTENDS Integers, Sequences, FiniteSets, Functions

CONSTANTS
  Consumers,         \* the threads that call empty and pop
  maxMessageCount,   \* the limit given to the constructor
  MaxPush            \* bound of the model: the number of calls of push

ASSUME QueueAssumption ==
  IsFiniteSet(Consumers) /\ maxMessageCount \in Nat /\ MaxPush \in Nat

VARIABLES
  coverageMode,          \* given to the constructor: TRUE if a full queue
                         \* overwrites its oldest message
  queue_,                \* the std::queue
  currentMessageCount,   \* the counter kept beside it
  pc,                    \* where a consumer is: outside the queue, between an
                         \* empty() that returned false and pop(), or in pop()
  asleep,                \* the consumers blocked in cond_.wait
  pushed,                \* history: how many times push was called
  popped                 \* history: what pop returned, in order

vars == <<coverageMode, queue_, currentMessageCount, pc, asleep, pushed, popped>>

\* The constructor accepts any limit.  With coverageMode and a limit below 1,
\* push would call queue_.pop() on an empty std::queue, which is undefined.
Init ==
  /\ coverageMode \in BOOLEAN /\ (coverageMode => maxMessageCount >= 1)
  /\ queue_ = <<>>
  /\ currentMessageCount = 0
  /\ pc = [c \in Consumers |-> "out"]
  /\ asleep = {}
  /\ pushed = 0
  /\ popped = <<>>
-----------------------------------------------------------------------------
\* Slip: the notification is forgotten.
NotifyNobody == UNCHANGED asleep

\* cond_.notify_one()
NotifyOne ==
  \/ asleep = {} /\ UNCHANGED asleep
  \/ \E c \in asleep : asleep' = asleep \ {c}

Room == currentMessageCount < maxMessageCount

\* Slip: notify only when the queue stops being empty.
StoreNotifyingFirst ==
  /\ Room
  /\ queue_' = Append(queue_, pushed')
  /\ currentMessageCount' = currentMessageCount + 1
  /\ IF queue_ = <<>> THEN NotifyOne ELSE NotifyNobody

\* The three outcomes of push(msg).
Store ==
  /\ Room
  /\ queue_' = Append(queue_, pushed')
  /\ currentMessageCount' = currentMessageCount + 1
  /\ NotifyOne

\* Slips: the counter ignores the overwritten message; push returns after it
\* made room.
OverwriteUncounted ==
  /\ ~Room /\ coverageMode
  /\ queue_' = Append(Tail(queue_), pushed')
  /\ currentMessageCount' = currentMessageCount + 1
  /\ NotifyOne

OverwriteAndReturn ==
  /\ ~Room /\ coverageMode
  /\ queue_' = Tail(queue_)
  /\ currentMessageCount' = currentMessageCount - 1
  /\ UNCHANGED asleep

Overwrite ==
  /\ ~Room /\ coverageMode
  /\ queue_' = Append(Tail(queue_), pushed')
  /\ currentMessageCount' = (currentMessageCount - 1) + 1
  /\ NotifyOne

\* Slip: an accepted message goes instead of the new one.
RefuseOldest ==
  /\ ~Room /\ ~coverageMode
  /\ queue_' = Append(Tail(queue_), pushed')
  /\ UNCHANGED <<currentMessageCount, asleep>>

Refuse ==
  /\ ~Room /\ ~coverageMode
  /\ UNCHANGED <<queue_, currentMessageCount, asleep>>

Push ==
  /\ pushed < MaxPush
  /\ pushed' = pushed + 1
  /\ Store \/ Overwrite \/ Refuse
  /\ UNCHANGED <<coverageMode, pc, popped>>

\* empty() returned false: the caller is going to pop.
Poll(c) ==
  /\ pc[c] = "out"
  /\ currentMessageCount # 0
  /\ pc' = [pc EXCEPT ![c] = "polled"]
  /\ UNCHANGED <<coverageMode, queue_, currentMessageCount, asleep, pushed, popped>>

\* Slip: the queue is read at the wrong end.
TakeBack(c) ==
  /\ currentMessageCount > 0
  /\ popped' = Append(popped, queue_[Len(queue_)])
  /\ queue_' = SubSeq(queue_, 1, Len(queue_) - 1)
  /\ currentMessageCount' = currentMessageCount - 1
  /\ pc' = [pc EXCEPT ![c] = "out"]
  /\ UNCHANGED <<coverageMode, asleep, pushed>>

\* The critical section of pop: the predicate of cond_.wait, then either the
\* rest of pop or sleep.
Take(c) ==
  /\ currentMessageCount > 0
  /\ popped' = Append(popped, Head(queue_))
  /\ queue_' = Tail(queue_)
  /\ currentMessageCount' = currentMessageCount - 1
  /\ pc' = [pc EXCEPT ![c] = "out"]
  /\ UNCHANGED <<coverageMode, asleep, pushed>>

Sleep(c) ==
  /\ ~(currentMessageCount > 0)
  /\ pc' = [pc EXCEPT ![c] = "popping"]
  /\ asleep' = asleep \cup {c}
  /\ UNCHANGED <<coverageMode, queue_, currentMessageCount, pushed, popped>>

Pop(c) ==
  /\ pc[c] \in {"out", "polled"}
  /\ Take(c) \/ Sleep(c)

Resume(c) ==
  /\ pc[c] = "popping"
  /\ c \notin asleep
  /\ Take(c) \/ Sleep(c)

\* std::condition_variable::wait may return without a notification.
SpuriousWakeup(c) ==
  /\ c \in asleep
  /\ asleep' = asleep \ {c}
  /\ UNCHANGED <<coverageMode, queue_, currentMessageCount, pc, pushed, popped>>

Next ==
  \/ Push
  \/ \E c \in Consumers :
       Poll(c) \/ Pop(c) \/ Resume(c) \/ SpuriousWakeup(c)

Spec == Init /\ [][Next]_vars

\* A thread that was notified is scheduled and takes the mutex sooner or
\* later.  Nobody is obliged to push, to poll or to start a pop.
FairSpec == Spec /\ \A c \in Consumers : WF_vars(Resume(c))
-----------------------------------------------------------------------------
Types ==
  /\ coverageMode \in BOOLEAN /\ (coverageMode => maxMessageCount >= 1)
  /\ queue_ \in Seq(1 .. pushed)
  /\ currentMessageCount \in Nat
  /\ pc \in [Consumers -> {"out", "polled", "popping"}]
  /\ asleep \subseteq {c \in Consumers : pc[c] = "popping"}
  /\ pushed \in 0 .. MaxPush
  /\ popped \in Seq(1 .. pushed)

\* The counter that push, pop and empty decide by never drifts away from the
\* std::queue it counts, and respects the limit, whichever way push leaves.
CountMatchesQueue ==
  /\ currentMessageCount = Len(queue_)
  /\ currentMessageCount <= maxMessageCount

TypeOK == Types /\ CountMatchesQueue

Ascending(s) == \A i, j \in DOMAIN s : i < j => s[i] < s[j]

\* Messages leave in the order they were pushed, each at most once, over all
\* consumers together, although any of them may be overwritten or refused and
\* a consumer that was not notified may overtake one that was.
InOrder ==
  /\ Ascending(queue_)
  /\ Ascending(popped)
  /\ \A i \in DOMAIN popped, j \in DOMAIN queue_ : popped[i] < queue_[j]

\* In coverage mode the queue holds exactly the most recent pushes: only the
\* oldest message is ever given up.
KeepsNewest ==
  coverageMode =>
    \A i \in DOMAIN queue_ : queue_[i] = pushed - Len(queue_) + i

Awakened == {c \in Consumers : pc[c] = "popping" /\ c \notin asleep}

\* No lost wakeup: while a consumer sleeps, there is for every message in the
\* queue a consumer on its way to take one.
NoStrandedConsumer ==
  asleep # {} => Len(queue_) <= Cardinality(Awakened)

Lost == (1 .. pushed) \ (Range(popped) \cup Range(queue_))

\* Without coverage mode a message that was accepted is never lost: what a
\* step loses can only be the message that this step pushes.
AcceptedNotLost == [][~coverageMode => Lost' \subseteq Lost \cup {pushed'}]_vars

\* The queue is a lossy FIFO for its users.
Fifo == INSTANCE LossyFifo
          WITH Capacity <- maxMessageCount,
               buffer <- queue_, sent <- pushed, received <- popped
ImplementsLossyFifo == Fifo!Spec

\* A consumer does not sleep for ever beside a message: the queue is drained
\* or nobody sleeps any more.
SleepersServed ==
  (asleep # {} /\ queue_ # <<>>) ~> (asleep = {} \/ queue_ = <<>>)
=============================================================================
