----------------------------- MODULE ThreadPool ------------------------------
(***************************************************************************)
(* Utils::ThreadPool::ThreadPool (CommonUtils/ThreadPool).                 *)
(*                                                                         *)
(* Workers and the callers of enqueue share one mutex and one condition    *)
(* variable.  A step is what a thread does between two releases of the     *)
(* mutex; notify_one of enqueue and notify_all of the destructor are steps *)
(* of their own, since they come after the unlock.  Tasks are numbered in  *)
(* the order they enter the queue.  A task returns sooner or later; it may *)
(* call enqueue itself (Spawning).                                         *)
(*                                                                         *)
(* Threads outside the pool keep to the C++ lifetime rule: the destructor  *)
(* starts only when none of them is in enqueue, and none calls it later.   *)
(***************************************************************************)
EXTENDS Integers, Sequences, FiniteSets

CONSTANTS
  Workers,    \* the threads of the pool
  Clients,    \* the threads that call enqueue from outside
  Limits,     \* the values of max_task_num that are considered
  MaxTasks    \* bound of the model: the number of tasks

\* The constructor accepts threads_num = 0 as well; such a pool runs nothing.
ASSUME PoolAssumption ==
  /\ IsFiniteSet(Workers) /\ IsFiniteSet(Clients) /\ Workers # {}
  /\ Workers \cap Clients = {}
  /\ Limits \subseteq Int
  /\ MaxTasks \in Nat

Threads == Workers \cup Clients

VARIABLES
  max_task_num,   \* limit of the queue, given to the constructor
  Spawning,       \* TRUE: the program's tasks may call enqueue
  tasks,          \* the std::queue of tasks that wait for a worker
  cur_task_num,   \* the counter kept beside it
  stop_pool,
  worker,         \* what a worker does: "fetching", "running" or "exited"
  job,            \* the task a running worker runs
  call,           \* where a thread is in enqueue: "none", "waiting" for room,
                  \* or before the final "notify"
  asleep,         \* the threads blocked in condition.wait
  owner,          \* the destructor: "using" the pool, "stopping", "joining",
                  \* "done"
  terminated,     \* std::terminate was called
  submitted,      \* history: how many tasks entered the queue
  started         \* history: the tasks workers took, in order

given == <<max_task_num, Spawning>>
vars == <<given, tasks, cur_task_num, stop_pool, worker, job, call, asleep, owner,
          terminated, submitted, started>>

queueVars == <<tasks, cur_task_num, submitted, started>>

Init ==
  /\ max_task_num \in Limits /\ Spawning \in BOOLEAN
  /\ tasks = <<>> /\ cur_task_num = 0 /\ stop_pool = FALSE
  /\ worker = [w \in Workers |-> "fetching"]
  /\ job = [w \in Workers |-> 0]
  /\ call = [t \in Threads |-> "none"]
  /\ asleep = {}
  /\ owner = "using" /\ terminated = FALSE
  /\ submitted = 0 /\ started = <<>>
-----------------------------------------------------------------------------
\* Slip: the notification is forgotten.
NotifyNobody == UNCHANGED asleep

\* condition.notify_one()
NotifyOne ==
  \/ asleep = {} /\ UNCHANGED asleep
  \/ \E t \in asleep : asleep' = asleep \ {t}

Waiting == {t \in Threads : call[t] = "waiting"}

Emplace(t) ==
  /\ cur_task_num < max_task_num
  /\ tasks' = Append(tasks, submitted + 1)
  /\ cur_task_num' = cur_task_num + 1
  /\ submitted' = submitted + 1
  /\ call' = [call EXCEPT ![t] = "notify"]
  /\ UNCHANGED <<asleep, started>>

Block(t) ==
  /\ ~(cur_task_num < max_task_num)
  /\ call' = [call EXCEPT ![t] = "waiting"]
  /\ asleep' = asleep \cup {t}
  /\ UNCHANGED queueVars

\* enqueue, up to the wait or the unlock.  A client is the thread's own
\* master; a worker enqueues from inside its task.  The exception of a stopped
\* pool leaves the task, and with it the thread function of the worker.
Enqueue(t) ==
  /\ call[t] = "none"
  /\ \/ t \in Clients /\ owner = "using"
     \/ t \in Workers /\ Spawning /\ worker[t] = "running"
  /\ submitted + Cardinality(Waiting) < MaxTasks
  /\ IF stop_pool
       THEN terminated' = TRUE /\ UNCHANGED <<queueVars, call, asleep>>
       ELSE (Emplace(t) \/ Block(t)) /\ UNCHANGED terminated
  /\ UNCHANGED <<stop_pool, worker, job, owner>>

\* Slip: the predicate is not tested again after the wait.
RetryUnchecked(t) ==
  /\ call[t] = "waiting" /\ t \notin asleep
  /\ tasks' = Append(tasks, submitted + 1)
  /\ cur_task_num' = cur_task_num + 1
  /\ submitted' = submitted + 1
  /\ call' = [call EXCEPT ![t] = "notify"]
  /\ UNCHANGED <<asleep, started, stop_pool, worker, job, owner, terminated>>

\* The caller comes back from condition.wait.  stop_pool is not read again.
Retry(t) ==
  /\ call[t] = "waiting" /\ t \notin asleep
  /\ Emplace(t) \/ Block(t)
  /\ UNCHANGED <<stop_pool, worker, job, owner, terminated>>

Signal(t) ==
  /\ call[t] = "notify"
  /\ call' = [call EXCEPT ![t] = "none"]
  /\ NotifyOne
  /\ UNCHANGED <<queueVars, stop_pool, worker, job, owner, terminated>>
-----------------------------------------------------------------------------
\* Slip: the task is copied and stays in the queue.
TakeCopy(w) ==
  /\ tasks # <<>>
  /\ job' = [job EXCEPT ![w] = Head(tasks)]
  /\ started' = Append(started, Head(tasks))
  /\ cur_task_num' = cur_task_num - 1
  /\ worker' = [worker EXCEPT ![w] = "running"]
  /\ UNCHANGED <<tasks, submitted, asleep>>

\* The three outcomes of the first critical section of a worker's loop.
Take(w) ==
  /\ tasks # <<>>
  /\ job' = [job EXCEPT ![w] = Head(tasks)]
  /\ started' = Append(started, Head(tasks))
  /\ tasks' = Tail(tasks)
  /\ cur_task_num' = cur_task_num - 1
  /\ worker' = [worker EXCEPT ![w] = "running"]
  /\ UNCHANGED <<submitted, asleep>>

\* Slip: the tasks that are left are abandoned.
ExitAtStop(w) ==
  /\ stop_pool
  /\ worker' = [worker EXCEPT ![w] = "exited"]
  /\ UNCHANGED <<queueVars, job, asleep>>

Exit(w) ==
  /\ stop_pool /\ tasks = <<>>
  /\ worker' = [worker EXCEPT ![w] = "exited"]
  /\ UNCHANGED <<queueVars, job, asleep>>

Sleep(w) ==
  /\ ~stop_pool /\ tasks = <<>>
  /\ asleep' = asleep \cup {w}
  /\ UNCHANGED <<queueVars, worker, job>>

Fetch(w) ==
  /\ worker[w] = "fetching" /\ w \notin asleep
  /\ Take(w) \/ Exit(w) \/ Sleep(w)
  /\ UNCHANGED <<stop_pool, call, owner, terminated>>

\* The task returns and the worker takes the mutex to notify.
Finish(w) ==
  /\ worker[w] = "running" /\ call[w] = "none"
  /\ worker' = [worker EXCEPT ![w] = "fetching"]
  /\ NotifyOne
  /\ UNCHANGED <<queueVars, stop_pool, job, call, owner, terminated>>
-----------------------------------------------------------------------------
(* ~ThreadPool *)

Stop ==
  /\ owner = "using" /\ \A c \in Clients : call[c] = "none"
  /\ owner' = "stopping"
  /\ stop_pool' = TRUE
  /\ UNCHANGED <<queueVars, worker, job, call, asleep, terminated>>

\* Slip: only one thread is told.
NotifyAnyone ==
  /\ owner = "stopping"
  /\ owner' = "joining"
  /\ NotifyOne
  /\ UNCHANGED <<queueVars, stop_pool, worker, job, call, terminated>>

NotifyAll ==
  /\ owner = "stopping"
  /\ owner' = "joining"
  /\ asleep' = {}
  /\ UNCHANGED <<queueVars, stop_pool, worker, job, call, terminated>>

Join ==
  /\ owner = "joining" /\ \A w \in Workers : worker[w] = "exited"
  /\ owner' = "done"
  /\ UNCHANGED <<queueVars, stop_pool, worker, job, call, asleep, terminated>>

SpuriousWakeup(t) ==
  /\ t \in asleep
  /\ asleep' = asleep \ {t}
  /\ UNCHANGED <<queueVars, stop_pool, worker, job, call, owner, terminated>>

\* std::terminate ends every thread.
Runs == ~terminated /\ UNCHANGED given

Next ==
  /\ Runs
  /\ \/ \E t \in Threads : Enqueue(t) \/ Retry(t) \/ Signal(t) \/ SpuriousWakeup(t)
     \/ \E w \in Workers : Fetch(w) \/ Finish(w)
     \/ Stop \/ NotifyAll \/ Join

Spec == Init /\ [][Next]_vars

\* A thread that is not blocked runs, and a task returns.  Nobody is obliged
\* to enqueue or to destroy the pool.
FairSpec ==
  /\ Spec
  /\ \A t \in Threads : WF_vars(Runs /\ (Retry(t) \/ Signal(t)))
  /\ \A w \in Workers : WF_vars(Runs /\ (Fetch(w) \/ Finish(w)))
  /\ WF_vars(Runs /\ (NotifyAll \/ Join))
-----------------------------------------------------------------------------
Fetching == {w \in Workers : worker[w] = "fetching"}
Notifying == {t \in Threads : call[t] = "notify"}

Given == max_task_num \in Int /\ Spawning \in BOOLEAN

Types ==
  /\ tasks \in Seq(1 .. submitted)
  /\ cur_task_num \in Int
  /\ stop_pool \in BOOLEAN
  /\ worker \in [Workers -> {"fetching", "running", "exited"}]
  /\ job \in [Workers -> 0 .. submitted]
  /\ call \in [Threads -> {"none", "waiting", "notify"}]
  /\ \A w \in Workers : call[w] # "none" => worker[w] = "running"
  /\ asleep \subseteq Fetching \cup Waiting
  /\ owner \in {"using", "stopping", "joining", "done"}
  /\ stop_pool <=> owner # "using"
  /\ terminated \in BOOLEAN
  /\ submitted \in Nat
  /\ started \in Seq(1 .. submitted)

\* The counter that decides who waits for room is the length of the queue, and
\* the limit holds however many callers return from their wait at once.
CountMatchesQueue ==
  /\ cur_task_num = Len(tasks)
  /\ tasks # <<>> => cur_task_num <= max_task_num

TypeOK == Given /\ Types /\ CountMatchesQueue

\* Tasks start in the order they were accepted, each exactly once: what was
\* taken followed by what waits is every task there is, in order.
FifoExactlyOnce ==
  /\ Len(started) + Len(tasks) = submitted
  /\ \A i \in 1 .. Len(started) : started[i] = i
  /\ \A i \in 1 .. Len(tasks) : tasks[i] = Len(started) + i

\* When the destructor returns, every accepted task has run to its end, and no
\* thread is left that could touch the destroyed mutex or queue.
DrainedAtDestruction ==
  owner = "done" =>
    /\ Len(started) = submitted
    /\ \A w \in Workers : worker[w] = "exited"
    /\ \A t \in Threads : call[t] = "none"
    /\ asleep = {}

Roomy == max_task_num >= MaxTasks

\* In a pool whose limit is never reached no wakeup is lost: while a worker
\* sleeps there is, for every waiting task, a worker on its way to the queue
\* or an enqueue about to notify.
NoStrandedWorker ==
  Roomy /\ asleep # {} =>
    Len(tasks) <= Cardinality(Fetching \ asleep) + Cardinality(Notifying)

\* While a task waits for a worker or a caller for room, some thread is still
\* on its way: the line that ends a task calls its notify_one "notify the
\* waiting producer thread".
NoStall ==
  tasks # <<>> \/ Waiting # {} =>
    \/ \E w \in Workers : worker[w] = "running" /\ w \notin asleep
    \/ Fetching \ asleep # {}
    \/ (Waiting \ asleep) \cup Notifying # {}

\* A stopped pool accepts no task (the exception of enqueue says so).
NothingAcceptedAfterStop == [][stop_pool => submitted' = submitted]_vars

\* In a roomy pool every accepted task is started, unless the program is
\* terminated.
EveryTaskStarts ==
  \A n \in 1 .. MaxTasks : (Roomy /\ submitted >= n) ~> (Len(started) >= n \/ terminated)

\* The destructor returns, whatever the limit, if no task enqueues another.
DestructorReturns == (owner = "stopping" /\ ~Spawning) ~> (owner = "done")
=============================================================================
