-------------------------- MODULE ThreadPoolProofs ---------------------------
(***************************************************************************)
(* For any number of workers and clients, any limit, and with tasks that   *)
(* may enqueue tasks: tasks start once and in order, the destructor leaves *)
(* neither tasks nor threads behind, and a pool whose limit is not reached *)
(* loses no wakeup.                                                        *)
(***************************************************************************)
EXTENDS ThreadPool, FiniteSetTheorems, SequenceTheorems, TLAPS

\* Nobody waits for room in a pool whose limit is never reached.
NobodyWaits == Roomy => Waiting = {}

\* What DrainedAtDestruction rests on: a stopped pool has no client in it, and
\* the last worker to leave saw an empty queue.
Shutdown ==
  /\ owner # "using" => \A c \in Clients : call[c] = "none"
  /\ \A w \in Workers : worker[w] = "exited" => stop_pool
  /\ (\A w \in Workers : worker[w] = "exited") => tasks = <<>>
  /\ owner = "done" => \A w \in Workers : worker[w] = "exited"

\* The inductive invariant.
IInv ==
  /\ Given
  /\ Types
  /\ CountMatchesQueue
  /\ FifoExactlyOnce
  /\ NobodyWaits
  /\ NoStrandedWorker
  /\ Shutdown
-----------------------------------------------------------------------------
LEMMA InitIInv == Init => IInv
  <1>. SUFFICES ASSUME Init  PROVE IInv
    OBVIOUS
  <1>1. tasks = <<>> /\ started = <<>> /\ Len(tasks) = 0 /\ Len(started) = 0
    BY DEF Init
  <1>2. Types
    <2>1. tasks \in Seq(1 .. submitted) /\ started \in Seq(1 .. submitted)
      BY <1>1
    <2>2. /\ job \in [Workers -> 0 .. submitted]
          /\ worker \in [Workers -> {"fetching", "running", "exited"}]
          /\ call \in [Threads -> {"none", "waiting", "notify"}]
          /\ \A w \in Workers : call[w] = "none"
      BY DEF Init, Threads
    <2>3. stop_pool \in BOOLEAN /\ terminated \in BOOLEAN /\ (stop_pool <=> owner # "using")
      BY DEF Init
    <2>. QED  BY <2>1, <2>2, <2>3 DEF Init, Types
  <1>3. CountMatchesQueue /\ FifoExactlyOnce
    BY <1>1 DEF Init, CountMatchesQueue, FifoExactlyOnce
  <1>0. Given
    BY PoolAssumption DEF Init, Given
  <1>4. NobodyWaits /\ NoStrandedWorker /\ Shutdown
    BY <1>1, PoolAssumption DEF Init, NobodyWaits, NoStrandedWorker, Shutdown, Waiting
  <1>. QED  BY <1>0, <1>2, <1>3, <1>4 DEF IInv
-----------------------------------------------------------------------------
\* The sequence variables after a task enters or leaves the queue.
LEMMA EmplaceFacts ==
  ASSUME Types, NEW t \in Threads, Emplace(t)
  PROVE  /\ tasks' \in Seq(1 .. submitted') /\ started' \in Seq(1 .. submitted')
         /\ submitted' = submitted + 1 /\ submitted \in Nat
         /\ Len(tasks') = Len(tasks) + 1 /\ Len(tasks) \in Nat
         /\ \A i \in 1 .. Len(tasks) : tasks'[i] = tasks[i]
         /\ tasks'[Len(tasks) + 1] = submitted + 1
         /\ tasks' # <<>>
  <1>1. /\ tasks' = Append(tasks, submitted + 1) /\ submitted' = submitted + 1
        /\ started' = started /\ submitted \in Nat
    BY DEF Emplace, Types
  <1>2. /\ tasks \in Seq(1 .. submitted + 1) /\ started \in Seq(1 .. submitted + 1)
        /\ submitted + 1 \in 1 .. submitted + 1
    BY <1>1, SeqMonotonic DEF Types
  <1>3. /\ tasks' \in Seq(1 .. submitted + 1) /\ Len(tasks') = Len(tasks) + 1
        /\ \A i \in 1 .. Len(tasks) : tasks'[i] = tasks[i]
        /\ tasks'[Len(tasks) + 1] = submitted + 1
    BY <1>1, <1>2, AppendProperties
  <1>4. Len(tasks) \in Nat
    BY <1>2, LenProperties
  <1>5. tasks' # <<>>
    BY <1>3, <1>4, EmptySeq
  <1>. QED  BY <1>1, <1>2, <1>3, <1>4, <1>5

LEMMA TakeFacts ==
  ASSUME Types, NEW w \in Workers, Take(w)
  PROVE  /\ tasks' \in Seq(1 .. submitted) /\ started' \in Seq(1 .. submitted)
         /\ job'[w] \in 1 .. submitted
         /\ Len(tasks') = Len(tasks) - 1 /\ Len(tasks) \in Nat \ {0}
         /\ \A i \in 1 .. Len(tasks) - 1 : tasks'[i] = tasks[i + 1]
         /\ Len(started') = Len(started) + 1 /\ Len(started) \in Nat
         /\ \A i \in 1 .. Len(started) : started'[i] = started[i]
         /\ started'[Len(started) + 1] = tasks[1]
  <1>1. /\ tasks \in Seq(1 .. submitted) /\ started \in Seq(1 .. submitted)
        /\ tasks # <<>> /\ Head(tasks) = tasks[1]
    BY DEF Take, Types
  <1>2. /\ Head(tasks) \in 1 .. submitted /\ Tail(tasks) \in Seq(1 .. submitted)
        /\ Len(Tail(tasks)) = Len(tasks) - 1
        /\ \A i \in 1 .. Len(Tail(tasks)) : Tail(tasks)[i] = tasks[i + 1]
    BY <1>1, HeadTailProperties
  <1>3. Len(tasks) \in Nat \ {0} /\ Len(started) \in Nat
    BY <1>1, LenProperties, EmptySeq
  <1>4. /\ Append(started, Head(tasks)) \in Seq(1 .. submitted)
        /\ Len(Append(started, Head(tasks))) = Len(started) + 1
        /\ \A i \in 1 .. Len(started) : Append(started, Head(tasks))[i] = started[i]
        /\ Append(started, Head(tasks))[Len(started) + 1] = Head(tasks)
    BY <1>1, <1>2, AppendProperties
  <1>5. job'[w] = Head(tasks)
    BY DEF Take, Types
  <1>. QED  BY <1>1, <1>2, <1>3, <1>4, <1>5 DEF Take

\* Every step keeps the variables in their types.
LEMMA TypeStep ==
  ASSUME Types, Next
  PROVE  Types'
  <1>. USE DEF Types, Fetching, Waiting, queueVars
  <1>1. ASSUME NEW t \in Threads, Enqueue(t) \/ Retry(t)  PROVE Types'
    <2>1. call[t] # "notify" /\ t \notin asleep
      BY <1>1, PoolAssumption DEF Enqueue, Retry, Threads
    <2>2. t \in Workers => worker[t] = "running"
      BY <1>1, PoolAssumption DEF Enqueue, Retry
    <2>3. CASE Emplace(t) /\ UNCHANGED <<stop_pool, worker, job, owner, terminated>>
      <3>1. /\ call' = [call EXCEPT ![t] = "notify"] /\ asleep' = asleep
            /\ cur_task_num' = cur_task_num + 1
        BY <2>3 DEF Emplace
      <3>2. job' \in [Workers -> 0 .. submitted']
        <4>1. submitted' = submitted + 1 /\ submitted \in Nat /\ job' = job
          BY <2>3, EmplaceFacts
        <4>. QED  BY <4>1
      <3>3. asleep' \subseteq Fetching' \cup Waiting'
        BY <2>1, <2>3, <3>1
      <3>4. \A w \in Workers : call'[w] # "none" => worker'[w] = "running"
        BY <2>2, <2>3, <3>1 DEF Threads
      <3>5. call' \in [Threads -> {"none", "waiting", "notify"}] /\ cur_task_num' \in Int
        BY <3>1
      <3>6. /\ tasks' \in Seq(1 .. submitted') /\ started' \in Seq(1 .. submitted')
            /\ submitted' \in Nat
        BY <2>3, EmplaceFacts
      <3>. QED  BY <2>3, <3>2, <3>3, <3>4, <3>5, <3>6
    <2>4. CASE Block(t) /\ UNCHANGED <<stop_pool, worker, job, owner, terminated>>
      BY <2>2, <2>4 DEF Block, Threads
    <2>5. CASE UNCHANGED <<queueVars, call, asleep, stop_pool, worker, job, owner>>
               /\ terminated' = TRUE
      BY <2>5
    <2>. QED  BY <1>1, <2>3, <2>4, <2>5 DEF Enqueue, Retry
  <1>2. ASSUME NEW t \in Threads, Signal(t) \/ SpuriousWakeup(t)  PROVE Types'
    <2>1. /\ asleep' \subseteq asleep
          /\ UNCHANGED <<queueVars, stop_pool, worker, job, owner, terminated>>
          /\ call' = call \/ (call[t] = "notify" /\ call' = [call EXCEPT ![t] = "none"])
      BY <1>2 DEF Signal, SpuriousWakeup, NotifyOne
    <2>2. asleep' \subseteq Fetching' \cup Waiting'
      BY <2>1
    <2>3. \A w \in Workers : call'[w] # "none" => worker'[w] = "running"
      <3>1. \A w \in Workers : w \in Threads
        BY DEF Threads
      <3>. QED  BY <2>1, <3>1
    <2>. QED  BY <2>1, <2>2, <2>3
  <1>3. ASSUME NEW w \in Workers, Fetch(w)  PROVE Types'
    <2>1. worker[w] = "fetching" /\ call[w] = "none" /\ w \notin asleep
          /\ UNCHANGED <<stop_pool, call, owner, terminated>>
      BY <1>3 DEF Fetch, Threads
    <2>2. CASE Take(w)
      <3>1. /\ worker' = [worker EXCEPT ![w] = "running"]
            /\ job' = [job EXCEPT ![w] = Head(tasks)]
            /\ cur_task_num' = cur_task_num - 1 /\ UNCHANGED <<submitted, asleep>>
        BY <2>2 DEF Take
      <3>2. job' \in [Workers -> 0 .. submitted]
        BY <2>2, <3>1, TakeFacts
      <3>3. asleep' \subseteq Fetching' \cup Waiting'
        BY <2>1, <3>1
      <3>4. \A v \in Workers : call'[v] # "none" => worker'[v] = "running"
        BY <2>1, <3>1
      <3>5. tasks' \in Seq(1 .. submitted') /\ started' \in Seq(1 .. submitted')
        BY <2>2, <3>1, TakeFacts
      <3>6. worker' \in [Workers -> {"fetching", "running", "exited"}] /\ cur_task_num' \in Int
        BY <3>1
      <3>. QED  BY <2>1, <3>1, <3>2, <3>3, <3>4, <3>5, <3>6
    <2>3. CASE Exit(w)
      BY <2>1, <2>3 DEF Exit
    <2>4. CASE Sleep(w)
      BY <2>1, <2>4 DEF Sleep
    <2>. QED  BY <1>3, <2>2, <2>3, <2>4 DEF Fetch
  <1>4. ASSUME NEW w \in Workers, Finish(w)  PROVE Types'
    BY <1>4 DEF Finish, NotifyOne
  <1>5. CASE Stop \/ NotifyAll \/ Join
    BY <1>5 DEF Stop, NotifyAll, Join
  <1>. QED  BY <1>1, <1>2, <1>3, <1>4, <1>5 DEF Next

\* Every step keeps the counter right and the tasks in line.
LEMMA QueueStep ==
  ASSUME Given, Types, CountMatchesQueue, FifoExactlyOnce, Next
  PROVE  CountMatchesQueue' /\ FifoExactlyOnce'
  <1>. USE DEF CountMatchesQueue, FifoExactlyOnce
  <1>0. max_task_num \in Int /\ max_task_num' = max_task_num
    BY DEF Given, Next, Runs, given
  <1>1. ASSUME NEW t \in Threads, Emplace(t)  PROVE CountMatchesQueue' /\ FifoExactlyOnce'
    <2>1. /\ cur_task_num < max_task_num /\ cur_task_num' = cur_task_num + 1
          /\ started' = started
      BY <1>1 DEF Emplace
    <2>2. Len(started) \in Nat
      BY LenProperties DEF Types
    <2>3. cur_task_num' = Len(tasks') /\ cur_task_num' <= max_task_num
      BY <1>0, <1>1, <2>1, EmplaceFacts
    <2>4. \A i \in 1 .. Len(tasks') : tasks'[i] = Len(started) + i
      <3>. SUFFICES ASSUME NEW i \in 1 .. Len(tasks) + 1  PROVE tasks'[i] = Len(started) + i
        BY <1>1, EmplaceFacts
      <3>1. CASE i = Len(tasks) + 1
        BY <1>1, <2>2, <3>1, EmplaceFacts
      <3>2. CASE i \in 1 .. Len(tasks)
        BY <1>1, <3>2, EmplaceFacts
      <3>. QED  BY <1>1, <3>1, <3>2, EmplaceFacts
    <2>. QED  BY <1>0, <1>1, <2>1, <2>2, <2>3, <2>4, EmplaceFacts
  <1>2. ASSUME NEW w \in Workers, Take(w)  PROVE CountMatchesQueue' /\ FifoExactlyOnce'
    <2>1. cur_task_num' = cur_task_num - 1 /\ submitted' = submitted
          /\ submitted \in Nat /\ tasks # <<>>
      BY <1>2 DEF Take, Types
    <2>2. cur_task_num' = Len(tasks') /\ cur_task_num' <= max_task_num
      BY <1>0, <1>2, <2>1, TakeFacts
    <2>3. \A i \in 1 .. Len(tasks') : tasks'[i] = Len(started') + i
      <3>. SUFFICES ASSUME NEW i \in 1 .. Len(tasks) - 1
                    PROVE  tasks'[i] = Len(started) + 1 + i
        BY <1>2, TakeFacts
      <3>1. i + 1 \in 1 .. Len(tasks)
        BY <1>2, TakeFacts
      <3>. QED  BY <1>2, <3>1, TakeFacts
    <2>4. \A i \in 1 .. Len(started') : started'[i] = i
      <3>. SUFFICES ASSUME NEW i \in 1 .. Len(started) + 1  PROVE started'[i] = i
        BY <1>2, TakeFacts
      <3>1. CASE i = Len(started) + 1
        BY <1>2, <3>1, TakeFacts
      <3>2. CASE i \in 1 .. Len(started)
        BY <1>2, <3>2, TakeFacts
      <3>. QED  BY <1>2, <3>1, <3>2, TakeFacts
    <2>5. Len(started') + Len(tasks') = submitted'
      <3>1. /\ Len(tasks') = Len(tasks) - 1 /\ Len(started') = Len(started) + 1
            /\ Len(tasks) \in Nat /\ Len(started) \in Nat
        BY <1>2, TakeFacts
      <3>2. Len(started) + Len(tasks) = submitted' /\ submitted' \in Nat
        BY <2>1
      <3>3. (Len(started) + 1) + (Len(tasks) - 1) = Len(started) + Len(tasks)
        BY <3>1
      <3>. QED  BY <3>1, <3>2, <3>3
    <2>. QED  BY <1>0, <2>2, <2>3, <2>4, <2>5
  <1>3. UNCHANGED queueVars => CountMatchesQueue' /\ FifoExactlyOnce'
    BY <1>0 DEF queueVars
  <1>4. \A t \in Threads : Enqueue(t) \/ Retry(t) => Emplace(t) \/ UNCHANGED queueVars
    BY DEF Enqueue, Retry, Block
  <1>5. \A t \in Threads : Signal(t) \/ SpuriousWakeup(t) => UNCHANGED queueVars
    BY DEF Signal, SpuriousWakeup
  <1>6. \A w \in Workers : Fetch(w) \/ Finish(w) => Take(w) \/ UNCHANGED queueVars
    BY DEF Fetch, Exit, Sleep, Finish
  <1>7. Stop \/ NotifyAll \/ Join => UNCHANGED queueVars
    BY DEF Stop, NotifyAll, Join
  <1>. QED  BY <1>1, <1>2, <1>3, <1>4, <1>5, <1>6, <1>7 DEF Next
-----------------------------------------------------------------------------
\* Every step keeps the facts about shutdown.
LEMMA ShutdownStep ==
  ASSUME Types, Shutdown, Next
  PROVE  Shutdown'
  <1>. USE DEF Types, Shutdown, queueVars
  <1>1. ASSUME NEW t \in Threads, Enqueue(t) \/ Retry(t)  PROVE Shutdown'
    <2>1. CASE t \in Workers
      <3>1. worker[t] = "running"
        BY <1>1, <2>1, PoolAssumption DEF Enqueue, Retry
      <3>2. UNCHANGED <<worker, owner, stop_pool>>
            /\ \A c \in Clients : call'[c] = call[c]
        BY <1>1, <2>1, PoolAssumption DEF Enqueue, Retry, Emplace, Block, Threads
      <3>. QED  BY <2>1, <3>1, <3>2
    <2>2. CASE t \in Clients
      <3>1. owner = "using" /\ ~stop_pool
        BY <1>1, <2>2, PoolAssumption DEF Enqueue, Retry
      <3>2. UNCHANGED <<worker, owner, stop_pool>>
        BY <1>1 DEF Enqueue, Retry
      <3>3. PICK w \in Workers : worker[w] # "exited"
        BY <3>1, PoolAssumption
      <3>. QED  BY <3>1, <3>2, <3>3
    <2>. QED  BY <2>1, <2>2 DEF Threads
  <1>2. ASSUME NEW t \in Threads, Signal(t) \/ SpuriousWakeup(t)  PROVE Shutdown'
    <2>1. UNCHANGED <<queueVars, worker, owner, stop_pool>>
          /\ (call' = call \/ call' = [call EXCEPT ![t] = "none"])
      BY <1>2 DEF Signal, SpuriousWakeup
    <2>. QED  BY <2>1 DEF Threads
  <1>3. ASSUME NEW w \in Workers, Fetch(w) \/ Finish(w)  PROVE Shutdown'
    <2>1. UNCHANGED <<call, owner, stop_pool>> /\ worker[w] # "exited"
      BY <1>3 DEF Fetch, Finish
    <2>2. CASE Take(w) \/ Finish(w)
      <3>1. worker'[w] # "exited" /\ \A v \in Workers : v # w => worker'[v] = worker[v]
        BY <2>2 DEF Take, Finish
      <3>. QED  BY <2>1, <3>1
    <2>3. CASE Exit(w)
      BY <2>1, <2>3 DEF Exit
    <2>4. CASE Sleep(w)
      BY <2>1, <2>4 DEF Sleep
    <2>. QED  BY <1>3, <2>2, <2>3, <2>4 DEF Fetch
  <1>4. CASE Stop
    <2>1. ~stop_pool
      BY <1>4 DEF Stop
    <2>2. PICK w \in Workers : worker[w] # "exited"
      BY <2>1, PoolAssumption
    <2>. QED  BY <1>4, <2>1, <2>2 DEF Stop
  <1>5. CASE NotifyAll
    BY <1>5 DEF NotifyAll
  <1>6. CASE Join
    BY <1>6 DEF Join
  <1>. QED  BY <1>1, <1>2, <1>3, <1>4, <1>5, <1>6 DEF Next

\* What the destructor leaves behind.
LEMMA DrainedByShutdown == Types /\ FifoExactlyOnce /\ Shutdown => DrainedAtDestruction
  <1>. SUFFICES ASSUME Types, FifoExactlyOnce, Shutdown, owner = "done"
                PROVE  /\ Len(started) = submitted
                       /\ \A w \in Workers : worker[w] = "exited"
                       /\ \A t \in Threads : call[t] = "none"
                       /\ asleep = {}
    BY DEF DrainedAtDestruction
  <1>1. tasks = <<>> /\ \A w \in Workers : worker[w] = "exited"
    BY DEF Shutdown
  <1>2. \A t \in Threads : call[t] = "none"
    BY <1>1 DEF Shutdown, Types, Threads
  <1>3. Len(tasks) = 0 /\ Len(started) \in Nat
    BY <1>1, LenProperties DEF Types
  <1>4. asleep = {}
    BY <1>1, <1>2 DEF Types, Fetching, Waiting
  <1>. QED  BY <1>1, <1>2, <1>3, <1>4 DEF FifoExactlyOnce
-----------------------------------------------------------------------------
Awake == Fetching \ asleep

LEMMA ThreadSets ==
  /\ IsFiniteSet(Awake) /\ IsFiniteSet(Notifying)
  /\ Cardinality(Awake) \in Nat /\ Cardinality(Notifying) \in Nat
  /\ Cardinality(Waiting) \in Nat
  <1>1. /\ IsFiniteSet(Threads) /\ Awake \subseteq Threads
        /\ Notifying \subseteq Threads /\ Waiting \subseteq Threads
    BY PoolAssumption, FS_Union DEF Threads, Awake, Fetching, Notifying, Waiting
  <1>. QED  BY <1>1, FS_Subset, FS_CardinalityType

\* The next state's sets are as finite.
LEMMA ThreadSetsNext ==
  /\ IsFiniteSet(Awake') /\ IsFiniteSet(Notifying')
  /\ Cardinality(Awake') \in Nat /\ Cardinality(Notifying') \in Nat
  <1>1. /\ IsFiniteSet(Threads) /\ Awake' \subseteq Threads
        /\ Notifying' \subseteq Threads
    BY PoolAssumption, FS_Union DEF Threads, Awake, Fetching, Notifying
  <1>. QED  BY <1>1, FS_Subset, FS_CardinalityType

\* Counting one element more or less.
LEMMA AddOne ==
  ASSUME NEW S, IsFiniteSet(S), NEW x, x \notin S
  PROVE  Cardinality(S \cup {x}) = Cardinality(S) + 1
  BY FS_AddElement

LEMMA RemoveOne ==
  ASSUME NEW S, IsFiniteSet(S), NEW x \in S
  PROVE  Cardinality(S \ {x}) = Cardinality(S) - 1
  BY FS_RemoveElement

\* A step after which as many threads are on their way, for no more tasks and
\* with no new sleeper.
LEMMA NoneLost ==
  ASSUME Roomy, NoStrandedWorker, Awake \subseteq Awake', Notifying \subseteq Notifying',
         UNCHANGED tasks, asleep' # {} => asleep # {}, Len(tasks) \in Nat
  PROVE  NoStrandedWorker'
  <1>1. /\ Cardinality(Awake) <= Cardinality(Awake')
        /\ Cardinality(Notifying) <= Cardinality(Notifying')
    BY ThreadSetsNext, FS_Subset
  <1>. QED  BY <1>1, ThreadSets, ThreadSetsNext DEF NoStrandedWorker, Awake

\* Every step keeps a roomy pool free of lost wakeups.
LEMMA WakeupStep ==
  ASSUME Given, Types, CountMatchesQueue, FifoExactlyOnce, NobodyWaits, NoStrandedWorker, Next
  PROVE  NobodyWaits' /\ NoStrandedWorker'
  <1>. SUFFICES ASSUME Roomy  PROVE Waiting' = {} /\ NoStrandedWorker'
    BY DEF NobodyWaits, NoStrandedWorker, Roomy, Next, Runs, given
  <1>1. /\ Waiting = {} /\ asleep \subseteq Fetching
        /\ Len(tasks) \in Nat /\ Len(started) \in Nat
        /\ asleep # {} => Len(tasks) <= Cardinality(Awake) + Cardinality(Notifying)
    BY LenProperties DEF NobodyWaits, NoStrandedWorker, Types, Awake
  <1>2. ASSUME NEW t \in Threads, Enqueue(t) \/ Retry(t)
        PROVE  Waiting' = {} /\ NoStrandedWorker'
    <2>1. Enqueue(t) /\ call[t] = "none"
      BY <1>1, <1>2 DEF Retry, Waiting, Enqueue
    <2>2. cur_task_num < max_task_num
      BY <1>1, <2>1, ThreadSets, PoolAssumption
      DEF Given, Enqueue, Roomy, CountMatchesQueue, FifoExactlyOnce, Types
    <2>3. CASE Emplace(t) /\ UNCHANGED worker
      <3>1. /\ call' = [call EXCEPT ![t] = "notify"] /\ UNCHANGED <<asleep, worker>>
            /\ Len(tasks') = Len(tasks) + 1
        BY <2>3, EmplaceFacts DEF Emplace
      <3>2. /\ Waiting' = {} /\ Awake' = Awake
            /\ Notifying' = Notifying \cup {t} /\ t \notin Notifying
        BY <1>1, <2>1, <3>1 DEF Waiting, Awake, Fetching, Notifying, Types
      <3>3. Cardinality(Notifying') = Cardinality(Notifying) + 1
        BY <3>2, ThreadSets, AddOne
      <3>4. asleep' # {} => Len(tasks') <= Cardinality(Awake') + Cardinality(Notifying')
        BY <1>1, <3>1, <3>2, <3>3, ThreadSets
      <3>. QED  BY <3>2, <3>4 DEF NoStrandedWorker, Awake
    <2>4. CASE UNCHANGED <<queueVars, call, asleep, worker>>
      BY <1>1, <2>4 DEF queueVars, Waiting, NoStrandedWorker, Notifying, Fetching, Awake
    <2>. QED  BY <2>1, <2>2, <2>3, <2>4 DEF Enqueue, Block
  <1>3. ASSUME NEW t \in Threads, Signal(t)
        PROVE  Waiting' = {} /\ NoStrandedWorker'
    <2>1. /\ call[t] = "notify" /\ call' = [call EXCEPT ![t] = "none"]
          /\ UNCHANGED <<tasks, worker>>
      BY <1>3 DEF Signal, queueVars
    <2>2. /\ Waiting' = {} /\ Notifying' = Notifying \ {t} /\ t \in Notifying
      BY <1>1, <2>1 DEF Waiting, Notifying, Types
    <2>3. Cardinality(Notifying') = Cardinality(Notifying) - 1
      BY <2>2, ThreadSets, RemoveOne
    <2>4. CASE asleep = {} /\ UNCHANGED asleep
      BY <2>2, <2>4 DEF NoStrandedWorker
    <2>5. ASSUME NEW u \in asleep, asleep' = asleep \ {u}
          PROVE  NoStrandedWorker'
      <3>1. Awake' = Awake \cup {u} /\ u \notin Awake
        BY <1>1, <2>1, <2>5 DEF Awake, Fetching
      <3>2. Cardinality(Awake') = Cardinality(Awake) + 1
        BY <3>1, ThreadSets, AddOne
      <3>3. Len(tasks') <= Cardinality(Awake') + Cardinality(Notifying')
        BY <1>1, <2>1, <2>3, <2>5, <3>2, ThreadSets
      <3>. QED  BY <3>3 DEF NoStrandedWorker, Awake
    <2>. QED  BY <1>3, <2>2, <2>4, <2>5 DEF Signal, NotifyOne
  <1>4. ASSUME NEW t \in Threads, SpuriousWakeup(t)
        PROVE  Waiting' = {} /\ NoStrandedWorker'
    <2>1. UNCHANGED <<tasks, worker, call>> /\ asleep' = asleep \ {t} /\ t \in asleep
      BY <1>4 DEF SpuriousWakeup, queueVars
    <2>2. Waiting' = {} /\ Awake \subseteq Awake' /\ Notifying' = Notifying
      BY <1>1, <2>1 DEF Waiting, Awake, Fetching, Notifying
    <2>. QED  BY <1>1, <2>1, <2>2, NoneLost
  <1>5. ASSUME NEW w \in Workers, Fetch(w)
        PROVE  Waiting' = {} /\ NoStrandedWorker'
    <2>1. /\ worker[w] = "fetching" /\ w \notin asleep /\ UNCHANGED call
      BY <1>5 DEF Fetch
    <2>2. Waiting' = {} /\ Notifying' = Notifying
      BY <1>1, <2>1 DEF Waiting, Notifying
    <2>3. CASE Take(w)
      <3>1. /\ worker' = [worker EXCEPT ![w] = "running"] /\ UNCHANGED asleep
            /\ Len(tasks') = Len(tasks) - 1
        BY <2>3, TakeFacts DEF Take
      <3>2. Awake' = Awake \ {w} /\ w \in Awake
        BY <2>1, <3>1 DEF Awake, Fetching, Types
      <3>3. Cardinality(Awake') = Cardinality(Awake) - 1
        BY <3>2, ThreadSets, RemoveOne
      <3>. QED  BY <1>1, <2>2, <3>1, <3>3, ThreadSets DEF NoStrandedWorker, Awake
    <2>4. CASE Exit(w) \/ Sleep(w)
      <3>1. Len(tasks') = 0
        BY <2>4 DEF Exit, Sleep, queueVars
      <3>. QED  BY <2>2, <3>1, ThreadSetsNext DEF NoStrandedWorker, Awake
    <2>. QED  BY <1>5, <2>3, <2>4 DEF Fetch
  <1>6. ASSUME NEW w \in Workers, Finish(w)
        PROVE  Waiting' = {} /\ NoStrandedWorker'
    <2>1. /\ worker[w] = "running" /\ worker' = [worker EXCEPT ![w] = "fetching"]
          /\ asleep' \subseteq asleep /\ UNCHANGED <<tasks, call>>
      BY <1>6 DEF Finish, queueVars, NotifyOne
    <2>2. Waiting' = {} /\ Awake \subseteq Awake' /\ Notifying' = Notifying
      BY <1>1, <2>1 DEF Waiting, Awake, Fetching, Notifying, Types
    <2>. QED  BY <1>1, <2>1, <2>2, NoneLost
  <1>7. CASE Stop \/ NotifyAll \/ Join
    <2>1. UNCHANGED <<tasks, worker, call>> /\ asleep' \subseteq asleep
      BY <1>7 DEF Stop, NotifyAll, Join, queueVars
    <2>2. Waiting' = {} /\ Awake \subseteq Awake' /\ Notifying' = Notifying
      BY <1>1, <2>1 DEF Waiting, Awake, Fetching, Notifying
    <2>. QED  BY <1>1, <2>1, <2>2, NoneLost
  <1>. QED  BY <1>2, <1>3, <1>4, <1>5, <1>6, <1>7 DEF Next
-----------------------------------------------------------------------------
\* Every step preserves the invariant.
LEMMA StepIInv == IInv /\ [Next]_vars => IInv'
  <1>1. IInv /\ Next => IInv'
    <2>1. Given /\ Next => Given'
      BY DEF Given, Next, Runs, given
    <2>. QED  BY <2>1, TypeStep, QueueStep, ShutdownStep, WakeupStep DEF IInv
  <1>2. IInv /\ UNCHANGED vars => IInv'
    BY DEF vars, given, Given, IInv, Types, CountMatchesQueue, FifoExactlyOnce, NobodyWaits,
           NoStrandedWorker, Shutdown, Roomy, Waiting, Fetching, Notifying
  <1>. QED  BY <1>1, <1>2

THEOREM Invariance == Spec => []IInv
  BY InitIInv, StepIInv, PTL DEF Spec

\* Every variable stays in its type; cur_task_num is the length of the queue
\* and keeps the limit of enqueue.
THEOREM TypeCorrect == Spec => []TypeOK
  BY Invariance, PTL DEF IInv, TypeOK

\* The worker loop starts every accepted task once, in the order of enqueue.
THEOREM TasksInOrder == Spec => []FifoExactlyOnce
  BY Invariance, PTL DEF IInv

\* ~ThreadPool returns only when all accepted tasks have run and all threads
\* have left the pool.
THEOREM DestructionSafe == Spec => []DrainedAtDestruction
  BY Invariance, DrainedByShutdown, PTL DEF IInv

\* Without a caller that waits for room, notify_one always reaches a worker.
THEOREM NoLostWakeup == Spec => []NoStrandedWorker
  BY Invariance, PTL DEF IInv
=============================================================================
