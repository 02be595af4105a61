# A verification development for Backend-Test

TLA+ models, TLC runs and TLAPS proofs for the C++ utilities of this repository:
a message queue, a thread pool, an asynchronous logger, TCP servers, a JSON
parser and wrappers of sqlite3. Paths below are relative to the
root of the repository's sources (`src/`).

## 1. The system

| Component | State | Operations | Hard behaviour |
|---|---|---|---|
| MessageQueue (`CommonUtils/MessageQueue`) | `queue_`, `currentMessageCount`, `mutex_`, `cond_`, limit and mode | `push`, `pop`, `empty` | many producers and consumers, lost wakeups, overtaking, a full queue in two modes, `empty` then `pop` |
| ThreadPool (`CommonUtils/ThreadPool`) | `tasks`, `cur_task_num`, `stop_pool`, workers, one mutex, one condition variable | constructor, worker loop, `enqueue`, destructor | producers and workers share the condition variable; tasks that enqueue; destruction with work left |
| FileLogPolicy (`CommonUtils/Log`) | 16 buffers with a flag and a mutex each, `current_buffer_`, queue of full buffers, file thread | `Write`, `Flush`, `NextBuffer`, `WriteToFile`, destructor | the mutex of one buffer taken for another, a ring that is full, a flag and a notification that race with a wait |
| ConsoleLogPolicy | `message_queue_`, `stop_`, printing thread | `Write`, `Flush`, `ProcessQueue`, destructor | destruction with messages left |
| Logger | `queue_`, `policies_`, dispatcher, timer | `Log`, `AddPolicy`, `Flush`, `ProcessQueue`, `TimerTask`, destructor | delivery outside the mutex, flush against delivery, two threads to join |
| AsyncTCPServer (`Modules/TCP`) | acceptor, `clientsPtr`, a MessageQueue, io thread | set-up, accept and read handlers, `GetMessage`, `CloseServer`, destructor | handlers that re-arm themselves, resets, several user threads, destruction |
| SingleTCPServer, SingleTCPClient | acceptor and one client socket; a socket | set-up, accept, send, receive, close | streams cut into pieces, resets, one client at a time |
| HTTPServer (`Modules/HTTP`) | acceptor, one socket | `do_accept`, `handle_request` | not built; dangling buffer and moved-from socket |
| JSON (`CommonUtils/JSON`) | `pos`, shared by nested calls, and the recursion itself | `parse` and a function for each kind of value; a generator that is not compiled | coming back to the right place, texts that end anywhere, what is accepted beyond JSON |
| DataBase (`CommonUtils/DataBase`) | a sqlite3 handle and its statements, a Logger | `Model`: create, insert, update, remove, four queries; `SQLiteWrapper`: open, `QueryData`, close | several connections to one file: SQLITE_BUSY at any statement, statements that are not finalized, a statement run twice |
| Build files | | CMake modules and a workflow | not run-time behaviour |

How they interact: AsyncTCPServer's io thread pushes into a MessageQueue that
user threads empty through `GetMessage`. A Logger calls `Write` of its policies
from its dispatcher and `Flush` of them from the timer and from its users, the
latter under its own mutex. SQLiteWrapper owns a Logger, to which it adds its
policies before it logs. Connections to one file meet in the locks of sqlite3.

What makes each correct: for the queue and the pool, order, no loss that the
mode does not ask for, limits, and no thread that sleeps beside its work; for
the policies, every message once, in order and before the destructor returns;
for the logger, the same for every policy; for the servers, byte order, a chain
of handlers that never breaks, and calls that return; for the parser, the
language and the values of JSON, and an end; for the data base, answers that
tell what happened, and nothing left open. `PROJECT.json` lists
under "hazards" where each of these could go wrong, at its line.

## 2. Modules

A step is what a thread does between two releases of a mutex; anything that a
thread does without a mutex and that another can get in front of is a step of
its own. A condition variable is the set of threads that sleep on it:
`notify_one` removes any one of them, and a woken thread takes the mutex and
tests its predicate in a later step. Spurious wakeups are an action everywhere.
Operators with a comment "Slip" are not part of the specifications. Each is a
mistake the code could have contained; substituted for the definition that
follows it, it makes a named property fail (`PROJECT.json`, "mutants").

* **LossyFifo** - the abstract specification of a bounded queue: messages are
  received in the order they are sent; only a full buffer loses one, the oldest
  or the newest.
* **MessageQueue** - `push` is `Push` with its three outcomes `Store`,
  `Overwrite`, `Refuse` (`coverageMode` is a variable chosen at the start); `pop` is `Pop` and, after each wait, `Resume`, both with
  the outcomes `Take` and `Sleep`; `Poll` is an `empty()` that returned false. A
  message is the number of its push. `ImplementsLossyFifo` is the refinement.
* **ThreadPool** - `enqueue` is `Enqueue`, `Retry` (after a wait) and `Signal`
  (the `notify_one` after the unlock); the worker loop is `Fetch` (`Take`,
  `Exit`, `Sleep`) and `Finish` (the task has returned; notify); the destructor is
  `Stop`, `NotifyAll`, `Join`. The limit `max_task_num` and `Spawning`, whether running
  tasks may call `enqueue`, are variables chosen at the start; the exception of a stopped pool leaves the task and its thread, which
  terminates the program. Threads outside the pool keep to the lifetime rule.
* **FileLogPolicy** - one action per load of `current_buffer_`: `LockBuffer`,
  `LoadBuffer`, `PushBack`, `TestFull`, `QueueFull` for `Write`; `TestEmpty`,
  `QueueFlushed`, `FlagFlushed` for `Flush`; `Search`, `Compare`, `Step`, `Advance`
  for `NextBuffer`; `Fetch`, `Wait`, `Drain`, `Clear` for `WriteToFile`. The threads
  are the Logger's dispatcher ("writer"), whoever flushes ("flusher": the Logger
  lets one in at a time; also the destructor) and the file thread.
  `NoBufferRace` is checked and not assumed: an access is a step that stands
  between the decision to make it and its end, and two overlapping accesses are
  reported. In the runs that look for something else after a race was possible,
  the steps are some of the outcomes an undefined program can have.
  `Meeting` is where the ring goes wrong: one of `Write` and `Flush` looks for the next
  buffer during a call of the other. `SpecApart` is `Spec` without these states.
* **ConsoleLogPolicy** - `Write`; `Fetch` and `Output` of the thread; `Stop` and `Join`
  of the destructor. Notifications directly follow the release of the mutex and
  cannot be lost, since the predicate is set by then; they are one step with it.
* **Logger** - instantiates ConsoleLogPolicy for the policy "console"; the policy
  "file" is the sequence it was given. `wanted`, chosen at the start, is the set of policies the
  program adds (`SQLiteWrapper::ConfigureLogger` makes either optional). `Log`; `AddPolicy` in two steps, as it takes
  no mutex; `Flush`/`FlushReturn` hold `mutex_`; `TimerTest`, `TimerFlush`,
  `TimerFlushReturn`; `Fetch` and `Deliver` (one policy per step); `Stop`, `Join`.
  A `Write` or a `Flush` of the file policy need not return: `FileWriting` and `FileFlushing` are the states in
  which one is under way, and no fairness makes them end.
* **AsyncTCPServer** - instantiates MessageQueue for `messageQueue`. Owner's thread:
  `SetUp`, `StartServer`, `CloseAcceptor` and `StopIo` (`CloseServer`), `Destroy`. io
  thread: `Accept`, `AcceptReset`, `AcceptFailed` (of a closed acceptor, or of an open one
  for want of a descriptor), `Read`, `ReadEof`, `ReadReset`,
  `RunReturns`. Users: `GetMessage`. Peers and asio's `run` are external.
* **SingleTCP** - both synchronous classes as the loops of `Test_TCPServer.cpp` and
  `Test_TCPClient.cpp` drive them: one step per call. TCP is external: two byte
  sequences, end of file, and the reset a host sends when a socket is closed
  over unread data or data arrives at a closed socket.
* **JsonGrammar** - the reference: which values a text stands for (`Meaning`), defined by
  the grammar and not by reading from left to right. It follows RFC 8259 but
  for what the code states or its test relies on: a comma may follow the last
  element (`Test_json.cpp` parses such a text), there is no `\u`, and of two members with one key
  the first counts (`emplace`). `Means` is one recursive function: the values of each part of the text, read as a value
  or as the contents of an array or of an object. A part is two indexes, so that nothing is cut out of the text.
* **JsonParser** - `stack` holds the calls of `parse_object` and `parse_array`, `pc` the place in the
  innermost function. `ParseValue` is the switch of `parse_value` with the words and numbers;
  `ParseString` is a round of the loop of `parse_string`, for a key or a value; `ParseObject`,
  `ParseColon`, `ParseArray` and `Continue` are the parts of the two loops; `Finish` is the end of `parse`.
  `lax` records that the parser has taken what is not JSON: a key without its first quote, characters of a number that
  `from_chars` did not read, zeros before another digit (`LeadingZero`), a point without a digit on either side (`BarePoint`).
  Each is told from what the code does with the characters, not from the grammar.
* **DataBase** - a connection makes one call at a time; a call is a few steps, each of
  them what sqlite3 does under one state of the locks. `Prepare`, `Row` and `Done` are `ExecuteQuery`, `QueryData` and
  `QueryColumnExist`; `Begin`, `Write` and `Commit` are `Execute`, run once by `CreateTable`, `Insert` and `Update`
  and twice by `Remove`; `Open` and `Close` are the constructor and destructor of `SQLiteWrapper`.
  sqlite3 is external: SHARED, RESERVED and PENDING locks of a file in its default journal
  mode, without a busy handler, since the code sets neither.
* **MCThreadPool** - a symmetry set for TLC. **MCJsonParser** - the texts for it.
* **MessageQueueProofs, ThreadPoolProofs, FileLogPolicyProofs, LoggerProofs (for the console too),
  AsyncTCPServerProofs, SingleTCPProofs, DataBaseProofs, JsonParserProofs** - theorems (section 5).

## 3. Runs

TLC finishes each run exhaustively. Deadlock is not checked, as every model may
stop for good: bounds are used up, or an object has been destroyed. What may
not stop is stated as `NoStrandedConsumer`, `NoStrandedWorker` or as a liveness
property instead.

### Runs that pass

| Run | Instance | Properties | What it shows |
|---|---|---|---|
| mq_all | 3 consumers, limit 2, 6 pushes, refusal and overwriting | TypeOK, KeepsNewest, NoStrandedConsumer, AcceptedNotLost, ImplementsLossyFifo, SleepersServed | the counter cannot drift, order over all consumers, no lost wakeup, only the mode's message is lost, sleepers are served, refinement of LossyFifo |
| tp_all | 2 workers, 2 clients, limit 1 and limit 5, 5 tasks, tasks that enqueue and tasks that do not | TypeOK, FifoExactlyOnce, DrainedAtDestruction, NoStrandedWorker, EveryTaskStarts, DestructorReturns | the limit, the order, no lost wakeup of a worker, a destruction that returns, even from a full pool, and leaves nobody behind |
| fl_ring | 3 buffers of 2 messages, 7 messages, 2 calls of `Flush` and the destructor's, no `Meeting` | TypeOK, NoBufferRace, NothingLost, QueuedIsWritten, WriteReturns | more than once round the ring, by full buffers and by flushed ones; the ring may be full; `Write` and `Flush` contend for a buffer and the destructor's `Flush` meets the file thread |
| lg_all | console, file, both or none, 4 messages | TypeOK, EachPolicyInOrder, PoliciesOutliveUse, UsesConsole, LoggedIsPrinted, DestructorsReturn | delivery, flushes by timer and users, and both destructions; the Logger uses the console as ConsoleLogPolicy assumes |
| tcp_all | 2 peers that may reset, one of 1 byte and one of 2, 2 users, limit 1 | TypeOK, BytesInOrder, HandlersArmed, NotAllBlocked, EveryPeerServed | order of bytes, a read pending on exactly the open clients, users who race for a message and of whom one gets it, peers that are served although the queue is full |
| st_all | 2 clients in turn, messages of up to 2 pieces | TypeOK, StreamIntact, RecvDataReturns, ServerMovesOn | streams cut at every place arrive intact, nobody waits for ever |
| js_parse | all texts of up to 5 characters over nine, and all that differ in a character from seven longer ones | TypeOK, JsonIsParsed, AcceptedIsJson, Terminates | JSON is accepted and read as what it means; what else is accepted has a key without its first quote (`{1":1}`) or a number with skipped characters (`[1e]`), leading zeros (`[01]`) or a point without a digit on either side (`[1.]`, `[-.5]`), and nothing else; the depth is bounded by the text; every text comes to an end |
| db_all | 2 connections used through Model, 1 wrapper, up to 2 rows, 4 calls | TypeOK, AnswersHold, NothingLeftOpen, QueryIsSnapshot | answers tell what was changed though a lock may be missing at the start or at the commit; a query read row by row is a snapshot; a wrapper always closes |

`DestructorReturns` of the pool speaks of programs whose tasks do not enqueue: a task that
waits for room in a pool of limit 1 may wait for its own worker. `EveryTaskStarts` and
`NoStrandedWorker` speak of pools whose limit is not reached; `tp_stall` shows what
happens in others.

`fl_ring` leaves out the states of `Meeting`, and this is all it leaves out: calls of `Write` and `Flush` otherwise begin
and overlap as they like, wait for each other's mutex and queue a buffer each. `fl_race` and the table below show
what a `Meeting` leads to. Nothing in the class prevents one; that the timer flushes every 500 ms makes it
rare. QueuedIsWritten supposes that every call of `Flush` returns, and WriteReturns is about calls that no spinning
`Flush` bars from a buffer, as that would be a `Meeting` too.

`LoggedIsPrinted` and, of the Logger, `DestructorsReturn` suppose that the calls of the file policy return
(`FilePolicyReturns`). They need not: FlushReturns and StopObeyed fail for that policy, and `Logger.cpp` holds `mutex_` while
it flushes (22-25, 50-51), so that the dispatcher waits with it. `AlwaysPrinted`, in the table below, is the same
without the premise. A logger with the console alone always has it. That the console's own destructor returns, and has printed everything by then, needs no premise.

`NotAllBlocked` is what two users of `GetMessage` can count on; that none of them ever blocks is GetMessageReturns, which one user has and two have not.

### Runs that find a disagreement

Each checks one property that a comment, a README or a test of the repository
states; `PROJECT.json`, "findings", quotes it.

| Run | Property | What happens |
|---|---|---|
| tp_stall | NoStall | the end of a task wakes the other idle worker in place of the producer that waits for room; all sleep |
| fl_race | NoBufferRace | `Write` holds the mutex of a buffer that flushes have moved away from |
| fl_close | ClosedIsWritten | the file thread ends on `stop_thread_` before the destructor's `Flush` |
| st_leave | ServerSurvives | a client leaves without its answer, the reset makes `shutdown` throw |

### Properties that the code does not have, without a run of their own

They are stated in the modules; TLC refutes each under the constants given here
(and the specification `FairSpec` for the three that are liveness properties).

| Module, property | Constants | What happens |
|---|---|---|
| ThreadPool, NothingAcceptedAfterStop | those of tp_stall | a task waiting for room in `enqueue` is accepted after `stop_pool` was set |
| FileLogPolicy, IndexInRange | NBuf 2, buffer_size_ 1, MaxMsg 3, MaxFlush 1 | `Write` and `Flush` both increment `current_buffer_` past the last buffer |
| FileLogPolicy, FlushReturns | those of fl_ring, MaxFlush 0 or 2, also with FairSpecApart | `Flush`, here the destructor's, spins for an empty buffer holding `mutex_queue_`, which the file thread needs |
| FileLogPolicy, StopObeyed | NBuf 2, buffer_size_ 2, MaxMsg 2, MaxFlush 0 | the last notification falls between the file thread's test and its sleep |
| Logger, AlwaysPrinted | those of lg_all, MaxMsg 2 | a `Flush` of the file policy that does not return keeps `mutex_`; no message reaches the console any more |
| Logger, NoPolicyRace | those of lg_all, AddLate TRUE | `AddPolicy` during a delivery or a timer flush |
| Logger, FlushWritesAll | policy console, MaxMsg 2 | `Flush` returns before what was logged is printed |
| AsyncTCPServer, GetMessageReturns | 1 peer of 2 bytes, 2 users, limit 2 | two users see one message, one of them blocks in `pop` |
| AsyncTCPServer, CleanEnd | 1 peer of 2 bytes, 1 user, limit 2 | `serverThread` is joinable when it is destroyed |
| SingleTCP, AnswersInStep | 1 client, MaxLen 2, MaxBytes 4 | a message in two pieces is answered twice; answers run behind. With MaxLen 1, every message arriving whole, it holds |
| JsonParser, NothingElseAccepted | those of js_parse | `{1":1}`, `[1e]`, `[-01.0e-1]`, `[-1.e-1]` and `[-.0e-1]` are accepted |
| JsonParser, NumbersHaveValues | those of js_parse | a number that no double can hold (`1e9` stands for one) is returned without having been assigned |
| DataBase, RemoveAnswersHold | those of db_all | the first of Remove's two statements removes the rows, the second meets SQLITE_BUSY, the answer is false |
| DataBase, QueryIsComplete | those of db_all | a query that meets SQLITE_BUSY at its first step returns no rows and no error |
| DataBase, ExistLeavesNoLock | those of db_all | the statement QueryColumnExist leaves behind stands at a row and keeps its SHARED lock: nobody else can commit |

### Bounds

`MaxPush`, `MaxTasks`, `MaxMsg`, `MaxFlush`, `MaxBytes`, `MaxCalls` bound the calls of the
environment and appear only in guards; `Brief` is the set of peers that send one byte only. They are chosen so that the interesting
case happens more than once: more pushes than the limit plus the consumers,
more messages than the ring holds. Limits (`maxMessageCount`, `max_task_num`,
`NBuf`, `buffer_size_`) are parameters of the code made small; nothing in the
code depends on their value except "full" and "empty", which small values
reach soonest. FlushReturns fails with three buffers where the code has 16: the file thread
has to fall behind by that many full buffers for it to happen. Symmetry is used
only in tp_stall, where no temporal property is checked. The parser has no bound but its
texts: five characters hold every pair of constructs one inside the other and every
way to end early, the longer ones hold words, escapes, exponents, repeated keys and three levels. `MaxRows` bounds the
rows a file starts with: two are needed for a write between two rows. Four calls let each of three
connections be in the middle of one and one of them leave something behind before.

### Fairness

A thread that can run runs (weak fairness of its next step); where it competes
for a mutex that others take again and again it gets it (strong fairness, in
FileLogPolicy and Logger), as nobody sleeps outside a condition variable with a mutex in hand. A `Flush` that spins keeps
its mutexes, and a thread that asks for one of them then never gets it: strong fairness promises nothing there. In Logger,
a call of the file policy may last for ever: fairness leaves these states out.
Tasks return. The io thread runs a handler whose event has happened, for every
socket; an accept that fails on an open acceptor is tried again, and fairness asks
for one that succeeds in the end (descriptors are not missing for ever). What was sent arrives. No caller is obliged to call, no peer to send or
to leave, no owner to destroy, and spurious wakeups need not happen. The parser runs
(weak fairness of its next step). DataBase states no fairness: all its properties are safety.

## 4. What is abstracted

A message, a task or a byte is a number; a row is the number of the call that wrote it.
A text of JSON is a sequence of characters and a number the numeral it was read from; of the six
characters `isspace` knows, the model has the blank. The text of SQL statements is left out: every condition holds of
every row, and a statement fails for a missing table or a lock. Levels, time stamps, colours, the `{}`
formatting and everything printed to standard output and error are left out. So
are: failures of set-up calls (bind, listen, name resolution, opening a file),
after which the owner gives up; the `logger.Flush()` of `~SQLiteWrapper`, since DataBase has no logger; write errors and the buffer of the file stream;
tasks that throw of their own accord; `SendData` and `RecData` of AsyncTCPServer,
which no caller can reach because the class hands out no client pointer; the
use of a destroyed io_context by SingleTCPClient, which has no outcomes one
could enumerate. `buffer_is_empty_` is a plain bool read without a lock; it is
taken to be read again on every round of the search, as its loop contains a
store to an atomic variable.

## 5. Proofs

For all values of the constants, subject to the assumption named in each module (finite sets
of threads, limits and lengths that are numbers, disjoint sets of names).

**MessageQueueProofs.** `IInv` is the conjunction of Types, CountMatchesQueue (the two
parts of TypeOK), InOrder, KeepsNewest and NoStrandedConsumer. None of the last three is
inductive without the first two: that `Head(queue_)` exists when the counter is
positive, and that `Overwrite` leaves the length alone, both come from
CountMatchesQueue. The wakeup argument counts: a store adds one message and
wakes one sleeper (or there is none), a take removes one message and one
awakened consumer, and a consumer goes to sleep only when the queue is empty.
The action property AcceptedNotLost and the refinement of LossyFifo
(`Refinement`) follow step by step from `IInv`.

**ThreadPoolProofs.** `IInv` adds to TypeOK (types and CountMatchesQueue), FifoExactlyOnce
and NoStrandedWorker two facts. `Shutdown`: from the moment the destructor
joins no client is inside `enqueue`, a worker that has exited left an empty queue, and nobody
who exited can be woken to add to it. `NobodyWaits`: in a roomy pool no caller
waits for room, so that every sleeper is a worker and a notification cannot go
astray. DrainedAtDestruction follows from `Shutdown`. The count for
NoStrandedWorker includes the threads between `Emplace` and `Signal`, whose
notification is still to come.

**LoggerProofs.** For policies that are added before the first `Log` (`~AddLate`);
if they are added later a policy misses what was logged before, and the vector
is accessed in a race. `IInv` is TypeOK and EachPolicyInOrder with three helpers.
`SetupFirst`: nothing is logged before the policies are complete (`wanted`, any subset), so that `AddPolicy`
finds all sequences empty. `Delivery`: `todo` has no policy twice, so that a policy
that was given the message is not given it again. `Lifetimes`: the console is
destroyed after the logger, which is gone after its dispatcher and its timer.
PoliciesOutliveUse follows from `Lifetimes`. UsesConsole, that every step of the
Logger is a step of ConsoleLogPolicy or none, needs EachPolicyInOrder: it tells that the
message handed to `Write` is the next number.

The console by itself is proved in the same module, over the Logger's instance, as what it does in any
environment that `Console!Spec` allows. `ConsoleIInv` adds to TypeOK and PrintedInOrder that a
destroyed console has an empty queue and no thread. Each step moves a message
from one of the three sequences (printed, in hand, waiting) to the next; three
lemmas say that their concatenation does not change by it. With UsesConsole
the result holds of the Logger's console.

**FileLogPolicyProofs.** For any number and size of the buffers, any calls of `Write` and any of `Flush`: the theorems are about
`SpecApart`, which is `Spec` but for the states of `Meeting`. (`fl_race` shows that the results fail with them.) Calls may overlap, so that
the mutexes have to be argued with. `Owners`: a call past its lock holds that mutex, and until it looks for the next buffer it is the mutex of the
buffer at the index. So at most one call is past its lock (`Alone`): two would hold the same mutex, unless one is looking, which is a `Meeting`.
`Walk`: what a call remembers of the index is still so, and the buffer at
the index is offered for writing unless someone is looking for the next.
`Transit`: a buffer is in the queue at most once, with its flag down, and is not the one the file
thread is busy with. The one exception is a flushed buffer, which gets its flag a step after
it is queued; `Locked` closes that gap, as the file thread cannot fetch before `mutex_queue_` is free.
NoBufferRace follows: the file thread's buffer has its flag down, that of a call has not, and two calls are not past their locks at once.

`MessagesKept` is NothingLost. It needs `Emptied`: a buffer that is neither queued nor with the file thread is empty, but for
the one at the index, and that one too while someone looks for the next. Then every step moves a message along the concatenation
that NothingLost is about, or none. That concatenation flattens a sequence of buffers with `FlattenSeq`, which is
recursive, and the prover knows of a recursive function only that it is some function which satisfies its equation,
if there is one. The section "FlattenSeq" therefore proves that there is (`FlattenDef`), by induction over the sequences of a given
length. The induction is that of a well-founded relation in the form that speaks of sets (`WFMin`: a set
that is not empty has a least element), and not of operators.

**AsyncTCPServerProofs.** `IInv` has three parts. `Chain` ties the life of a socket to the
io thread, the acceptor and the peer; with TypeOK and HandlersArmed it is preserved by every handler.
The invariant of MessageQueueProofs, instantiated, is carried over by one lemma: every step of
the server is a step of its queue or none (`QueueUsed`). `MessageOrTaker`: a user passes `empty()` only beside a message; either it is still in the queue, or the user who took it is not blocked.
With the queue's NoStrandedConsumer, which says that a message beside a sleeper has an awakened consumer, this gives NotAllBlocked for any number of users. `Streams`, for BytesInOrder, speaks of all that was ever
pushed, whether the queue kept it or not: what was read from a peer ascends, comes before what is on the wire, and is no more than the peer sent.
(What is in the queue would not do: a refused piece is gone from it, and nothing would tie the next to the last.)
Which part of it the users see, and in which order, is InOrder of the queue, carried over.

**SingleTCPProofs.** `InTouch` relates the two programs: the server has a client exactly
between accept and close, and only a client that has closed is reset. StreamIntact is then a matter of cutting
a sequence in two (`Cut`): what is read and what is under way, put together, do not change.

**DataBaseProofs.** `OneWriter`, which the external lock of sqlite3 gives, only helps: a writer begins when no other
writes. `UnderWay` says of a call in progress that its rows are a beginning of the table, which
stays so because a commit is refused while anyone reads; QueryIsSnapshot is its last step. `Tidy` says that a
wrapper has one statement while it reads and none otherwise, whence NothingLeftOpen.

**JsonParserProofs.** For any set of texts. `Place` says that the function that runs is that of the innermost
container, so that nested calls come back to the loop that waits for them; TypeOK contains the bound of the recursion. `WorkBounded` is what
can be said without fairness of the end of the parser: every step increases `Work`, a weighted sum of the position and of where
in the loop the parser is, and `Work` is at most `4 * Len(json) + 3`. One lemma says it of each function (`Goes`).

The parser is proved right against the grammar, for any texts: JsonIsParsed and AcceptedIsJson. Neither is inductive, as they
speak of the end only. `Correct` says it of every state. Three things the code does not keep are put in by an
existential: where in the text each call began (`at`), the container it has made so far (`made`, which is that of
the stack unless a number had no value) and the value that returns (`v`). With them (`Reads`):

* `Waits`: for every place e where a value may end, the values of the text from the beginning of a call to e are the containers
  that what it has made gives with what is to come, up to the bracket before e. What is to come depends on the place in the loop:
  `AtLoop` and `AtValue` in both lists, `AtKey` and `AtColon` in an object. `InString` is the same of a string, and `Returned` says
  of a value that has returned that it is the only one, and ends there.
* `Chain`: each call waits for the rest of a list, which begins with the value of the call above it.
* A parser that has taken what is not JSON (`lax`), or that has thrown, has a text without meaning.

The proof has three layers. First the grammar: `Means` and `Spelt` are recursive, and of a recursive function the prover knows only that it
satisfies its equation if some function does. That there is one (`MeansDef`, `SpeltDef`) is proved by well-founded induction on the length
of the part, with `WFMin` as above. Then the text, without the parser: what the first character of a value says about the rest,
how a list goes on behind a comma, a key behind a colon, a string behind a character or an escape; and
that where the parser throws, no end gives a value (`Dead`). Each is a lemma about `Means` alone.
Last the parser: one lemma for each action, which picks the lemma about the text that fits its branch. The proof shows, too, why the grammar may be
read from left to right at all: a value ends, but for blanks, in at most one place that a comma, a closing bracket or the end of the text follows.

`lax` is defined by what the parser does with a number, and `Numeral` by the grammar, and the two have to be brought together. `FromChars` reads a numeral whole
because every numeral is `Readable`. Conversely, what `from_chars` reads whole is `Readable` (`ReadWhole`), and without leading zero and bare point it is a
numeral (`WholeIsNumeral`); a numeral has neither (`NumeralStrict`). So `lax` is set by a number exactly when it is not a numeral: that these are all the leniencies of numbers is
proved, not assumed.

Only model-checked: all liveness properties (fairness is beyond the prover), and
`NoStall` (by TLC it holds for one worker and one client whose tasks do not enqueue).

## 6. State of the work

The order was: MessageQueue, ThreadPool, the three parts of the logger, the TCP
classes, their proofs, DataBase and its proofs, the JSON parser and its proofs, last that it reads texts as the grammar does.
All of it is done.

### Not modelled

* **HTTPServer.** It is not part of the build and could not be compiled: it uses `boost::json`
  while its CMake file links another library, and the public header is empty. Its handler hands asio a stream buffer that is
  a local variable of a function that has returned, so that after the first request its behaviour is
  undefined and a model would have to allow anything.
* **The JSON generator** (`Generator.hpp`). The lines that include it, in `Generator.cpp` and `json.hpp`, are
  commented out, and its lambdas use names they do not capture: no program of the repository contains it. A round trip of parser
  and generator has therefore nothing to be checked against.
* **`SendData` and `RecData` of AsyncTCPServer**: no caller can reach them (section 4).
* **Failures of set-up calls, of the file stream and of memory**: the code reports the first and
  ignores the others; no state of these classes depends on them.
* **An abstract log sink** implemented by ConsoleLogPolicy and Logger. What it would say, that what
  is written is a beginning of what was logged and all of it at the end, is
  what EachPolicyInOrder, UsesConsole and LoggedIsPrinted say together.
* **FileLogPolicy within Logger.** The Logger flushes it every 500 ms beside its `Write`; `fl_race` and the table in
  section 3 show that nothing can be said of its buffers once they meet. What the composition needs of it is left open: the policy
  "file" is the messages it was given, and its `Write` and `Flush` may return or not.
* **Build files**: no behaviour at run time.
