---------------------------- MODULE FileLogPolicy ----------------------------
(***************************************************************************)
(* Utils::Log::FileLogPolicy (CommonUtils/Log): a ring of buffers that one *)
(* thread fills and a file thread empties.                                 *)
(*                                                                         *)
(* Through a Logger there are three threads here: "writer" is the Logger's *)
(* dispatcher, the only caller of Write; "flusher" stands for the callers  *)
(* of Flush, which the Logger runs one at a time under its own mutex, and, *)
(* once both are done with the object, for its destructor; "file" is       *)
(* WriteToFile.  current_buffer_ is atomic but is loaded anew at every use *)
(* of it, so every load that another thread can get in front of is a step: *)
(* the mutex that a thread locks need not be that of the buffer it uses.   *)
(*                                                                         *)
(* An access to a buffer or to its flag is one step.  That is all there is *)
(* to say as long as NoBufferRace holds; where it does not the C++ program *)
(* has no defined behaviour, and these steps are some of its outcomes.     *)
(* buffer_is_empty_ is a plain bool read by NextBuffer without a lock; its *)
(* loop stores to an atomic in every round, so the flag is read again.     *)
(***************************************************************************)
EXTENDS Integers, Sequences, SequencesExt

CONSTANTS
  NBuf,          \* the number of buffers: 16 in the code
  buffer_size_,  \* messages per buffer: 65536 in the code
  MaxMsg,        \* bound of the model: calls of Write
  MaxFlush       \* bound of the model: calls of Flush, beside the destructor's

ASSUME FileLogAssumption ==
  /\ NBuf \in Nat /\ NBuf >= 2
  /\ buffer_size_ \in Nat /\ buffer_size_ >= 1
  /\ MaxMsg \in Nat /\ MaxFlush \in Nat

Index == 0 .. NBuf - 1
Threads == {"writer", "flusher", "file"}
Nobody == "nobody"

VARIABLES
  buffers_, buffer_is_empty_, current_buffer_, queue_buffers_, stop_thread_,
  mutex_buffers_,  \* who holds the mutex of each buffer
  mutex_queue_,    \* who holds the mutex of the queue
  asleep,          \* TRUE: the file thread is blocked in condition_.wait
  pc,              \* the next step of each thread
  held,            \* the buffer whose mutex a thread locks
  ref,             \* the index that a thread loaded or computed
  dtor,            \* the destructor: "no", "stopped", "flushing", "joining", "done"
  written,         \* history: calls of Write; a message is the number of its call
  flushes,         \* history: calls of Flush
  file             \* history: what was given to the std::ofstream

ring == <<buffers_, buffer_is_empty_, queue_buffers_>>
locks == <<mutex_buffers_, mutex_queue_>>
calls == <<stop_thread_, dtor, written, flushes>>
vars == <<ring, current_buffer_, locks, asleep, pc, held, ref, calls, file>>

\* The constructor.  Its NextBuffer stays at buffer 0.
Init ==
  /\ buffers_ = [i \in Index |-> <<>>]
  /\ buffer_is_empty_ = [i \in Index |-> TRUE]
  /\ current_buffer_ = 0
  /\ queue_buffers_ = <<>>
  /\ stop_thread_ = FALSE
  /\ mutex_buffers_ = [i \in Index |-> Nobody] /\ mutex_queue_ = Nobody
  /\ asleep = FALSE
  /\ pc = [t \in Threads |-> IF t = "file" THEN "fetch" ELSE "idle"]
  /\ held = [t \in Threads |-> 0] /\ ref = [t \in Threads |-> 0]
  /\ dtor = "no" /\ written = 0 /\ flushes = 0 /\ file = <<>>

At(t, label) == pc[t] = label
Goto(t, label) == pc' = [pc EXCEPT ![t] = label]
Unlock(t) == mutex_buffers_' = [mutex_buffers_ EXCEPT ![held[t]] = Nobody]
-----------------------------------------------------------------------------
(* What Write and Flush share. *)

\* lock_guard lock(mutex_buffers_[current_buffer_]): the index is loaded by
\* the call, the mutex may be had much later.
LockBuffer(t) ==
  /\ At(t, "lock") /\ mutex_buffers_[held[t]] = Nobody
  /\ mutex_buffers_' = [mutex_buffers_ EXCEPT ![held[t]] = t]
  /\ Goto(t, "load")
  /\ UNCHANGED <<ring, current_buffer_, mutex_queue_, asleep, held, ref, calls, file>>

\* NextBuffer: the loop's test, the test of its body, and the store, with a
\* load of current_buffer_ for each.
Search(t) ==
  /\ At(t, "search")
  /\ Goto(t, IF buffer_is_empty_[current_buffer_] THEN "notify" ELSE "compare")
  /\ UNCHANGED <<ring, current_buffer_, locks, asleep, held, ref, calls, file>>

\* Slip: the ring does not wrap around.
CompareNothing(t) ==
  /\ At(t, "compare")
  /\ Goto(t, "step")
  /\ UNCHANGED <<ring, current_buffer_, locks, asleep, held, ref, calls, file>>

Compare(t) ==
  /\ At(t, "compare")
  /\ IF current_buffer_ + 1 > NBuf - 1
       THEN Goto(t, "store") /\ ref' = [ref EXCEPT ![t] = 0]
       ELSE Goto(t, "step") /\ UNCHANGED ref
  /\ UNCHANGED <<ring, current_buffer_, locks, asleep, held, calls, file>>

Step(t) ==
  /\ At(t, "step")
  /\ ref' = [ref EXCEPT ![t] = current_buffer_ + 1]
  /\ Goto(t, "store")
  /\ UNCHANGED <<ring, current_buffer_, locks, asleep, held, calls, file>>

Advance(t) ==
  /\ At(t, "store")
  /\ current_buffer_' = ref[t]
  /\ Goto(t, "search")
  /\ UNCHANGED <<ring, locks, asleep, held, ref, calls, file>>

NextBuffer(t) == Search(t) \/ Compare(t) \/ Step(t) \/ Advance(t)
-----------------------------------------------------------------------------
(* Write *)

CallWrite ==
  /\ At("writer", "idle") /\ dtor = "no" /\ written < MaxMsg
  /\ written' = written + 1
  /\ held' = [held EXCEPT !["writer"] = current_buffer_]
  /\ Goto("writer", "lock")
  /\ UNCHANGED <<ring, current_buffer_, locks, asleep, ref, stop_thread_, dtor, flushes, file>>

\* buffers_[current_buffer_] is evaluated before FormatMessage and push_back.
LoadBuffer ==
  /\ At("writer", "load")
  /\ ref' = [ref EXCEPT !["writer"] = current_buffer_]
  /\ Goto("writer", "push")
  /\ UNCHANGED <<ring, current_buffer_, locks, asleep, held, calls, file>>

PushBack ==
  /\ At("writer", "push")
  /\ buffers_' = [buffers_ EXCEPT ![ref["writer"]] = Append(@, written)]
  /\ Goto("writer", "full")
  /\ UNCHANGED <<buffer_is_empty_, queue_buffers_, current_buffer_, locks, asleep, held,
                 ref, calls, file>>

TestFull ==
  /\ At("writer", "full")
  /\ IF Len(buffers_[current_buffer_]) >= buffer_size_
       THEN Goto("writer", "queue") /\ UNCHANGED mutex_buffers_
       ELSE Goto("writer", "idle") /\ Unlock("writer")
  /\ UNCHANGED <<ring, current_buffer_, mutex_queue_, asleep, held, ref, calls, file>>

\* Slip: the buffer is queued and stays the one that is written to.
QueueFullStillEmpty ==
  /\ At("writer", "queue") /\ mutex_queue_ = Nobody
  /\ queue_buffers_' = Append(queue_buffers_, current_buffer_)
  /\ Goto("writer", "search")
  /\ UNCHANGED <<buffers_, buffer_is_empty_, current_buffer_, locks, asleep, held, ref,
                 calls, file>>

\* Under mutex_queue_, which the flusher holds whenever it moves
\* current_buffer_.
QueueFull ==
  /\ At("writer", "queue") /\ mutex_queue_ = Nobody
  /\ queue_buffers_' = Append(queue_buffers_, current_buffer_)
  /\ buffer_is_empty_' = [buffer_is_empty_ EXCEPT ![current_buffer_] = FALSE]
  /\ Goto("writer", "search")
  /\ UNCHANGED <<buffers_, current_buffer_, locks, asleep, held, ref, calls, file>>

\* Slip: the file thread is not notified.
ReturnSilently ==
  /\ At("writer", "notify")
  /\ Unlock("writer")
  /\ Goto("writer", "idle")
  /\ UNCHANGED <<ring, current_buffer_, mutex_queue_, asleep, held, ref, calls, file>>

ReturnWrite ==
  /\ At("writer", "notify")
  /\ asleep' = FALSE
  /\ Unlock("writer")
  /\ Goto("writer", "idle")
  /\ UNCHANGED <<ring, current_buffer_, mutex_queue_, held, ref, calls, file>>
-----------------------------------------------------------------------------
(* Flush: the calls of it, and the one in the destructor. *)

CallFlush ==
  /\ At("flusher", "idle")
  /\ \/ dtor = "no" /\ flushes < MaxFlush /\ flushes' = flushes + 1 /\ UNCHANGED dtor
     \/ dtor = "stopped" /\ dtor' = "flushing" /\ UNCHANGED flushes
  /\ held' = [held EXCEPT !["flusher"] = current_buffer_]
  /\ Goto("flusher", "lock")
  /\ UNCHANGED <<ring, current_buffer_, locks, asleep, ref, stop_thread_, written, file>>

TestEmpty ==
  /\ At("flusher", "load")
  /\ IF buffers_[current_buffer_] = <<>>
       THEN Goto("flusher", "idle") /\ Unlock("flusher")
       ELSE Goto("flusher", "queue") /\ UNCHANGED mutex_buffers_
  /\ UNCHANGED <<ring, current_buffer_, mutex_queue_, asleep, held, ref, calls, file>>

\* Flush keeps mutex_queue_ until it returns.
QueueFlushed ==
  /\ At("flusher", "queue") /\ mutex_queue_ = Nobody
  /\ mutex_queue_' = "flusher"
  /\ queue_buffers_' = Append(queue_buffers_, current_buffer_)
  /\ Goto("flusher", "flag")
  /\ UNCHANGED <<buffers_, buffer_is_empty_, current_buffer_, mutex_buffers_, asleep, held,
                 ref, calls, file>>

FlagFlushed ==
  /\ At("flusher", "flag")
  /\ buffer_is_empty_' = [buffer_is_empty_ EXCEPT ![current_buffer_] = FALSE]
  /\ Goto("flusher", "search")
  /\ UNCHANGED <<buffers_, queue_buffers_, current_buffer_, locks, asleep, held, ref,
                 calls, file>>

ReturnFlush ==
  /\ At("flusher", "notify")
  /\ asleep' = FALSE
  /\ mutex_queue_' = Nobody
  /\ Unlock("flusher")
  /\ Goto("flusher", "idle")
  /\ UNCHANGED <<ring, current_buffer_, held, ref, calls, file>>
-----------------------------------------------------------------------------
(* WriteToFile *)

\* The critical section: the predicate of condition_.wait is false (Wait
\* follows), or the thread ends, or it takes a buffer off the queue.
Fetch ==
  /\ At("file", "fetch") /\ ~asleep /\ mutex_queue_ = Nobody
  /\ \/ /\ queue_buffers_ = <<>> /\ ~stop_thread_
        /\ mutex_queue_' = "file" /\ Goto("file", "wait")
        /\ UNCHANGED <<queue_buffers_, ref>>
     \/ /\ queue_buffers_ = <<>> /\ stop_thread_
        /\ Goto("file", "exit")
        /\ UNCHANGED <<queue_buffers_, ref, mutex_queue_>>
     \/ /\ queue_buffers_ # <<>>
        /\ ref' = [ref EXCEPT !["file"] = Head(queue_buffers_)]
        /\ queue_buffers_' = Tail(queue_buffers_)
        /\ Goto("file", "drain")
        /\ UNCHANGED mutex_queue_
  /\ UNCHANGED <<buffers_, buffer_is_empty_, current_buffer_, mutex_buffers_, asleep, held,
                 calls, file>>

\* The thread blocks and releases the mutex.  A notification since the test
\* of the predicate has missed it, as it needs no mutex.
Wait ==
  /\ At("file", "wait")
  /\ asleep' = TRUE
  /\ mutex_queue_' = Nobody
  /\ Goto("file", "fetch")
  /\ UNCHANGED <<ring, current_buffer_, mutex_buffers_, held, ref, calls, file>>

\* Line by line, without a lock.
Drain ==
  /\ At("file", "drain")
  /\ file' = file \o buffers_[ref["file"]]
  /\ Goto("file", "clear")
  /\ UNCHANGED <<ring, current_buffer_, locks, asleep, held, ref, calls>>

\* Slip: the buffer is offered again but not cleared.
ClearNothing ==
  /\ At("file", "clear") /\ mutex_buffers_[ref["file"]] = Nobody
  /\ buffer_is_empty_' = [buffer_is_empty_ EXCEPT ![ref["file"]] = TRUE]
  /\ Goto("file", "fetch")
  /\ UNCHANGED <<buffers_, queue_buffers_, current_buffer_, locks, asleep, held, ref, calls,
                 file>>

Clear ==
  /\ At("file", "clear") /\ mutex_buffers_[ref["file"]] = Nobody
  /\ buffers_' = [buffers_ EXCEPT ![ref["file"]] = <<>>]
  /\ buffer_is_empty_' = [buffer_is_empty_ EXCEPT ![ref["file"]] = TRUE]
  /\ Goto("file", "fetch")
  /\ UNCHANGED <<queue_buffers_, current_buffer_, locks, asleep, held, ref, calls, file>>

SpuriousWakeup ==
  /\ asleep
  /\ asleep' = FALSE
  /\ UNCHANGED <<ring, current_buffer_, locks, pc, held, ref, calls, file>>
-----------------------------------------------------------------------------
(* The destructor: stop, Flush (above), notify_all, join. *)

Stop ==
  /\ dtor = "no" /\ At("writer", "idle") /\ At("flusher", "idle")
  /\ stop_thread_' = TRUE
  /\ dtor' = "stopped"
  /\ UNCHANGED <<ring, current_buffer_, locks, asleep, pc, held, ref, written, flushes, file>>

NotifyAll ==
  /\ dtor = "flushing" /\ At("flusher", "idle")
  /\ asleep' = FALSE
  /\ dtor' = "joining"
  /\ UNCHANGED <<ring, current_buffer_, locks, pc, held, ref, stop_thread_, written, flushes,
                 file>>

Join ==
  /\ dtor = "joining" /\ At("file", "exit")
  /\ dtor' = "done"
  /\ UNCHANGED <<ring, current_buffer_, locks, asleep, pc, held, ref, stop_thread_, written,
                 flushes, file>>

Write == CallWrite \/ LockBuffer("writer") \/ LoadBuffer \/ PushBack \/ TestFull
         \/ QueueFull \/ NextBuffer("writer") \/ ReturnWrite
Flush == CallFlush \/ LockBuffer("flusher") \/ TestEmpty \/ QueueFlushed \/ FlagFlushed
         \/ NextBuffer("flusher") \/ ReturnFlush
WriteToFile == Fetch \/ Wait \/ Drain \/ Clear
Destroy == Stop \/ NotifyAll \/ Join

Next == Write \/ Flush \/ WriteToFile \/ SpuriousWakeup \/ Destroy

Spec == Init /\ [][Next]_vars

\* One of Write and Flush looks for the next buffer during a call of the other.
\* Nothing in the class prevents it: Write looks without mutex_queue_, and the
\* mutex of the buffer that is left is not that of the buffer that is found.
Meeting ==
  \E t, u \in {"writer", "flusher"} :
    /\ t # u /\ ~At(u, "idle")
    /\ pc[t] \in {"search", "compare", "step", "store"}

\* Spec /\ []~Meeting: calls of Write and Flush overlap and wait for each
\* other's mutex, but current_buffer_ does not move under another's feet.
SpecApart == Init /\ [][Next /\ ~Meeting']_vars

\* Threads that are not blocked run, and one that asks for a mutex gets it if it
\* is released again and again (strong fairness: spurious wakeups take
\* mutex_queue_ in between).  Nobody is obliged to call Write or Flush or to
\* destroy the object.
Fairness ==
  /\ SF_vars(Write /\ ~At("writer", "idle"))
  /\ SF_vars(Flush /\ (~At("flusher", "idle") \/ dtor = "stopped"))
  /\ SF_vars(WriteToFile)
  /\ WF_vars(NotifyAll \/ Join)

FairSpec == Spec /\ Fairness
FairSpecApart == SpecApart /\ Fairness
-----------------------------------------------------------------------------
TypeOK ==
  /\ buffers_ \in [Index -> Seq(1 .. written)]
  /\ buffer_is_empty_ \in [Index -> BOOLEAN]
  /\ current_buffer_ \in Index
  /\ queue_buffers_ \in Seq(Index)
  /\ stop_thread_ = (dtor # "no")
  /\ mutex_buffers_ \in [Index -> Threads \cup {Nobody}]
  /\ mutex_queue_ \in Threads \cup {Nobody}
  /\ asleep => At("file", "fetch")
  /\ pc["file"] \in {"fetch", "wait", "drain", "clear", "exit"}
  /\ \A t \in {"writer", "flusher"} :
       pc[t] \in {"idle", "lock", "load", "push", "full", "queue", "flag", "search", "compare",
                  "step", "store", "notify"}
  /\ held \in [Threads -> Index] /\ ref \in [Threads -> Index]
  /\ written \in 0 .. MaxMsg /\ flushes \in 0 .. MaxFlush
  /\ file \in Seq(1 .. written)

\* The buffer a thread is about to read or change, and whether it changes it.
Access(t) ==
  CASE t = "writer" /\ At(t, "push") -> {[buffer |-> ref[t], writes |-> TRUE]}
    [] t = "writer" /\ At(t, "full") -> {[buffer |-> current_buffer_, writes |-> FALSE]}
    [] t = "flusher" /\ At(t, "load") -> {[buffer |-> current_buffer_, writes |-> FALSE]}
    [] t = "file" /\ At(t, "drain") -> {[buffer |-> ref[t], writes |-> FALSE]}
    [] t = "file" /\ At(t, "clear") /\ mutex_buffers_[ref[t]] = Nobody ->
         {[buffer |-> ref[t], writes |-> TRUE]}
    [] OTHER -> {}

\* No buffer is changed by one thread while another may read or change it.
NoBufferRace ==
  \A t, u \in Threads : t # u =>
    \A a \in Access(t), b \in Access(u) :
      a.buffer = b.buffer => ~a.writes /\ ~b.writes

\* The buffers that are on their way to the file.
InTransit ==
  Range(queue_buffers_)
  \cup (IF pc["file"] \in {"drain", "clear"} THEN {ref["file"]} ELSE {})

\* The messages in the ring that the file does not have yet, oldest first.
InRing ==
  (IF At("file", "drain") THEN buffers_[ref["file"]] ELSE <<>>)
  \o FlattenSeq([k \in DOMAIN queue_buffers_ |-> buffers_[queue_buffers_[k]]])
  \o (IF current_buffer_ \in InTransit THEN <<>> ELSE buffers_[current_buffer_])

\* What Write has stored, if it has come to that.
Stored == IF pc["writer"] \in {"lock", "load", "push"} THEN written - 1 ELSE written

\* The file and the ring together hold every message once and in order.
NothingLost == file \o InRing = [i \in 1 .. Stored |-> i]

\* The index that both Write and Flush move, each under another mutex, stays
\* inside the arrays.
IndexInRange == current_buffer_ \in Index

\* Until the object is destroyed, a queued buffer gets to the file, if calls of
\* Flush return: one that looks in vain for an empty buffer keeps mutex_queue_,
\* which the file thread needs to empty one.
QueuedIsWritten ==
  []<>At("flusher", "idle") =>
    \A i \in Index :
      (i \in Range(queue_buffers_)) ~> (i \notin Range(queue_buffers_) \/ stop_thread_)

\* Write returns, also when every buffer is full and it spins until the file
\* thread has emptied one.
WriteReturns == ~At("writer", "idle") ~> At("writer", "idle")

\* Flush returns, so that whoever calls it, holding the Logger's mutex or
\* destroying the object, is not blocked for ever.
FlushReturns == ~At("flusher", "idle") ~> At("flusher", "idle")

\* Everything that was written is in the file when the destructor, which
\* flushes, has returned.
ClosedIsWritten == dtor = "done" => file = [i \in 1 .. written |-> i]

\* The file thread obeys the control signal stop_thread_.
StopObeyed == stop_thread_ ~> At("file", "exit")
=============================================================================
