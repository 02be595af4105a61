------------------------- MODULE FileLogPolicyProofs --------------------------
(***************************************************************************)
(* For any number and size of the buffers, any number of messages and any  *)
(* number of calls of Flush, which may overlap those of Write: as long as  *)
(* neither looks for the next buffer while the other is under way, the     *)
(* ring never touches a buffer that the file thread owns, current_buffer_  *)
(* stays inside the arrays, no buffer is queued twice, and the file and    *)
(* the ring together hold every message once and in order.  (Where they do *)
(* meet, TLC refutes the first.)                                           *)
(***************************************************************************)
EXTENDS FileLogPolicy, SequenceTheorems, WellFoundedInduction, TLAPS

Callers == {"writer", "flusher"}
Walking == {"search", "compare", "step", "store"}
Labels == {"idle", "lock", "load", "push", "full", "queue", "flag", "search", "compare", "step",
           "store", "notify", "fetch", "wait", "drain", "clear", "exit"}
Busy == pc["file"] \in {"drain", "clear"}

\* A call that is past its lock holds that mutex, and until it looks for the
\* next buffer it is the mutex of the buffer that is written to.
Owners ==
  /\ pc \in [Threads -> Labels]
  /\ \A t \in Callers :
       /\ pc[t] \notin {"idle", "lock"} => mutex_buffers_[held[t]] = t
       /\ pc[t] \notin Walking \cup {"idle", "notify"} => held[t] = current_buffer_

\* Who is inside the critical section of the queue.
Locked ==
  /\ pc["flusher"] \in Walking \cup {"flag", "notify"} => mutex_queue_ = "flusher"
  /\ At("file", "wait") => mutex_queue_ = "file"

\* What the callers remember of current_buffer_ is still so, and it is offered
\* for writing unless one of them is looking for the next.
Walk ==
  /\ ~At("writer", "idle") => written >= 1
  /\ At("writer", "push") => ref["writer"] = current_buffer_
  /\ \A t \in Callers : At(t, "step") => current_buffer_ + 1 \in Index
  /\ (\A t \in Callers : pc[t] \notin Walking) => buffer_is_empty_[current_buffer_]

\* A buffer is queued once, and not offered until the file thread is through
\* with it; a flushed one gets its flag a step after it is queued.
Transit ==
  /\ IsInjective(queue_buffers_)
  /\ Busy => ~buffer_is_empty_[ref["file"]]
  /\ \A k \in 1 .. Len(queue_buffers_) :
       /\ Busy => queue_buffers_[k] # ref["file"]
       /\ \/ ~buffer_is_empty_[queue_buffers_[k]]
          \/ At("flusher", "flag") /\ queue_buffers_[k] = current_buffer_

\* The inductive invariant.
IInv == TypeOK /\ Owners /\ Locked /\ Walk /\ Transit
-----------------------------------------------------------------------------
\* Queueing a buffer that is not in the queue.
LEMMA Queued ==
  ASSUME NEW s \in Seq(Index), IsInjective(s), NEW b \in Index,
         \A k \in 1 .. Len(s) : s[k] # b
  PROVE  /\ Append(s, b) \in Seq(Index) /\ IsInjective(Append(s, b))
         /\ Len(Append(s, b)) = Len(s) + 1 /\ Len(s) \in Nat
         /\ \A k \in 1 .. Len(s) : Append(s, b)[k] = s[k]
         /\ Append(s, b)[Len(s) + 1] = b
  <1>1. /\ Append(s, b) \in Seq(Index) /\ Len(Append(s, b)) = Len(s) + 1
        /\ \A i \in 1 .. Len(s) : Append(s, b)[i] = s[i]
        /\ Append(s, b)[Len(s) + 1] = b
        /\ Len(s) \in Nat
    BY AppendProperties, LenProperties
  <1>2. DOMAIN s = 1 .. Len(s) /\ DOMAIN Append(s, b) = 1 .. Len(s) + 1
    BY <1>1, LenProperties
  <1>. QED  BY <1>1, <1>2 DEF IsInjective

\* Taking the oldest buffer off the queue.
LEMMA Unqueued ==
  ASSUME NEW s \in Seq(Index), IsInjective(s), s # <<>>
  PROVE  /\ Head(s) \in Index /\ Tail(s) \in Seq(Index) /\ IsInjective(Tail(s))
         /\ Head(s) = s[1] /\ 1 \in 1 .. Len(s)
         /\ \A k \in 1 .. Len(Tail(s)) :
              /\ k + 1 \in 1 .. Len(s) /\ Tail(s)[k] = s[k + 1] /\ Tail(s)[k] # Head(s)
  <1>1. /\ Head(s) \in Index /\ Tail(s) \in Seq(Index)
        /\ Len(Tail(s)) = Len(s) - 1
        /\ \A i \in 1 .. Len(Tail(s)) : Tail(s)[i] = s[i + 1]
    BY HeadTailProperties
  <1>2. Head(s) = s[1]
    OBVIOUS
  <1>3. /\ DOMAIN s = 1 .. Len(s) /\ DOMAIN Tail(s) = 1 .. Len(Tail(s))
        /\ Len(s) \in Nat \ {0}
    BY <1>1, LenProperties, EmptySeq
  <1>. QED  BY <1>1, <1>2, <1>3 DEF IsInjective
-----------------------------------------------------------------------------
LEMMA InitIInv == Init => IInv
  <1>. SUFFICES ASSUME Init  PROVE IInv
    OBVIOUS
  <1>1. /\ queue_buffers_ \in Seq(Index) /\ Len(queue_buffers_) = 0
        /\ DOMAIN queue_buffers_ = {} /\ file \in Seq(1 .. written)
        /\ buffers_ \in [Index -> Seq(1 .. written)]
    BY DEF Init
  <1>2. 0 \in Index
    BY FileLogAssumption DEF Index
  <1>3. TypeOK
    <2>1. /\ held \in [Threads -> Index] /\ ref \in [Threads -> Index]
          /\ mutex_buffers_ \in [Index -> Threads \cup {Nobody}]
          /\ mutex_queue_ \in Threads \cup {Nobody}
          /\ buffer_is_empty_ \in [Index -> BOOLEAN] /\ current_buffer_ \in Index
      BY <1>2 DEF Init
    <2>2. pc["file"] = "fetch" /\ \A t \in {"writer", "flusher"} : pc[t] = "idle"
      BY DEF Init, Threads
    <2>3. written \in 0 .. MaxMsg /\ flushes \in 0 .. MaxFlush
      BY FileLogAssumption DEF Init
    <2>4. stop_thread_ = (dtor # "no") /\ ~asleep
      BY DEF Init
    <2>. QED  BY <1>1, <2>1, <2>2, <2>3, <2>4 DEF TypeOK
  <1>4. Owners /\ Locked /\ Walk
    BY <1>2 DEF Init, Owners, Locked, Walk, Callers, Walking, Threads, Labels, At
  <1>5. Transit
    BY <1>1 DEF Init, Transit, Busy, Threads, IsInjective
  <1>. QED  BY <1>3, <1>4, <1>5 DEF IInv

\* A step that leaves the ring, the queue and the place in it alone: a label,
\* an index or a mutex changes.
Quiet(t, from, to) ==
  /\ pc[t] = from /\ from # "idle" /\ pc' = [pc EXCEPT ![t] = to]
  /\ to \in {"idle", "load", "search", "compare", "step", "store", "queue", "push", "notify",
             "full"}
  /\ UNCHANGED <<ring, current_buffer_, held, calls, file>>
  /\ \/ from = "lock" /\ to = "load" /\ mutex_buffers_[held[t]] = Nobody
        /\ mutex_buffers_' = [mutex_buffers_ EXCEPT ![held[t]] = t]
     \/ from # "lock" /\ to = "idle"
        /\ mutex_buffers_' = [mutex_buffers_ EXCEPT ![held[t]] = Nobody]
     \/ from # "lock" /\ UNCHANGED mutex_buffers_
  /\ asleep' => asleep
  /\ \/ UNCHANGED mutex_queue_
     \/ t = "flusher" /\ from = "notify" /\ to = "idle" /\ mutex_queue_' = Nobody
  /\ UNCHANGED ref \/ \E r \in Index : ref' = [ref EXCEPT ![t] = r]
  /\ to = "push" => t = "writer" /\ ref'[t] = current_buffer_
  /\ to = "step" => current_buffer_ + 1 \in Index
  /\ from # "flag" /\ (from \in Walking <=> to \in Walking \cup {"notify"})
  /\ from = "notify" => to = "idle"
  /\ to = "notify" => buffer_is_empty_[current_buffer_]

LEMMA QuietIInv ==
  ASSUME IInv, NEW t \in Callers, NEW from, NEW to, Quiet(t, from, to)
  PROVE  IInv'
  <1>. USE DEF IInv, At, Callers, Threads, Labels, Quiet
  <1>1. UNCHANGED <<buffers_, buffer_is_empty_, queue_buffers_, current_buffer_, held,
                    stop_thread_, dtor, written, flushes, file>>
    BY DEF ring, calls
  <1>2. /\ pc' \in [Threads -> Labels] /\ pc'[t] = to
        /\ \A u \in Threads : u # t => pc'[u] = pc[u]
    BY DEF Owners, TypeOK
  <1>3. /\ ref' \in [Threads -> Index]
        /\ \A u \in Threads : u # t => ref'[u] = ref[u]
    <2>1. CASE UNCHANGED ref
      BY <2>1 DEF TypeOK
    <2>2. ASSUME NEW r \in Index, ref' = [ref EXCEPT ![t] = r]
          PROVE  <1>3!1
      BY <2>2 DEF TypeOK
    <2>. QED  BY <2>1, <2>2
  <1>3a. /\ mutex_buffers_' \in [Index -> Threads \cup {Nobody}]
         /\ \A u \in Callers : held[u] \in Index
    BY DEF TypeOK
  <1>4. TypeOK'
    BY <1>1, <1>2, <1>3, <1>3a DEF TypeOK
  <1>5. Owners'
    <2>1. ASSUME NEW u \in Callers, pc'[u] \notin {"idle", "lock"}
          PROVE  mutex_buffers_'[held[u]] = u
      BY <1>2, <1>3a, <2>1 DEF Owners, TypeOK, Nobody
    <2>2. ASSUME NEW u \in Callers, pc'[u] \notin Walking \cup {"idle", "notify"}
          PROVE  held[u] = current_buffer_
      BY <1>2, <2>2 DEF Owners, Walking
    <2>. QED  BY <1>1, <1>2, <2>1, <2>2 DEF Owners
  <1>6. Locked'
    BY <1>1, <1>2 DEF Locked, Walking
  <1>7. Walk'
    BY <1>1, <1>2, <1>3 DEF Walk, Walking
  <1>8. Transit'
    BY <1>1, <1>2, <1>3 DEF Transit, Busy
  <1>. QED  BY <1>4, <1>5, <1>6, <1>7, <1>8

\* Write or Flush takes its mutex, or looks for the next buffer.
LEMMA SearchIInv ==
  ASSUME IInv, NEW t \in Callers, LockBuffer(t) \/ Search(t) \/ Compare(t) \/ Step(t)
  PROVE  IInv'
  <1>1. /\ t \in Threads /\ 0 \in Index /\ current_buffer_ \in Index
        /\ mutex_buffers_ \in [Index -> Threads \cup {Nobody}]
    <2>1. t \in Threads
      BY DEF Callers, Threads
    <2>2. 0 \in Index
      BY FileLogAssumption DEF Index
    <2>3. current_buffer_ \in Index /\ mutex_buffers_ \in [Index -> Threads \cup {Nobody}]
      BY Zenon DEF IInv, TypeOK
    <2>. QED  BY <2>1, <2>2, <2>3
  <1>. USE DEF At, Goto, Quiet, Walking, locks
  <1>2. CASE LockBuffer(t)
    <2>1. Quiet(t, "lock", "load")
      BY <1>1, <1>2 DEF LockBuffer
    <2>. QED  BY <2>1, QuietIInv
  <1>3. CASE Search(t)
    <2>1. Quiet(t, "search", "notify") \/ Quiet(t, "search", "compare")
      BY <1>1, <1>3 DEF Search
    <2>. QED  BY <2>1, QuietIInv
  <1>4. CASE Compare(t)
    <2>1. ~(current_buffer_ + 1 > NBuf - 1) => current_buffer_ + 1 \in Index
      BY <1>1, FileLogAssumption DEF Index
    <2>2. Quiet(t, "compare", "store") \/ Quiet(t, "compare", "step")
      BY <1>1, <1>4, <2>1 DEF Compare
    <2>. QED  BY <2>2, QuietIInv
  <1>5. CASE Step(t)
    <2>1. current_buffer_ + 1 \in Index
      BY <1>5 DEF IInv, Walk, Step
    <2>2. Quiet(t, "step", "store")
      BY <1>1, <1>5, <2>1 DEF Step
    <2>. QED  BY <2>2, QuietIInv
  <1>. QED  BY <1>2, <1>3, <1>4, <1>5

\* The steps of Write and Flush that look at a buffer, and their returns.
LEMMA LookIInv ==
  ASSUME IInv, LoadBuffer \/ TestFull \/ TestEmpty \/ ReturnWrite \/ ReturnFlush
  PROVE  IInv'
  <1>1. /\ "writer" \in Callers /\ "flusher" \in Callers
        /\ current_buffer_ \in Index /\ ref \in [Threads -> Index]
        /\ mutex_buffers_ \in [Index -> Threads \cup {Nobody}]
        /\ \A t \in Callers : [mutex_buffers_ EXCEPT ![held[t]] = Nobody]
                                \in [Index -> Threads \cup {Nobody}]
    BY DEF IInv, TypeOK, Callers, Threads
  <1>. USE DEF At, Goto, Quiet, Walking, Unlock
  <1>2. CASE LoadBuffer
    <2>1. ref'["writer"] = current_buffer_
      BY <1>1, <1>2 DEF LoadBuffer, Threads
    <2>2. Quiet("writer", "load", "push")
      BY <1>1, <1>2, <2>1 DEF LoadBuffer, locks
    <2>. QED  BY <1>1, <2>2, QuietIInv
  <1>3. CASE TestFull
    <2>1. Quiet("writer", "full", "queue") \/ Quiet("writer", "full", "idle")
      BY <1>1, <1>3 DEF TestFull
    <2>. QED  BY <1>1, <2>1, QuietIInv
  <1>4. CASE TestEmpty
    <2>1. Quiet("flusher", "load", "queue") \/ Quiet("flusher", "load", "idle")
      BY <1>1, <1>4 DEF TestEmpty
    <2>. QED  BY <1>1, <2>1, QuietIInv
  <1>5. CASE ReturnWrite
    <2>1. Quiet("writer", "notify", "idle")
      BY <1>1, <1>5 DEF ReturnWrite
    <2>. QED  BY <1>1, <2>1, QuietIInv
  <1>6. CASE ReturnFlush
    <2>1. Quiet("flusher", "notify", "idle")
      BY <1>1, <1>6 DEF ReturnFlush
    <2>. QED  BY <1>1, <2>1, QuietIInv
  <1>. QED  BY <1>2, <1>3, <1>4, <1>5, <1>6

\* At most one of Write and Flush is between its lock and its notification: their
\* mutex is the same until one of them looks for the next buffer.
LEMMA Alone ==
  ASSUME IInv, ~Meeting, NEW t \in Callers, pc[t] \notin {"idle", "lock", "notify"},
         NEW u \in Callers, u # t
  PROVE  /\ pc[u] \in {"idle", "lock", "notify"}
         /\ pc[t] \in Walking => pc[u] = "idle"
  <1>1. /\ pc[t] \in Walking => pc[u] = "idle"
        /\ pc[u] \notin Walking
    BY DEF Meeting, Walking, Callers, At
  <1>. QED  BY <1>1 DEF IInv, Owners

LEMMA AdvanceIInv ==
  ASSUME IInv, ~Meeting, NEW t \in Callers, Advance(t)
  PROVE  IInv'
  <1>. USE DEF IInv, At, Callers, Threads, Labels
  <1>1. /\ pc[t] = "store" /\ pc' = [pc EXCEPT ![t] = "search"] /\ current_buffer_' = ref[t]
        /\ UNCHANGED <<buffers_, buffer_is_empty_, queue_buffers_, mutex_buffers_, mutex_queue_,
                       asleep, held, ref, stop_thread_, dtor, written, flushes, file>>
    BY DEF Advance, Goto, ring, locks, calls
  <1>2. /\ pc' \in [Threads -> Labels] /\ pc'[t] = "search" /\ current_buffer_' \in Index
        /\ \A u \in Threads : u # t => pc'[u] = pc[u]
        /\ \A u \in Callers : u # t => pc[u] = "idle"
    BY <1>1, Alone DEF Owners, TypeOK, Walking
  <1>3. TypeOK'
    BY <1>1, <1>2 DEF TypeOK
  <1>4. Owners' /\ Locked' /\ Walk'
    BY <1>1, <1>2 DEF Owners, Locked, Walk, Walking
  <1>5. Transit'
    BY <1>1, <1>2 DEF Transit, Busy
  <1>. QED  BY <1>3, <1>4, <1>5

\* Write is called, and stores its message.
LEMMA CallWriteIInv ==
  ASSUME IInv, CallWrite
  PROVE  IInv'
  <1>. USE DEF IInv, At, Callers, Threads, Labels
  <1>1. /\ pc["writer"] = "idle" /\ dtor = "no" /\ written < MaxMsg /\ written' = written + 1
        /\ pc' = [pc EXCEPT !["writer"] = "lock"]
        /\ held' = [held EXCEPT !["writer"] = current_buffer_]
        /\ UNCHANGED <<buffers_, buffer_is_empty_, queue_buffers_, current_buffer_, mutex_buffers_,
                       mutex_queue_, asleep, ref, stop_thread_, dtor, flushes, file>>
    BY DEF CallWrite, Goto, ring, locks
  <1>2. /\ pc' \in [Threads -> Labels] /\ pc'["writer"] = "lock"
        /\ \A u \in Threads : u # "writer" => pc'[u] = pc[u]
        /\ written' \in 1 .. MaxMsg
    BY <1>1, FileLogAssumption DEF Owners, TypeOK
  <1>3. TypeOK'
    <2>1. \A s \in Seq(1 .. written) : s \in Seq(1 .. written + 1)
      BY SeqMonotonic, FileLogAssumption DEF TypeOK
    <2>2. buffers_' \in [Index -> Seq(1 .. written')] /\ file' \in Seq(1 .. written')
      BY <1>1, <2>1 DEF TypeOK
    <2>3. held' \in [Threads -> Index]
      BY <1>1 DEF TypeOK
    <2>. QED  BY <1>1, <1>2, <2>2, <2>3 DEF TypeOK
  <1>4. Owners' /\ Locked' /\ Walk'
    BY <1>1, <1>2 DEF Owners, Locked, Walk, Walking, TypeOK
  <1>5. Transit'
    BY <1>1, <1>2 DEF Transit, Busy
  <1>. QED  BY <1>3, <1>4, <1>5

LEMMA PushBackIInv ==
  ASSUME IInv, PushBack
  PROVE  IInv'
  <1>. USE DEF IInv, At, Callers, Threads, Labels
  <1>1. /\ pc["writer"] = "push" /\ pc' = [pc EXCEPT !["writer"] = "full"]
        /\ buffers_' = [buffers_ EXCEPT ![ref["writer"]] = Append(@, written)]
        /\ UNCHANGED <<buffer_is_empty_, queue_buffers_, current_buffer_, mutex_buffers_,
                       mutex_queue_, asleep, held, ref, stop_thread_, dtor, written, flushes,
                       file>>
    BY DEF PushBack, Goto, locks, calls
  <1>2. /\ pc' \in [Threads -> Labels] /\ pc'["writer"] = "full"
        /\ \A u \in Threads : u # "writer" => pc'[u] = pc[u]
    BY <1>1 DEF Owners
  <1>3. TypeOK'
    <2>1. written \in 1 .. written
      BY <1>1 DEF Walk, TypeOK
    <2>2. \A s \in Seq(1 .. written) : Append(s, written) \in Seq(1 .. written)
      BY <2>1, AppendProperties
    <2>3. buffers_' \in [Index -> Seq(1 .. written)]
      BY <1>1, <2>2 DEF TypeOK
    <2>. QED  BY <1>1, <1>2, <2>3 DEF TypeOK
  <1>4. Owners' /\ Locked' /\ Walk'
    BY <1>1, <1>2 DEF Owners, Locked, Walk, Walking
  <1>5. Transit'
    BY <1>1, <1>2 DEF Transit, Busy
  <1>. QED  BY <1>3, <1>4, <1>5

\* The buffer that Write or Flush queues is not on its way yet.
LEMMA CurrentFresh ==
  ASSUME IInv, ~Meeting, NEW t \in Callers, pc[t] = "queue"
  PROVE  /\ buffer_is_empty_[current_buffer_] /\ (Busy => ref["file"] # current_buffer_)
         /\ \A k \in 1 .. Len(queue_buffers_) : queue_buffers_[k] # current_buffer_
         /\ pc["flusher"] # "flag"
  <1>1. \A u \in Callers : pc[u] \in {"idle", "lock", "notify", "queue"}
    BY Alone
  <1>2. buffer_is_empty_[current_buffer_] /\ pc["flusher"] # "flag"
    BY <1>1 DEF IInv, Walk, Walking, Callers
  <1>. QED  BY <1>2 DEF IInv, Transit, At

LEMMA QueueFullIInv ==
  ASSUME IInv, ~Meeting, QueueFull
  PROVE  IInv'
  <1>1. /\ pc["writer"] = "queue" /\ pc' = [pc EXCEPT !["writer"] = "search"]
        /\ queue_buffers_' = Append(queue_buffers_, current_buffer_)
        /\ buffer_is_empty_' = [buffer_is_empty_ EXCEPT ![current_buffer_] = FALSE]
        /\ UNCHANGED <<buffers_, current_buffer_, mutex_buffers_, mutex_queue_, asleep, held, ref,
                       stop_thread_, dtor, written, flushes, file>>
    BY DEF QueueFull, At, Goto, locks, calls
  <1>2. /\ Busy => ref["file"] # current_buffer_
        /\ \A k \in 1 .. Len(queue_buffers_) : queue_buffers_[k] # current_buffer_
        /\ pc["flusher"] # "flag"
    BY <1>1, CurrentFresh DEF Callers
  <1>. USE DEF IInv, At, Callers, Threads, Labels
  <1>3. /\ pc' \in [Threads -> Labels] /\ pc'["writer"] = "search"
        /\ \A u \in Threads : u # "writer" => pc'[u] = pc[u]
        /\ \A i \in Index : buffer_is_empty_'[i] = (buffer_is_empty_[i] /\ i # current_buffer_)
        /\ buffer_is_empty_' \in [Index -> BOOLEAN]
    BY <1>1 DEF Owners, TypeOK
  <1>4. /\ queue_buffers_' \in Seq(Index) /\ IsInjective(queue_buffers_)'
        /\ Len(queue_buffers_') = Len(queue_buffers_) + 1 /\ Len(queue_buffers_) \in Nat
        /\ \A k \in 1 .. Len(queue_buffers_) : queue_buffers_'[k] = queue_buffers_[k]
        /\ queue_buffers_'[Len(queue_buffers_) + 1] = current_buffer_
    BY <1>1, <1>2, Queued DEF TypeOK, Transit
  <1>5. TypeOK'
    BY <1>1, <1>3, <1>4 DEF TypeOK
  <1>6. Owners' /\ Locked' /\ Walk'
    BY <1>1, <1>3 DEF Owners, Locked, Walk, Walking
  <1>7. Transit'
    <2>1. Busy' = Busy
      BY <1>3 DEF Busy
    <2>2. Busy => ref["file"] \in Index /\ ~buffer_is_empty_'[ref["file"]]
      BY <1>2, <1>3 DEF Transit, TypeOK
    <2>3. ASSUME NEW k \in 1 .. Len(queue_buffers_)
          PROVE  ~buffer_is_empty_'[queue_buffers_'[k]] /\ (Busy => queue_buffers_'[k] # ref["file"])
      <3>1. queue_buffers_[k] \in Index
        BY ElementOfSeq DEF TypeOK
      <3>. QED  BY <1>2, <1>3, <1>4, <3>1 DEF Transit
    <2>4. ~buffer_is_empty_'[current_buffer_]
      BY <1>3 DEF TypeOK
    <2>. QED  BY <1>1, <1>2, <1>4, <2>1, <2>2, <2>3, <2>4 DEF Transit
  <1>. QED  BY <1>5, <1>6, <1>7

\* Flush queues the buffer and then takes it out of the ring.
LEMMA CallFlushIInv ==
  ASSUME IInv, CallFlush
  PROVE  IInv'
  <1>. USE DEF IInv, At, Callers, Threads, Labels
  <1>1. /\ pc["flusher"] = "idle" /\ stop_thread_' = (dtor' # "no") /\ flushes' \in 0 .. MaxFlush
        /\ pc' = [pc EXCEPT !["flusher"] = "lock"]
        /\ held' = [held EXCEPT !["flusher"] = current_buffer_]
        /\ UNCHANGED <<buffers_, buffer_is_empty_, queue_buffers_, current_buffer_, mutex_buffers_,
                       mutex_queue_, asleep, ref, stop_thread_, written, file>>
    BY FileLogAssumption DEF CallFlush, Goto, ring, locks, TypeOK
  <1>2. /\ pc' \in [Threads -> Labels] /\ pc'["flusher"] = "lock"
        /\ \A u \in Threads : u # "flusher" => pc'[u] = pc[u]
        /\ held' \in [Threads -> Index]
    BY <1>1 DEF Owners, TypeOK
  <1>3. TypeOK' /\ Owners'
    BY <1>1, <1>2 DEF Owners, TypeOK
  <1>4. Locked' /\ Walk'
    BY <1>1, <1>2 DEF Locked, Walk, Walking
  <1>5. Transit'
    BY <1>1, <1>2 DEF Transit, Busy
  <1>. QED  BY <1>3, <1>4, <1>5

LEMMA QueueFlushedIInv ==
  ASSUME IInv, ~Meeting, QueueFlushed
  PROVE  IInv'
  <1>1. /\ pc["flusher"] = "queue" /\ pc' = [pc EXCEPT !["flusher"] = "flag"]
        /\ mutex_queue_ = Nobody /\ mutex_queue_' = "flusher"
        /\ queue_buffers_' = Append(queue_buffers_, current_buffer_)
        /\ UNCHANGED <<buffers_, buffer_is_empty_, current_buffer_, mutex_buffers_, asleep, held,
                       ref, stop_thread_, dtor, written, flushes, file>>
    BY DEF QueueFlushed, At, Goto, calls
  <1>2. /\ buffer_is_empty_[current_buffer_] /\ (Busy => ref["file"] # current_buffer_)
        /\ \A k \in 1 .. Len(queue_buffers_) : queue_buffers_[k] # current_buffer_
    BY <1>1, CurrentFresh DEF Callers
  <1>. USE DEF IInv, At, Callers, Threads, Labels
  <1>3. /\ pc' \in [Threads -> Labels] /\ pc'["flusher"] = "flag"
        /\ \A u \in Threads : u # "flusher" => pc'[u] = pc[u]
    BY <1>1 DEF Owners
  <1>4. /\ queue_buffers_' \in Seq(Index) /\ IsInjective(queue_buffers_)'
        /\ Len(queue_buffers_') = Len(queue_buffers_) + 1 /\ Len(queue_buffers_) \in Nat
        /\ \A k \in 1 .. Len(queue_buffers_) : queue_buffers_'[k] = queue_buffers_[k]
        /\ queue_buffers_'[Len(queue_buffers_) + 1] = current_buffer_
    BY <1>1, <1>2, Queued DEF TypeOK, Transit
  <1>5. TypeOK'
    BY <1>1, <1>3, <1>4 DEF TypeOK
  <1>6. Owners' /\ Locked' /\ Walk'
    BY <1>1, <1>2, <1>3 DEF Owners, Locked, Walk, Walking, Nobody
  <1>7. Transit'
    BY <1>1, <1>2, <1>3, <1>4 DEF Transit, Busy
  <1>. QED  BY <1>5, <1>6, <1>7

LEMMA FlagFlushedIInv ==
  ASSUME IInv, FlagFlushed
  PROVE  IInv'
  <1>. USE DEF IInv, At, Callers, Threads, Labels
  <1>1. /\ pc["flusher"] = "flag" /\ pc' = [pc EXCEPT !["flusher"] = "search"]
        /\ buffer_is_empty_' = [buffer_is_empty_ EXCEPT ![current_buffer_] = FALSE]
        /\ UNCHANGED <<buffers_, queue_buffers_, current_buffer_, mutex_buffers_, mutex_queue_,
                       asleep, held, ref, stop_thread_, dtor, written, flushes, file>>
    BY DEF FlagFlushed, Goto, locks, calls
  <1>2. /\ pc' \in [Threads -> Labels] /\ pc'["flusher"] = "search"
        /\ \A u \in Threads : u # "flusher" => pc'[u] = pc[u]
        /\ \A i \in Index : buffer_is_empty_'[i] = (buffer_is_empty_[i] /\ i # current_buffer_)
        /\ buffer_is_empty_' \in [Index -> BOOLEAN]
    BY <1>1 DEF Owners, TypeOK
  <1>3. TypeOK'
    BY <1>1, <1>2 DEF TypeOK
  <1>4. Owners' /\ Locked' /\ Walk'
    BY <1>1, <1>2 DEF Owners, Locked, Walk, Walking
  <1>5. Transit'
    <2>1. \A k \in 1 .. Len(queue_buffers_) : queue_buffers_[k] \in Index
      BY ElementOfSeq DEF TypeOK
    <2>2. ref["file"] \in Index
      BY DEF TypeOK
    <2>. QED  BY <1>1, <1>2, <2>1, <2>2 DEF Transit, Busy
  <1>. QED  BY <1>3, <1>4, <1>5
-----------------------------------------------------------------------------
\* The file thread takes a buffer, waits, or ends.
LEMMA FetchIInv ==
  ASSUME IInv, Fetch
  PROVE  IInv'
  <1>. USE DEF IInv, At, Callers, Threads, Labels
  <1>1. /\ pc["file"] = "fetch" /\ ~asleep /\ mutex_queue_ = Nobody
        /\ UNCHANGED <<buffers_, buffer_is_empty_, current_buffer_, mutex_buffers_, asleep, held,
                       stop_thread_, dtor, written, flushes, file>>
    BY DEF Fetch, calls
  <1>2. pc["flusher"] # "flag" /\ pc["flusher"] \notin Walking /\ pc["flusher"] # "notify"
    BY <1>1 DEF Locked, Nobody
  <1>3. ASSUME NEW l \in {"wait", "exit"}, pc' = [pc EXCEPT !["file"] = l],
               UNCHANGED <<queue_buffers_, ref>>,
               mutex_queue_' = IF l = "wait" THEN "file" ELSE mutex_queue_
        PROVE  IInv'
    <2>1. /\ pc' \in [Threads -> Labels] /\ pc'["file"] = l
          /\ \A u \in Callers : pc'[u] = pc[u]
      BY <1>3 DEF Owners
    <2>2. TypeOK' /\ Owners'
      BY <1>1, <1>3, <2>1 DEF TypeOK, Owners
    <2>3. Locked' /\ Walk'
      BY <1>1, <1>2, <1>3, <2>1 DEF Locked, Walk, Walking
    <2>4. Transit'
      BY <1>1, <1>3, <2>1 DEF Transit, Busy
    <2>. QED  BY <2>2, <2>3, <2>4
  <1>4. ASSUME queue_buffers_ # <<>>, pc' = [pc EXCEPT !["file"] = "drain"],
               ref' = [ref EXCEPT !["file"] = Head(queue_buffers_)],
               queue_buffers_' = Tail(queue_buffers_), UNCHANGED mutex_queue_
        PROVE  IInv'
    <2>1. /\ pc' \in [Threads -> Labels] /\ pc'["file"] = "drain"
          /\ \A u \in Callers : pc'[u] = pc[u]
      BY <1>4 DEF Owners
    <2>2. /\ Head(queue_buffers_) \in Index /\ queue_buffers_' \in Seq(Index)
          /\ IsInjective(queue_buffers_)'
          /\ Head(queue_buffers_) = queue_buffers_[1] /\ 1 \in 1 .. Len(queue_buffers_)
          /\ \A k \in 1 .. Len(queue_buffers_') :
               /\ k + 1 \in 1 .. Len(queue_buffers_)
               /\ queue_buffers_'[k] = queue_buffers_[k + 1]
               /\ queue_buffers_'[k] # Head(queue_buffers_)
      BY <1>4, Unqueued DEF TypeOK, Transit
    <2>3. /\ ref' \in [Threads -> Index] /\ ref'["file"] = queue_buffers_[1]
          /\ \A u \in Callers : ref'[u] = ref[u]
      BY <1>4, <2>2 DEF TypeOK
    <2>4. TypeOK' /\ Owners'
      BY <1>1, <1>4, <2>1, <2>2, <2>3 DEF TypeOK, Owners
    <2>5. Locked' /\ Walk'
      BY <1>1, <1>2, <1>4, <2>1, <2>3 DEF Locked, Walk, Walking
    <2>6. Transit'
      BY <1>1, <1>2, <2>1, <2>2, <2>3 DEF Transit, Busy
    <2>. QED  BY <2>4, <2>5, <2>6
  <1>. QED  BY <1>3, <1>4 DEF Fetch, Goto

LEMMA WaitIInv ==
  ASSUME IInv, Wait \/ SpuriousWakeup
  PROVE  IInv'
  <1>. USE DEF IInv, At, Callers, Threads, Labels
  <1>1. UNCHANGED <<buffers_, buffer_is_empty_, queue_buffers_, current_buffer_, mutex_buffers_,
                    held, ref, stop_thread_, dtor, written, flushes, file>>
    BY DEF Wait, SpuriousWakeup, ring, locks, calls
  <1>2. CASE SpuriousWakeup
    <2>1. ~asleep' /\ UNCHANGED <<pc, mutex_queue_>>
      BY <1>2 DEF SpuriousWakeup, locks
    <2>2. TypeOK' /\ Owners'
      BY <1>1, <2>1 DEF TypeOK, Owners
    <2>3. Locked' /\ Walk' /\ Transit'
      BY <1>1, <2>1 DEF Locked, Walk, Transit, Busy
    <2>. QED  BY <2>2, <2>3
  <1>3. CASE Wait
    <2>1. /\ pc["file"] = "wait" /\ pc' = [pc EXCEPT !["file"] = "fetch"]
          /\ mutex_queue_' = Nobody
      BY <1>3 DEF Wait, Goto
    <2>2. /\ pc' \in [Threads -> Labels] /\ pc'["file"] = "fetch"
          /\ \A u \in Callers : pc'[u] = pc[u]
      BY <2>1 DEF Owners
    <2>3. mutex_queue_ = "file"
      BY <2>1 DEF Locked
    <2>4. TypeOK' /\ Owners'
      BY <1>1, <2>1, <2>2 DEF TypeOK, Owners
    <2>5. Locked' /\ Walk'
      BY <1>1, <2>1, <2>2, <2>3 DEF Locked, Walk, Walking
    <2>6. Transit'
      BY <1>1, <2>1, <2>2 DEF Transit, Busy
    <2>. QED  BY <2>4, <2>5, <2>6
  <1>. QED  BY <1>2, <1>3

\* It writes a buffer and offers it again.
LEMMA DrainIInv ==
  ASSUME IInv, Drain \/ Clear
  PROVE  IInv'
  <1>. USE DEF IInv, At, Callers, Threads, Labels
  <1>1. UNCHANGED <<queue_buffers_, current_buffer_, mutex_buffers_, mutex_queue_, asleep, held,
                    ref, stop_thread_, dtor, written, flushes>>
    BY DEF Drain, Clear, ring, locks, calls
  <1>2. CASE Drain
    <2>1. /\ pc["file"] = "drain" /\ pc' = [pc EXCEPT !["file"] = "clear"]
          /\ file' = file \o buffers_[ref["file"]] /\ UNCHANGED <<buffers_, buffer_is_empty_>>
      BY <1>2 DEF Drain, Goto, ring
    <2>2. /\ pc' \in [Threads -> Labels] /\ pc'["file"] = "clear"
          /\ \A u \in Callers : pc'[u] = pc[u]
      BY <2>1 DEF Owners
    <2>3. file' \in Seq(1 .. written)
      <3>1. file \in Seq(1 .. written) /\ buffers_[ref["file"]] \in Seq(1 .. written)
        BY DEF TypeOK
      <3>. QED  BY <2>1, <3>1, ConcatProperties
    <2>4. TypeOK' /\ Owners'
      BY <1>1, <2>1, <2>2, <2>3 DEF TypeOK, Owners
    <2>5. Locked' /\ Walk'
      BY <1>1, <2>1, <2>2 DEF Locked, Walk, Walking
    <2>6. Transit'
      BY <1>1, <2>1, <2>2 DEF Transit, Busy
    <2>. QED  BY <2>4, <2>5, <2>6
  <1>3. CASE Clear
    <2>1. /\ pc["file"] = "clear" /\ pc' = [pc EXCEPT !["file"] = "fetch"] /\ UNCHANGED file
          /\ buffers_' = [buffers_ EXCEPT ![ref["file"]] = <<>>]
          /\ buffer_is_empty_' = [buffer_is_empty_ EXCEPT ![ref["file"]] = TRUE]
      BY <1>3 DEF Clear, Goto
    <2>2. /\ pc' \in [Threads -> Labels] /\ pc'["file"] = "fetch"
          /\ \A u \in Callers : pc'[u] = pc[u]
      BY <2>1 DEF Owners
    <2>3. /\ buffers_' \in [Index -> Seq(1 .. written)]
          /\ buffer_is_empty_' \in [Index -> BOOLEAN]
          /\ \A i \in Index : buffer_is_empty_'[i] = (buffer_is_empty_[i] \/ i = ref["file"])
      <3>1. ref["file"] \in Index /\ <<>> \in Seq(1 .. written)
        BY EmptySeq DEF TypeOK
      <3>2. buffers_' \in [Index -> Seq(1 .. written)]
        BY <2>1, <3>1 DEF TypeOK
      <3>. QED  BY <2>1, <3>1, <3>2 DEF TypeOK
    <2>4. TypeOK' /\ Owners'
      BY <1>1, <2>1, <2>2, <2>3 DEF TypeOK, Owners
    <2>5. Locked' /\ Walk'
      BY <1>1, <2>1, <2>2, <2>3 DEF Locked, Walk, Walking, TypeOK
    <2>6. Transit'
      <3>1. \A k \in 1 .. Len(queue_buffers_) : queue_buffers_[k] \in Index
        BY ElementOfSeq DEF TypeOK
      <3>. QED  BY <1>1, <2>1, <2>2, <2>3, <3>1 DEF Transit, Busy
    <2>. QED  BY <2>4, <2>5, <2>6
  <1>. QED  BY <1>2, <1>3

LEMMA DestroyIInv ==
  ASSUME IInv, Destroy
  PROVE  IInv'
  <1>. USE DEF IInv, At, Callers, Threads
  <1>1. /\ UNCHANGED <<buffers_, buffer_is_empty_, queue_buffers_, current_buffer_, mutex_buffers_,
                       mutex_queue_, pc, held, ref, written, flushes, file>>
        /\ asleep' => asleep
        /\ stop_thread_' = (dtor' # "no")
    <2>1. stop_thread_ = (dtor # "no")
      BY DEF TypeOK
    <2>2. CASE Stop
      BY <2>2 DEF Stop, ring, locks
    <2>3. CASE NotifyAll
      BY <2>1, <2>3 DEF NotifyAll, ring, locks
    <2>4. CASE Join
      BY <2>1, <2>4 DEF Join, ring, locks
    <2>. QED  BY <2>2, <2>3, <2>4 DEF Destroy
  <1>2. TypeOK' /\ Owners'
    BY <1>1 DEF TypeOK, Owners
  <1>3. Locked' /\ Walk' /\ Transit'
    BY <1>1 DEF Locked, Walk, Transit, Busy
  <1>. QED  BY <1>2, <1>3
-----------------------------------------------------------------------------
LEMMA StepIInv == IInv /\ ~Meeting /\ [Next]_vars => IInv'
  <1>. SUFFICES ASSUME IInv, ~Meeting, [Next]_vars  PROVE IInv'
    OBVIOUS
  <1>1. CASE Write
    BY <1>1, CallWriteIInv, SearchIInv, LookIInv, PushBackIInv, QueueFullIInv, AdvanceIInv
    DEF Write, NextBuffer, Callers
  <1>2. CASE Flush
    BY <1>2, CallFlushIInv, SearchIInv, LookIInv, QueueFlushedIInv, FlagFlushedIInv, AdvanceIInv
    DEF Flush, NextBuffer, Callers
  <1>3. CASE WriteToFile \/ SpuriousWakeup
    BY <1>3, FetchIInv, WaitIInv, DrainIInv DEF WriteToFile
  <1>4. CASE Destroy
    BY <1>4, DestroyIInv
  <1>5. CASE UNCHANGED vars
    <2>1. UNCHANGED <<buffers_, buffer_is_empty_, queue_buffers_, current_buffer_, mutex_buffers_,
                      mutex_queue_, asleep, pc, held, ref, stop_thread_, dtor, written, flushes,
                      file>>
      BY <1>5 DEF vars, ring, locks, calls
    <2>2. TypeOK' /\ Owners'
      BY <2>1 DEF IInv, TypeOK, Owners, At
    <2>3. Locked' /\ Walk' /\ Transit'
      BY <2>1 DEF IInv, Locked, Walk, Transit, Busy, At
    <2>. QED  BY <2>2, <2>3 DEF IInv
  <1>. QED  BY <1>1, <1>2, <1>3, <1>4, <1>5 DEF Next

LEMMA Apart ==
  /\ Init => ~Meeting
  /\ ~Meeting /\ [Next /\ ~Meeting']_vars => ~Meeting'
  <1>1. Init => ~Meeting
    BY DEF Init, Meeting, At, Threads
  <1>2. vars' = vars => Meeting' = Meeting
    BY DEF vars, Meeting, At
  <1>. QED  BY <1>1, <1>2

\* The inductive invariant: it needs that nobody looks for the next buffer during
\* another's call, and nothing else of the callers of Write and Flush.
THEOREM Invariance == SpecApart => [](IInv /\ ~Meeting)
  BY InitIInv, StepIInv, Apart, PTL DEF SpecApart

\* Every variable stays in its type; above all, current_buffer_, which Write and
\* Flush both move and load several times in one round of NextBuffer, stays inside
\* the arrays, also while calls of both contend for a buffer.
THEOREM TypeCorrect == SpecApart => []TypeOK
  BY Invariance, PTL DEF IInv

\* WriteToFile reads a buffer without a lock: neither Write nor Flush is at that
\* buffer then, and nobody is where it is cleared.  Nor does Flush read the buffer
\* that Write stores in, however their calls overlap: the only way to a race is
\* that one looks for the next buffer while the other is under way.
THEOREM NoRace == SpecApart => []NoBufferRace
  <1>1. IInv /\ ~Meeting => NoBufferRace
    <2>. SUFFICES ASSUME IInv, ~Meeting, NEW t \in Threads, NEW u \in Threads, t # u,
                         NEW a \in Access(t), NEW b \in Access(u), a.buffer = b.buffer,
                         a.writes \/ b.writes
                  PROVE  FALSE
      BY DEF NoBufferRace
    <2>. USE DEF IInv, At, Threads, Callers
    <2>1. CASE t # "file" /\ u # "file"
      BY <2>1, Alone DEF Access
    <2>2. ASSUME NEW c \in Callers, NEW x \in Access(c), NEW y \in Access("file"),
                 x.buffer = y.buffer
          PROVE  FALSE
      <3>1. Busy /\ y.buffer = ref["file"] /\ ~buffer_is_empty_[ref["file"]]
        BY DEF Access, Busy, Transit
      <3>2. pc[c] \in {"push", "full", "load"} /\ x.buffer = current_buffer_
        BY DEF Access, Walk
      <3>3. \A v \in Callers : pc[v] \notin Walking
        BY <3>2 DEF Meeting, Walking
      <3>. QED  BY <2>2, <3>1, <3>2, <3>3 DEF Walk
    <2>. QED  BY <2>1, <2>2
  <1>. QED  BY <1>1, Invariance, PTL

\* Write queues a buffer when it is full and Flush one that is not empty: none is
\* queued a second time while it is on its way to the file.
THEOREM QueuedOnce == SpecApart => []IsInjective(queue_buffers_)
  BY Invariance, PTL DEF IInv, Transit
-----------------------------------------------------------------------------
(* FlattenSeq *)

\* Induction over the natural numbers, for a set of them.
LEMMA SetInduction ==
  ASSUME NEW T, 0 \in T, \A n \in Nat : n \in T => n + 1 \in T
  PROVE  Nat \subseteq T
  <1> DEFINE U == Nat \ T
  <1>. SUFFICES ASSUME U # {}  PROVE FALSE
    OBVIOUS
  <1>1. PICK x \in U : \A y \in U : ~ (<<y, x>> \in OpToRel(<, Nat))
    <2>1. U \subseteq Nat
      OBVIOUS
    <2>. HIDE DEF U
    <2>. QED  BY <2>1, WFMin, NatLessThanWellFounded, Zenon
  <1>2. x # 0 /\ x \in Nat
    OBVIOUS
  <1>3. x - 1 \in Nat /\ (x - 1) + 1 = x /\ x - 1 < x
    BY <1>2
  <1>4. x - 1 \in U
    BY <1>2, <1>3
  <1>5. <<x - 1, x>> \in OpToRel(<, Nat)
    BY <1>2, <1>3 DEF OpToRel
  <1>. QED  BY <1>1, <1>4, <1>5

LEMMA Associative ==
  \A s, t, u \in Seq(Nat) : s \o (t \o u) = (s \o t) \o u
  <1>. SUFFICES ASSUME NEW s \in Seq(Nat), NEW t \in Seq(Nat), NEW u \in Seq(Nat)
                PROVE  s \o (t \o u) = (s \o t) \o u
    OBVIOUS
  <1>. QED  BY ConcatAssociative, SMTT(60)

\* The function of which FlattenSeq returns the last value, and the equation that
\* defines it: there is such a function for every n.
Partial(L, n) ==
  CHOOSE f : f = [i \in 1 .. n |-> IF i = 1 THEN L[i] ELSE f[i - 1] \o L[i]]

LEMMA FlattenDef ==
  ASSUME NEW L
  PROVE  FlattenSeq(L) = IF Len(L) = 0 THEN L ELSE Partial(L, Len(L))[Len(L)]
  BY DEF FlattenSeq, Partial

LEMMA PartialDef ==
  ASSUME NEW L, NEW n \in Nat
  PROVE  Partial(L, n) = [i \in 1 .. n |-> IF i = 1 THEN L[i] ELSE Partial(L, n)[i - 1] \o L[i]]
  <1> DEFINE Eq(f, m) == f = [i \in 1 .. m |-> IF i = 1 THEN L[i] ELSE f[i - 1] \o L[i]]
             T == {m \in Nat : \E f : Eq(f, m)}
  <1>1. 0 \in T
    <2>1. Eq(<<>>, 0)
      OBVIOUS
    <2>. QED  BY <2>1
  <1>2. ASSUME NEW m \in Nat, m \in T  PROVE m + 1 \in T
    <2>1. PICK f : Eq(f, m)
      BY <1>2
    <2> DEFINE g == [i \in 1 .. m + 1 |-> IF i = 1 THEN L[i] ELSE f[i - 1] \o L[i]]
    <2>2. ASSUME NEW i \in 1 .. m  PROVE g[i] = f[i]
      <3>1. f[i] = IF i = 1 THEN L[i] ELSE f[i - 1] \o L[i]
        BY <2>1
      <3>2. i \in 1 .. m + 1
        OBVIOUS
      <3>. QED  BY <3>1, <3>2
    <2>3. Eq(g, m + 1)
      <3>1. \A i \in 1 .. m + 1 : i # 1 => i - 1 \in 1 .. m
        OBVIOUS
      <3>. QED  BY <2>2, <3>1
    <2>4. \E h : Eq(h, m + 1)
      <3>. HIDE DEF Eq, g
      <3>. QED  BY <2>3
    <2>5. m + 1 \in Nat
      OBVIOUS
    <2>. HIDE DEF Eq, g
    <2>. QED  BY <2>4, <2>5
  <1>3. n \in T
    <2>. HIDE DEF T
    <2>. QED  BY <1>1, <1>2, SetInduction
  <1>4. \E f : Eq(f, n)
    BY <1>3
  <1>. QED  BY <1>4 DEF Partial

\* f has the elements of the first sequences of L in a row.
Collects(f, L) ==
  f[0] = <<>> /\ \A i \in Nat : i < Len(L) => f[i + 1] = f[i] \o L[i + 1]

LEMMA CollectsType ==
  ASSUME NEW L \in Seq(Seq(Nat)), NEW f, Collects(f, L)
  PROVE  \A i \in 0 .. Len(L) : f[i] \in Seq(Nat)
  <1> DEFINE T == {m \in Nat : m <= Len(L) => f[m] \in Seq(Nat)}
  <1>1. Len(L) \in Nat /\ \A i \in 1 .. Len(L) : L[i] \in Seq(Nat)
    BY LenProperties, ElementOfSeq
  <1>2. 0 \in T
    BY EmptySeq DEF Collects
  <1>3. ASSUME NEW m \in Nat, m \in T  PROVE m + 1 \in T
    <2>. SUFFICES ASSUME m + 1 <= Len(L)  PROVE f[m + 1] \in Seq(Nat)
      OBVIOUS
    <2>1. m < Len(L) /\ m + 1 \in 1 .. Len(L) /\ f[m] \in Seq(Nat)
      BY <1>1, <1>3
    <2>2. f[m + 1] = f[m] \o L[m + 1] /\ L[m + 1] \in Seq(Nat)
      BY <1>1, <2>1, Zenon DEF Collects
    <2>. QED  BY <2>1, <2>2, ConcatProperties
  <1>4. Nat \subseteq T
    <2>. HIDE DEF T
    <2>. QED  BY <1>2, <1>3, SetInduction
  <1>. QED  BY <1>1, <1>4

LEMMA CollectsUnique ==
  ASSUME NEW L \in Seq(Seq(Nat)), NEW f, Collects(f, L), NEW g, Collects(g, L)
  PROVE  f[Len(L)] = g[Len(L)]
  <1> DEFINE T == {m \in Nat : m <= Len(L) => f[m] = g[m]}
  <1>1. Len(L) \in Nat
    BY LenProperties
  <1>2. 0 \in T
    BY DEF Collects
  <1>3. ASSUME NEW m \in Nat, m \in T  PROVE m + 1 \in T
    <2>. SUFFICES ASSUME m + 1 <= Len(L)  PROVE f[m + 1] = g[m + 1]
      OBVIOUS
    <2>1. m < Len(L) /\ f[m] = g[m]
      BY <1>1, <1>3
    <2>2. f[m + 1] = f[m] \o L[m + 1] /\ g[m + 1] = g[m] \o L[m + 1]
      BY <2>1, Zenon DEF Collects
    <2>. QED  BY <2>1, <2>2, Zenon
  <1>4. Nat \subseteq T
    <2>. HIDE DEF T
    <2>. QED  BY <1>2, <1>3, SetInduction
  <1>. QED  BY <1>1, <1>4

\* FlattenSeq is what they have when they have all.
LEMMA FlattenCollects ==
  ASSUME NEW L \in Seq(Seq(Nat))
  PROVE  \E f : Collects(f, L) /\ FlattenSeq(L) = f[Len(L)]
  <1> DEFINE n == Len(L)
             p == Partial(L, n)
             f == [i \in 0 .. n |-> IF i = 0 THEN <<>> ELSE p[i]]
  <1>1. n \in Nat /\ \A i \in 1 .. n : L[i] \in Seq(Nat)
    BY LenProperties, ElementOfSeq
  <1>2. p = [i \in 1 .. n |-> IF i = 1 THEN L[i] ELSE p[i - 1] \o L[i]]
    BY <1>1, PartialDef
  <1>2a. /\ 1 \in 1 .. n => p[1] = L[1]
         /\ \A i \in 1 .. n : i + 1 \in 1 .. n => p[i + 1] = p[i] \o L[i + 1]
    <2>. HIDE DEF p
    <2>1. 1 \in 1 .. n => p[1] = L[1]
      BY <1>2
    <2>2. ASSUME NEW i \in 1 .. n, NEW k \in 1 .. n, k = i + 1
          PROVE  p[k] = p[i] \o L[k]
      <3>1. k # 1 /\ k - 1 = i
        BY <1>1, <2>2
      <3>2. p[k] = IF k = 1 THEN L[k] ELSE p[k - 1] \o L[k]
        BY <1>2
      <3>. QED  BY <3>1, <3>2
    <2>. QED  BY <2>1, <2>2
  <1>. HIDE DEF n, p
  <1>3. f[0] = <<>>
    BY <1>1
  <1>4. ASSUME NEW i \in Nat, i < n  PROVE f[i + 1] = f[i] \o L[i + 1]
    <2>1. i \in 0 .. n /\ i + 1 \in 0 .. n /\ i + 1 \in 1 .. n /\ i + 1 # 0 /\ i + 1 - 1 = i
      BY <1>1, <1>4
    <2>2. L[i + 1] \in Seq(Nat) /\ f[i + 1] = p[i + 1]
      BY <1>1, <2>1
    <2>4. CASE i = 0
      <3>1. <<>> \o L[i + 1] = L[i + 1]
        BY <2>2, ConcatEmptySeq
      <3>2. f[i] = <<>> /\ i + 1 = 1
        BY <1>3, <2>4
      <3>3. p[i + 1] = L[i + 1]
        BY <1>2a, <2>1, <3>2
      <3>. HIDE DEF f
      <3>. QED  BY <2>2, <3>1, <3>2, <3>3, Zenon
    <2>5. CASE i # 0
      <3>1. f[i] = p[i] /\ i + 1 # 1
        BY <2>1, <2>5
      <3>2. p[i + 1] = p[i] \o L[i + 1]
        <4>1. i \in 1 .. n
          BY <1>1, <2>1, <2>5
        <4>. HIDE DEF f
        <4>. QED  BY <1>2a, <2>1, <4>1, Zenon
      <3>. QED  BY <2>2, <3>1, <3>2
    <2>. QED  BY <2>4, <2>5
  <1>5. FlattenSeq(L) = f[n]
    <2>1. CASE n = 0
      <3>1. L = <<>>
        BY <2>1, EmptySeq DEF n
      <3>2. FlattenSeq(L) = L
        BY <2>1, FlattenDef DEF n
      <3>. QED  BY <2>1, <3>1, <3>2, <1>3
    <2>2. CASE n # 0
      <3>1. FlattenSeq(L) = p[n]
        BY <2>2, FlattenDef DEF n, p
      <3>2. n \in 0 .. n
        BY <1>1
      <3>. QED  BY <3>1, <3>2, <2>2
    <2>. QED  BY <2>1, <2>2
  <1>. HIDE DEF f
  <1>6. Collects(f, L)
    BY <1>3, <1>4 DEF Collects, n
  <1>. QED  BY <1>5, <1>6 DEF n

LEMMA FlattenIs ==
  ASSUME NEW L \in Seq(Seq(Nat)), NEW f, Collects(f, L)
  PROVE  FlattenSeq(L) = f[Len(L)] /\ FlattenSeq(L) \in Seq(Nat)
  <1>1. PICK g : Collects(g, L) /\ FlattenSeq(L) = g[Len(L)]
    BY FlattenCollects
  <1>2. f[Len(L)] = g[Len(L)]
    BY <1>1, CollectsUnique
  <1>3. Len(L) \in 0 .. Len(L)
    BY LenProperties
  <1>. QED  BY <1>1, <1>2, <1>3, CollectsType

\* A sequence more at the end.
LEMMA FlattenAppend ==
  ASSUME NEW L \in Seq(Seq(Nat)), NEW s \in Seq(Nat)
  PROVE  FlattenSeq(Append(L, s)) = FlattenSeq(L) \o s
  <1> DEFINE n == Len(L)
             M == Append(L, s)
  <1>1. /\ n \in Nat /\ M \in Seq(Seq(Nat)) /\ Len(M) = n + 1
        /\ \A i \in 1 .. n : M[i] = L[i]
        /\ M[n + 1] = s
    BY AppendProperties, LenProperties
  <1>2. PICK f : Collects(f, L) /\ FlattenSeq(L) = f[n]
    BY FlattenCollects
  <1> DEFINE g == [i \in 0 .. n + 1 |-> IF i = n + 1 THEN f[n] \o s ELSE f[i]]
  <1>. HIDE DEF n, M
  <1>3. g[0] = <<>> /\ g[n] = f[n] /\ g[n + 1] = f[n] \o s
    BY <1>1, <1>2 DEF Collects
  <1>4. ASSUME NEW i \in Nat, i < n + 1  PROVE g[i + 1] = g[i] \o M[i + 1]
    <2>1. CASE i = n
      BY <1>1, <1>3, <2>1
    <2>2. CASE i # n
      <3>1. i < n /\ i + 1 \in 1 .. n /\ i + 1 \in 0 .. n + 1 /\ i \in 0 .. n + 1 /\ i # n + 1 /\ i + 1 # n + 1
        BY <1>1, <1>4, <2>2
      <3>2. g[i] = f[i] /\ g[i + 1] = f[i + 1] /\ M[i + 1] = L[i + 1]
        BY <1>1, <3>1
      <3>. HIDE DEF g
      <3>3. f[i + 1] = f[i] \o L[i + 1]
        BY <1>2, <3>1 DEF Collects, n
      <3>. QED  BY <3>2, <3>3, Zenon
    <2>. QED  BY <2>1, <2>2
  <1>. HIDE DEF g
  <1>5. Collects(g, M)
    BY <1>1, <1>3, <1>4 DEF Collects
  <1>6. FlattenSeq(M) = g[n + 1]
    BY <1>1, <1>5, FlattenIs
  <1>. QED  BY <1>2, <1>3, <1>6 DEF M

\* The first sequence by itself.
LEMMA FlattenHead ==
  ASSUME NEW L \in Seq(Seq(Nat)), L # <<>>
  PROVE  FlattenSeq(L) = Head(L) \o FlattenSeq(Tail(L))
  <1> DEFINE n == Len(Tail(L))
             h == Head(L)
             M == Tail(L)
  <1>1. /\ n \in Nat /\ M \in Seq(Seq(Nat)) /\ Len(L) = n + 1 /\ h \in Seq(Nat) /\ h = L[1]
        /\ \A i \in 1 .. n : M[i] = L[i + 1] /\ M[i] \in Seq(Nat)
    BY HeadTailProperties, LenProperties, ElementOfSeq, EmptySeq
  <1>2. PICK f : Collects(f, M) /\ FlattenSeq(M) = f[n]
    BY <1>1, FlattenCollects
  <1> DEFINE g == [i \in 0 .. n + 1 |-> IF i = 0 THEN <<>> ELSE h \o f[i - 1]]
  <1>3. f[0] = <<>> /\ \A i \in 0 .. n : f[i] \in Seq(Nat)
    BY <1>1, <1>2, CollectsType DEF Collects
  <1>. HIDE DEF n, h, M
  <1>4. /\ g[0] = <<>>
        /\ \A i \in 0 .. n : g[i + 1] = h \o f[i]
    <2>1. \A i \in 0 .. n : i + 1 \in 0 .. n + 1 /\ i + 1 # 0 /\ i + 1 - 1 = i
      BY <1>1
    <2>2. \A i \in 0 .. n + 1 : g[i] = IF i = 0 THEN <<>> ELSE h \o f[i - 1]
      OBVIOUS
    <2>3. 0 \in 0 .. n + 1
      BY <1>1
    <2>. HIDE DEF g
    <2>4. ASSUME NEW i \in 0 .. n, NEW k \in 0 .. n + 1, k = i + 1  PROVE g[k] = h \o f[i]
      <3>1. k # 0 /\ k - 1 = i
        BY <2>1, <2>4
      <3>. QED  BY <2>2, <3>1
    <2>. QED  BY <2>1, <2>2, <2>3, <2>4
  <1>. HIDE DEF g
  <1>5. ASSUME NEW i \in Nat, i < n + 1  PROVE g[i + 1] = g[i] \o L[i + 1]
    <2>1. CASE i = 0
      <3>1. <<>> \o h = h /\ h \o <<>> = h
        BY <1>1, ConcatEmptySeq
      <3>2. 0 \in 0 .. n /\ i + 1 = 1
        BY <1>1, <2>1
      <3>3. g[i + 1] = h \o f[i]
        BY <1>4, <2>1, <3>2
      <3>. QED  BY <1>1, <1>3, <1>4, <2>1, <3>1, <3>2, <3>3
    <2>2. CASE i # 0
      <3>1. PICK j \in Nat : i = j + 1
        <4>1. i - 1 \in Nat /\ i = (i - 1) + 1
          BY <2>2
        <4>. QED  BY <4>1
      <3>2. j < n /\ j \in 0 .. n /\ i \in 0 .. n /\ i \in 1 .. n
        BY <1>1, <1>5, <2>2, <3>1
      <3>3. f[j + 1] = f[j] \o M[j + 1]
        BY <1>2, <3>2 DEF Collects, n, M
      <3>4. g[i + 1] = h \o f[i] /\ g[i] = h \o f[j] /\ M[i] = L[i + 1] /\ M[i] \in Seq(Nat)
        BY <1>1, <1>4, <3>1, <3>2
      <3>5. h \o (f[j] \o M[i]) = (h \o f[j]) \o M[i]
        <4>1. h \in Seq(Nat) /\ f[j] \in Seq(Nat) /\ M[i] \in Seq(Nat)
          BY <1>1, <1>3, <3>2, <3>4
        <4>. QED  BY <4>1, Associative, Zenon
      <3>. QED  BY <3>1, <3>3, <3>4, <3>5
    <2>. QED  BY <2>1, <2>2
  <1>6. Collects(g, L)
    BY <1>1, <1>4, <1>5 DEF Collects
  <1>7. FlattenSeq(L) = g[n + 1]
    BY <1>1, <1>6, FlattenIs
  <1>8. n \in 0 .. n
    BY <1>1
  <1>9. g[n + 1] = h \o f[n]
    BY <1>4, <1>8
  <1>. QED  BY <1>2, <1>7, <1>9 DEF h, M
-----------------------------------------------------------------------------
(* The messages: file and ring together hold each of them once, in order. *)

Walks == \E t \in Callers : pc[t] \in Walking \cup {"flag"}

\* A buffer that is not on its way to the file is empty, unless it is the one
\* that is written to.
Emptied ==
  \A i \in Index : i \notin InTransit /\ (i # current_buffer_ \/ Walks) => buffers_[i] = <<>>

\* The three parts of InRing.
Draining == IF At("file", "drain") THEN buffers_[ref["file"]] ELSE <<>>
Waiting == [k \in DOMAIN queue_buffers_ |-> buffers_[queue_buffers_[k]]]
Filling == IF current_buffer_ \in InTransit THEN <<>> ELSE buffers_[current_buffer_]

Numbers(n) == [i \in 1 .. n |-> i]

Kept == Emptied /\ NothingLost

LEMMA NumbersAppend ==
  ASSUME NEW n \in Nat
  PROVE  Append(Numbers(n), n + 1) = Numbers(n + 1)
  <1>1. /\ Numbers(n) \in [1 .. n -> Nat] /\ Numbers(n + 1) \in [1 .. n + 1 -> Nat]
        /\ n + 1 \in Nat
    BY DEF Numbers
  <1>2. /\ Numbers(n) \in Seq(Nat) /\ Numbers(n + 1) \in Seq(Nat)
        /\ Len(Numbers(n)) = n /\ Len(Numbers(n + 1)) = n + 1
    <2>1. Numbers(n) \in Seq(Nat) /\ Numbers(n + 1) \in Seq(Nat)
      BY <1>1, SeqDef
    <2>. QED  BY <1>1, <2>1, LenProperties
  <1>3. /\ Append(Numbers(n), n + 1) \in Seq(Nat) /\ Len(Append(Numbers(n), n + 1)) = n + 1
        /\ \A i \in 1 .. n : Append(Numbers(n), n + 1)[i] = Numbers(n)[i]
        /\ Append(Numbers(n), n + 1)[n + 1] = n + 1
    BY <1>1, <1>2, AppendProperties
  <1>4. \A i \in 1 .. n + 1 : Append(Numbers(n), n + 1)[i] = Numbers(n + 1)[i]
    BY <1>3 DEF Numbers
  <1>. QED  BY <1>2, <1>3, <1>4, SeqEqual

\* The types of the parts.
LEMMA PartTypes ==
  ASSUME TypeOK
  PROVE  /\ \A i \in Index : buffers_[i] \in Seq(Nat)
         /\ file \in Seq(Nat) /\ Draining \in Seq(Nat) /\ Filling \in Seq(Nat)
         /\ Waiting \in Seq(Seq(Nat)) /\ Len(Waiting) = Len(queue_buffers_)
         /\ \A k \in 1 .. Len(queue_buffers_) : /\ queue_buffers_[k] \in Index
                                               /\ Waiting[k] = buffers_[queue_buffers_[k]]
         /\ FlattenSeq(Waiting) \in Seq(Nat)
         /\ InRing = (Draining \o FlattenSeq(Waiting)) \o Filling
  <1>1. \A s \in Seq(1 .. written) : s \in Seq(Nat)
    BY SeqMonotonic DEF TypeOK
  <1>2. (\A i \in Index : buffers_[i] \in Seq(Nat)) /\ file \in Seq(Nat)
    BY <1>1 DEF TypeOK
  <1>3. ref["file"] \in Index /\ current_buffer_ \in Index
    BY DEF TypeOK, Threads
  <1>4. Draining \in Seq(Nat) /\ Filling \in Seq(Nat)
    BY <1>2, <1>3, EmptySeq DEF Draining, Filling
  <1>5. /\ \A k \in 1 .. Len(queue_buffers_) : queue_buffers_[k] \in Index
        /\ DOMAIN queue_buffers_ = 1 .. Len(queue_buffers_) /\ Len(queue_buffers_) \in Nat
    BY ElementOfSeq, LenProperties DEF TypeOK
  <1>6. Waiting \in [1 .. Len(queue_buffers_) -> Seq(Nat)]
    BY <1>2, <1>5 DEF Waiting
  <1>7. Waiting \in Seq(Seq(Nat)) /\ Len(Waiting) = Len(queue_buffers_)
    <2>1. Waiting \in Seq(Seq(Nat))
      BY <1>5, <1>6, SeqDef
    <2>. QED  BY <1>5, <1>6, <2>1, LenProperties
  <1>8. \A k \in 1 .. Len(queue_buffers_) : Waiting[k] = buffers_[queue_buffers_[k]]
    BY <1>5 DEF Waiting
  <1>9. FlattenSeq(Waiting) \in Seq(Nat)
    BY <1>7, FlattenIs, FlattenCollects
  <1>10. InRing = (Draining \o FlattenSeq(Waiting)) \o Filling
    BY Zenon DEF InRing, Draining, Waiting, Filling
  <1>. QED  BY <1>2, <1>4, <1>5, <1>7, <1>8, <1>9, <1>10

LEMMA InitKept == Init => Kept
  <1>. SUFFICES ASSUME Init  PROVE Kept
    OBVIOUS
  <1>1. Emptied
    BY DEF Init, Emptied
  <1>2. TypeOK
    BY InitIInv DEF IInv
  <1>3. Draining = <<>> /\ Filling = <<>> /\ file = <<>>
    BY <1>2 DEF Init, Draining, Filling, At, Threads, TypeOK
  <1>4. Waiting = <<>> /\ FlattenSeq(Waiting) = <<>>
    <2>1. Waiting = <<>>
      BY <1>2, PartTypes, EmptySeq DEF Init
    <2>. QED  BY <2>1, FlattenDef
  <1>5. Numbers(Stored) = <<>>
    BY DEF Init, Stored, Numbers, Threads
  <1>6. file \o InRing = <<>>
    BY <1>2, <1>3, <1>4, PartTypes, ConcatEmptySeq, EmptySeq
  <1>. QED  BY <1>1, <1>5, <1>6 DEF Kept, NothingLost, Numbers

LEMMA AppendRight ==
  \A s, t \in Seq(Nat), e \in Nat : s \o Append(t, e) = Append(s \o t, e)
  <1>. SUFFICES ASSUME NEW s \in Seq(Nat), NEW t \in Seq(Nat), NEW e \in Nat
                PROVE  s \o Append(t, e) = Append(s \o t, e)
    OBVIOUS
  <1>1. <<e>> \in Seq(Nat) /\ s \o t \in Seq(Nat)
    BY ConcatProperties
  <1>2. Append(t, e) = t \o <<e>>
    BY AppendIsConcat
  <1>3. Append(s \o t, e) = (s \o t) \o <<e>>
    BY <1>1, AppendIsConcat
  <1>4. s \o (t \o <<e>>) = (s \o t) \o <<e>>
    BY <1>1, Associative, Zenon
  <1>. QED  BY <1>2, <1>3, <1>4, Zenon

\* A step that changes neither a buffer, nor the queue, nor what is stored.
LEMMA StillKept ==
  ASSUME Kept, UNCHANGED <<buffers_, queue_buffers_, current_buffer_, file>>,
         At("file", "drain")' <=> At("file", "drain"), Busy' <=> Busy,
         Busy => ref'["file"] = ref["file"], Stored' = Stored, Walks' => Walks
  PROVE  Kept'
  <1>1. InTransit' = InTransit
    BY DEF InTransit, Busy
  <1>2. InRing' = InRing
    BY <1>1 DEF InRing, At, Busy
  <1>3. NothingLost'
    BY <1>2 DEF Kept, NothingLost
  <1>4. Emptied'
    BY <1>1 DEF Kept, Emptied
  <1>. QED  BY <1>3, <1>4 DEF Kept

\* Such a step of Write or Flush.
LEMMA RelabelKept ==
  ASSUME IInv, Kept, NEW t \in Callers, NEW to, pc' = [pc EXCEPT ![t] = to],
         UNCHANGED <<buffers_, queue_buffers_, current_buffer_, written, file>>,
         ref'["file"] = ref["file"],
         t = "writer" => (pc[t] \in {"lock", "load", "push"} <=> to \in {"lock", "load", "push"}),
         to \in Walking \cup {"flag"} => pc[t] \in Walking \cup {"flag"}
  PROVE  Kept'
  <1>1. /\ pc'[t] = to /\ pc'["file"] = pc["file"]
        /\ \A u \in Threads : u # t => pc'[u] = pc[u]
    BY DEF IInv, Owners, Callers, Threads
  <1>2. Stored' = Stored
    BY <1>1 DEF Stored, Callers, Threads
  <1>3. Walks' => Walks
    BY <1>1 DEF Walks, Callers, Threads
  <1>4. (At("file", "drain")' <=> At("file", "drain")) /\ (Busy' <=> Busy)
    BY <1>1 DEF At, Busy
  <1>. QED  BY <1>2, <1>3, <1>4, StillKept

LEMMA SearchKept ==
  ASSUME IInv, Kept, NEW t \in Callers, LockBuffer(t) \/ Search(t) \/ Compare(t) \/ Step(t)
  PROVE  Kept'
  <1>1. ref'["file"] = ref["file"]
    BY DEF LockBuffer, Search, Compare, Step, IInv, TypeOK, Callers, Threads
  <1>2. UNCHANGED <<buffers_, queue_buffers_, current_buffer_, written, file>>
    BY DEF LockBuffer, Search, Compare, Step, ring, calls
  <1>3. \/ pc[t] = "lock" /\ pc' = [pc EXCEPT ![t] = "load"]
        \/ /\ pc[t] \in Walking
           /\ \E to \in Walking \cup {"notify"} : pc' = [pc EXCEPT ![t] = to]
    BY DEF LockBuffer, Search, Compare, Step, At, Goto, Walking
  <1>. QED  BY <1>1, <1>2, <1>3, RelabelKept DEF Walking

LEMMA LookKept ==
  ASSUME IInv, Kept, LoadBuffer \/ TestFull \/ TestEmpty \/ ReturnWrite \/ ReturnFlush \/ FlagFlushed
  PROVE  Kept'
  <1>1. ref'["file"] = ref["file"]
    BY DEF LoadBuffer, TestFull, TestEmpty, ReturnWrite, ReturnFlush, FlagFlushed, IInv, TypeOK,
           Threads
  <1>2. UNCHANGED <<buffers_, queue_buffers_, current_buffer_, written, file>>
    BY DEF LoadBuffer, TestFull, TestEmpty, ReturnWrite, ReturnFlush, FlagFlushed, ring, calls
  <1>3. \E t \in Callers, to \in Labels :
          /\ pc' = [pc EXCEPT ![t] = to]
          /\ \/ pc[t] = "load" /\ to = "push"
             \/ pc[t] = "full" /\ to \in {"queue", "idle"}
             \/ pc[t] = "notify" /\ to = "idle"
             \/ pc[t] = "flag" /\ to = "search"
             \/ t = "flusher" /\ pc[t] = "load" /\ to \in {"queue", "idle"}
    BY DEF LoadBuffer, TestFull, TestEmpty, ReturnWrite, ReturnFlush, FlagFlushed, At, Goto,
           Callers, Labels
  <1>. QED  BY <1>1, <1>2, <1>3, RelabelKept DEF Walking

\* Write is called: nothing is stored before push_back.
LEMMA CallKept ==
  ASSUME IInv, Kept, CallWrite \/ CallFlush
  PROVE  Kept'
  <1>1. /\ UNCHANGED <<buffers_, queue_buffers_, current_buffer_, file, ref>>
        /\ pc'["file"] = pc["file"]
    BY DEF CallWrite, CallFlush, Goto, ring, IInv, Owners, Threads
  <1>2. (At("file", "drain")' <=> At("file", "drain")) /\ (Busy' <=> Busy)
    BY <1>1 DEF At, Busy
  <1>3. Walks' => Walks
    BY DEF CallWrite, CallFlush, Goto, IInv, Owners, Walks, Walking, Callers, Threads
  <1>4. Stored' = Stored
    <2>1. CASE CallWrite
      <3>1. pc["writer"] = "idle" /\ pc'["writer"] = "lock" /\ written' = written + 1
        BY <2>1 DEF CallWrite, At, Goto, IInv, Owners, Threads
      <3>. QED  BY <3>1 DEF Stored, IInv, TypeOK
    <2>2. CASE CallFlush
      <3>1. pc'["writer"] = pc["writer"] /\ written' = written
        BY <2>2 DEF CallFlush, At, Goto, IInv, Owners, Threads
      <3>. QED  BY <3>1 DEF Stored
    <2>. QED  BY <2>1, <2>2
  <1>. QED  BY <1>1, <1>2, <1>3, <1>4, StillKept

\* The destructor, and the file thread when it takes no buffer.
LEMMA RestKept ==
  ASSUME IInv, Kept,
         Destroy \/ SpuriousWakeup \/ Wait \/ (Fetch /\ queue_buffers_ = <<>>) \/ UNCHANGED vars
  PROVE  Kept'
  <1>1. /\ UNCHANGED <<buffers_, queue_buffers_, current_buffer_, file, written, ref>>
        /\ \A t \in Callers : pc'[t] = pc[t]
    BY DEF Destroy, Stop, NotifyAll, Join, SpuriousWakeup, Wait, Fetch, Goto, ring, locks, calls,
           vars, IInv, Owners, Callers, Threads
  <1>2. (At("file", "drain")' <=> At("file", "drain")) /\ (Busy' <=> Busy)
    BY DEF Destroy, Stop, NotifyAll, Join, SpuriousWakeup, Wait, Fetch, Goto, vars, At, Busy, IInv,
           Owners, Threads
  <1>3. (Walks' => Walks) /\ Stored' = Stored
    BY <1>1 DEF Walks, Stored, Callers
  <1>. QED  BY <1>1, <1>2, <1>3, StillKept

\* No caller is past its queueing: the buffer written to is on no way yet.
LEMMA CurrentFree ==
  ASSUME IInv, \A t \in Callers : pc[t] \notin Walking \cup {"flag"}
  PROVE  current_buffer_ \notin InTransit
  <1>1. buffer_is_empty_[current_buffer_]
    BY DEF IInv, Walk
  <1>2. ~Busy \/ ref["file"] # current_buffer_
    BY <1>1 DEF IInv, Transit
  <1>3. pc["flusher"] # "flag"
    BY DEF Callers
  <1>4. \A k \in 1 .. Len(queue_buffers_) : queue_buffers_[k] # current_buffer_
    BY <1>1, <1>3 DEF IInv, Transit, At
  <1>5. DOMAIN queue_buffers_ = 1 .. Len(queue_buffers_)
    BY LenProperties DEF IInv, TypeOK
  <1>. QED  BY <1>2, <1>4, <1>5 DEF InTransit, Range, Busy

\* What is on its way, by place in the queue.
LEMMA TransitOf ==
  ASSUME TypeOK
  PROVE  \A i : i \in InTransit <=>
                  \/ \E k \in 1 .. Len(queue_buffers_) : queue_buffers_[k] = i
                  \/ Busy /\ i = ref["file"]
  <1>1. DOMAIN queue_buffers_ = 1 .. Len(queue_buffers_)
    BY LenProperties DEF TypeOK
  <1>. QED  BY <1>1 DEF InTransit, Range, Busy

LEMMA AdvanceKept ==
  ASSUME IInv, IInv', ~Meeting, Kept, NEW t \in Callers, Advance(t)
  PROVE  Kept'
  <1>1. /\ pc[t] = "store" /\ pc'[t] = "search" /\ pc'["file"] = pc["file"]
        /\ pc'["writer"] \in {"lock", "load", "push"} <=> pc["writer"] \in {"lock", "load", "push"}
        /\ UNCHANGED <<buffers_, queue_buffers_, file, written, ref>>
    BY DEF Advance, At, Goto, ring, locks, calls, IInv, Owners, Callers, Threads
  <1>2. InTransit' = InTransit /\ Walks /\ Walks' /\ Stored' = Stored
    BY <1>1 DEF InTransit, Walks, Walking, Stored
  <1>3. Emptied'
    BY <1>1, <1>2 DEF Kept, Emptied
  <1>4. Filling = <<>> /\ Filling' = <<>>
    BY <1>2, <1>3 DEF Kept, Emptied, Filling, IInv, TypeOK
  <1>5. Draining' = Draining /\ Waiting' = Waiting
    BY <1>1 DEF Draining, Waiting, At
  <1>6. InRing' = InRing
    BY <1>4, <1>5, Zenon DEF InRing, Draining, Waiting, Filling
  <1>7. NothingLost'
    BY <1>1, <1>2, <1>6 DEF Kept, NothingLost
  <1>. QED  BY <1>3, <1>7 DEF Kept

\* The message that Write stores is the newest.
LEMMA PushBackKept ==
  ASSUME IInv, IInv', ~Meeting, Kept, PushBack
  PROVE  Kept'
  <1>1. /\ pc["writer"] = "push" /\ pc'["writer"] = "full"
        /\ \A u \in Threads : u # "writer" => pc'[u] = pc[u]
        /\ buffers_' = [buffers_ EXCEPT ![current_buffer_] = Append(@, written)]
        /\ UNCHANGED <<queue_buffers_, current_buffer_, file, written, ref>>
        /\ written >= 1
    BY DEF PushBack, At, Goto, locks, calls, IInv, Owners, Walk, Callers, Threads
  <1>2. \A t \in Callers : pc[t] \notin Walking \cup {"flag"}
    BY <1>1, Alone DEF Callers, Walking
  <1>3. current_buffer_ \notin InTransit /\ InTransit' = InTransit
    BY <1>1, <1>2, CurrentFree DEF InTransit, Threads
  <1>4. current_buffer_ \in Index /\ ref["file"] \in Index
    BY DEF IInv, TypeOK, Threads
  <1>5. /\ \A i \in Index : i # current_buffer_ => buffers_'[i] = buffers_[i]
        /\ buffers_'[current_buffer_] = Append(buffers_[current_buffer_], written)
    BY <1>1, <1>4 DEF IInv, TypeOK
  <1>6. ~Walks'
    BY <1>1, <1>2 DEF Walks, Walking, Callers, Threads
  <1>7. Emptied'
    BY <1>1, <1>3, <1>5, <1>6 DEF Kept, Emptied
  <1>8. Filling = buffers_[current_buffer_] /\ Filling' = Append(Filling, written)
    BY <1>1, <1>3, <1>5 DEF Filling
  <1>9. Draining' = Draining
    <2>1. pc'["file"] = pc["file"] /\ (At("file", "drain") => ref["file"] # current_buffer_)
      BY <1>1, <1>3, TransitOf DEF IInv, At, Busy, Threads
    <2>. QED  BY <1>1, <1>4, <1>5, <2>1 DEF Draining, At
  <1>10. Waiting' = Waiting
    <2>1. \A k \in DOMAIN queue_buffers_ : /\ queue_buffers_[k] \in Index
                                          /\ queue_buffers_[k] # current_buffer_
      BY <1>3, ElementOfSeq, LenProperties DEF IInv, TypeOK, InTransit, Range
    <2>. QED  BY <1>1, <1>5, <2>1 DEF Waiting
  <1>11. file \o InRing' = Append(file \o InRing, written)
    <2>1. /\ file \in Seq(Nat) /\ Draining \in Seq(Nat) /\ Filling \in Seq(Nat)
          /\ FlattenSeq(Waiting) \in Seq(Nat) /\ written \in Nat
      BY <1>1, PartTypes DEF IInv, TypeOK
    <2>2. /\ InRing = (Draining \o FlattenSeq(Waiting)) \o Filling
          /\ InRing' = (Draining' \o FlattenSeq(Waiting')) \o Filling'
      BY Zenon DEF InRing, Draining, Waiting, Filling
    <2>3. /\ Draining \o FlattenSeq(Waiting) \in Seq(Nat)
          /\ (Draining \o FlattenSeq(Waiting)) \o Filling \in Seq(Nat)
      BY <2>1, ConcatProperties
    <2>4. InRing' = Append(InRing, written)
      BY <1>8, <1>9, <1>10, <2>1, <2>2, <2>3, AppendRight, Zenon
    <2>5. InRing \in Seq(Nat)
      BY <2>2, <2>3, Zenon
    <2>6. file \o Append(InRing, written) = Append(file \o InRing, written)
      BY <2>1, <2>5, AppendRight, Zenon
    <2>. QED  BY <2>4, <2>6, Zenon
  <1>12. NothingLost'
    <2>1. Stored \in Nat /\ Stored + 1 = written /\ Stored' = written
      BY <1>1 DEF Stored, IInv, TypeOK
    <2>. QED  BY <1>1, <1>11, <2>1, NumbersAppend DEF Kept, NothingLost, Numbers
  <1>. QED  BY <1>7, <1>12 DEF Kept

\* The current buffer goes to the end of the queue.
LEMMA QueueKept ==
  ASSUME IInv, IInv', ~Meeting, Kept, QueueFull \/ QueueFlushed
  PROVE  Kept'
  <1>1. \E t \in Callers : pc[t] = "queue" /\ pc'[t] \in {"search", "flag"}
    BY DEF QueueFull, QueueFlushed, At, Goto, IInv, Owners, Callers, Threads
  <1>2. /\ queue_buffers_' = Append(queue_buffers_, current_buffer_)
        /\ UNCHANGED <<buffers_, current_buffer_, file, written, ref>>
        /\ pc'["file"] = pc["file"]
        /\ pc'["writer"] \in {"lock", "load", "push"} <=> pc["writer"] \in {"lock", "load", "push"}
    BY DEF QueueFull, QueueFlushed, At, Goto, locks, calls, IInv, Owners, Threads
  <1>3. current_buffer_ \notin InTransit /\ current_buffer_ \in Index
    <2>1. \A t \in Callers : pc[t] \notin Walking \cup {"flag"}
      BY <1>1, Alone DEF Walking, Callers
    <2>. QED  BY <2>1, CurrentFree DEF IInv, TypeOK
  <1>4. /\ Len(queue_buffers_) \in Nat /\ Len(queue_buffers_') = Len(queue_buffers_) + 1
        /\ \A k \in 1 .. Len(queue_buffers_) : queue_buffers_'[k] = queue_buffers_[k]
        /\ queue_buffers_'[Len(queue_buffers_) + 1] = current_buffer_
        /\ queue_buffers_ \in Seq(Index) /\ queue_buffers_' \in Seq(Index)
    <2>1. queue_buffers_ \in Seq(Index)
      BY DEF IInv, TypeOK
    <2>. QED  BY <1>2, <1>3, <2>1, AppendProperties, LenProperties
  <1>5. InTransit' = InTransit \cup {current_buffer_}
    <2>1. Range(queue_buffers_)' = Range(queue_buffers_) \cup {current_buffer_}
      BY <1>4, LenProperties DEF Range
    <2>. QED  BY <1>2, <2>1 DEF InTransit
  <1>6. Emptied'
    BY <1>2, <1>5 DEF Kept, Emptied
  <1>7. Filling = buffers_[current_buffer_] /\ Filling' = <<>> /\ Draining' = Draining
    BY <1>2, <1>3, <1>5 DEF Filling, Draining, At
  <1>8. Waiting' = Append(Waiting, buffers_[current_buffer_])
    <2>1. /\ Waiting \in Seq(Seq(Nat)) /\ Len(Waiting) = Len(queue_buffers_)
          /\ buffers_[current_buffer_] \in Seq(Nat)
          /\ \A k \in 1 .. Len(queue_buffers_) :
               queue_buffers_[k] \in Index /\ Waiting[k] = buffers_[queue_buffers_[k]]
      BY <1>3, PartTypes DEF IInv
    <2>2. Waiting' = [k \in 1 .. Len(queue_buffers_) + 1 |-> buffers_[queue_buffers_'[k]]]
      BY <1>2, <1>4, LenProperties DEF Waiting
    <2>. DEFINE W == [k \in 1 .. Len(queue_buffers_) + 1 |-> buffers_[queue_buffers_'[k]]]
    <2>3. W \in Seq(Seq(Nat)) /\ Len(W) = Len(queue_buffers_) + 1
      <3>1. \A k \in 1 .. Len(queue_buffers_) + 1 : buffers_[queue_buffers_'[k]] \in Seq(Nat)
        <4>. TAKE k \in 1 .. Len(queue_buffers_) + 1
        <4>1. CASE k = Len(queue_buffers_) + 1
          BY <1>4, <2>1, <4>1
        <4>2. CASE k \in 1 .. Len(queue_buffers_)
          <5>1. queue_buffers_[k] \in Index
            BY <2>1, <4>2
          <5>. QED  BY <1>4, <4>2, <5>1, PartTypes DEF IInv
        <4>. QED  BY <1>4, <4>1, <4>2
      <3>2. W \in [1 .. Len(queue_buffers_) + 1 -> Seq(Nat)] /\ Len(queue_buffers_) + 1 \in Nat
        BY <1>4, <3>1
      <3>. HIDE DEF W
      <3>3. W \in Seq(Seq(Nat))
        BY <3>2, SeqDef
      <3>. QED  BY <3>2, <3>3, LenProperties
    <2>4. /\ Append(Waiting, buffers_[current_buffer_]) \in Seq(Seq(Nat))
          /\ Len(Append(Waiting, buffers_[current_buffer_])) = Len(queue_buffers_) + 1
          /\ \A k \in 1 .. Len(queue_buffers_) :
               Append(Waiting, buffers_[current_buffer_])[k] = Waiting[k]
          /\ Append(Waiting, buffers_[current_buffer_])[Len(queue_buffers_) + 1]
               = buffers_[current_buffer_]
      BY <2>1, AppendProperties
    <2>5. \A k \in 1 .. Len(queue_buffers_) + 1 :
            W[k] = Append(Waiting, buffers_[current_buffer_])[k]
      BY <1>4, <2>1, <2>4
    <2>6. W = Append(Waiting, buffers_[current_buffer_])
      <3>. HIDE DEF W
      <3>. QED  BY <2>3, <2>4, <2>5, SeqEqual
    <2>. QED  BY <2>2, <2>6
  <1>9. InRing' = InRing
    <2>1. /\ Draining \in Seq(Nat) /\ Filling \in Seq(Nat) /\ FlattenSeq(Waiting) \in Seq(Nat)
          /\ Waiting \in Seq(Seq(Nat))
      BY PartTypes DEF IInv
    <2>2. FlattenSeq(Waiting)' = FlattenSeq(Waiting) \o Filling
      BY <1>7, <1>8, <2>1, FlattenAppend
    <2>3. /\ InRing = (Draining \o FlattenSeq(Waiting)) \o Filling
          /\ InRing' = (Draining' \o FlattenSeq(Waiting')) \o Filling'
      BY Zenon DEF InRing, Draining, Waiting, Filling
    <2>4. Draining \o (FlattenSeq(Waiting) \o Filling) = (Draining \o FlattenSeq(Waiting)) \o Filling
      BY <2>1, Associative, Zenon
    <2>5. Draining \o (FlattenSeq(Waiting) \o Filling) \in Seq(Nat)
      BY <2>1, ConcatProperties
    <2>6. (Draining \o (FlattenSeq(Waiting) \o Filling)) \o <<>>
          = Draining \o (FlattenSeq(Waiting) \o Filling)
      BY <2>5, ConcatEmptySeq
    <2>. QED  BY <1>7, <2>2, <2>3, <2>4, <2>6, Zenon
  <1>10. NothingLost'
    BY <1>2, <1>9 DEF Kept, NothingLost, Stored
  <1>. QED  BY <1>6, <1>10 DEF Kept

\* The file thread takes the oldest buffer.
LEMMA TakeKept ==
  ASSUME IInv, IInv', Kept, Fetch, queue_buffers_ # <<>>
  PROVE  Kept'
  <1>1. /\ pc["file"] = "fetch" /\ pc'["file"] = "drain"
        /\ \A t \in Callers : pc'[t] = pc[t]
        /\ ref'["file"] = Head(queue_buffers_) /\ queue_buffers_' = Tail(queue_buffers_)
        /\ UNCHANGED <<buffers_, current_buffer_, file, written>>
    BY DEF Fetch, At, Goto, calls, IInv, Owners, TypeOK, Callers, Threads
  <1>2. /\ Head(queue_buffers_) \in Index /\ Len(queue_buffers_) \in Nat \ {0}
        /\ Head(queue_buffers_) = queue_buffers_[1]
        /\ Len(queue_buffers_') = Len(queue_buffers_) - 1
        /\ \A k \in 1 .. Len(queue_buffers_') : queue_buffers_'[k] = queue_buffers_[k + 1]
        /\ queue_buffers_ \in Seq(Index) /\ queue_buffers_' \in Seq(Index)
    <2>1. queue_buffers_ \in Seq(Index)
      BY DEF IInv, TypeOK
    <2>. QED  BY <1>1, <2>1, HeadTailProperties, EmptySeq, LenProperties
  <1>3. InTransit' = InTransit
    <2>. DEFINE n == Len(queue_buffers_')
    <2>1. /\ DOMAIN queue_buffers_ = 1 .. n + 1 /\ DOMAIN queue_buffers_' = 1 .. n /\ n \in Nat
          /\ \A k \in 1 .. n : queue_buffers_'[k] = queue_buffers_[k + 1]
          /\ queue_buffers_[1] = Head(queue_buffers_)
      BY <1>2, LenProperties
    <2>. HIDE DEF n
    <2>2. ASSUME NEW k \in 1 .. n + 1
          PROVE  queue_buffers_[k] \in Range(queue_buffers_)' \cup {Head(queue_buffers_)}
      <3>1. CASE k = 1
        BY <2>1, <3>1
      <3>2. CASE k # 1
        <4>1. PICK j \in 1 .. n : k = j + 1
          <5>1. k - 1 \in 1 .. n /\ k = (k - 1) + 1
            BY <2>1, <3>2
          <5>. QED  BY <5>1
        <4>. QED  BY <2>1, <4>1 DEF Range
      <3>. QED  BY <3>1, <3>2
    <2>3. ASSUME NEW k \in 1 .. n
          PROVE  queue_buffers_'[k] \in Range(queue_buffers_)
      <3>1. k + 1 \in 1 .. n + 1
        BY <2>1
      <3>. QED  BY <2>1, <3>1 DEF Range
    <2>4. Head(queue_buffers_) \in Range(queue_buffers_)
      BY <2>1 DEF Range
    <2>5. Range(queue_buffers_) = Range(queue_buffers_)' \cup {Head(queue_buffers_)}
      BY <2>1, <2>2, <2>3, <2>4 DEF Range
    <2>. QED  BY <1>1, <2>5 DEF InTransit
  <1>4. Emptied' /\ Stored' = Stored
    BY <1>1, <1>3 DEF Kept, Emptied, Walks, Stored, Callers
  <1>5. Filling' = Filling /\ Draining = <<>> /\ Draining' = buffers_[Head(queue_buffers_)]
    BY <1>1, <1>3 DEF Filling, Draining, At
  <1>6. /\ Waiting \in Seq(Seq(Nat)) /\ Len(Waiting) = Len(queue_buffers_)
        /\ \A k \in 1 .. Len(queue_buffers_) : Waiting[k] = buffers_[queue_buffers_[k]]
        /\ FlattenSeq(Waiting) \in Seq(Nat) /\ Filling \in Seq(Nat)
    BY PartTypes DEF IInv
  <1>7. Waiting # <<>> /\ Head(Waiting) = buffers_[Head(queue_buffers_)]
    <2>1. Waiting # <<>> /\ 1 \in 1 .. Len(queue_buffers_)
      BY <1>2, <1>6, EmptySeq
    <2>2. Head(Waiting) = Waiting[1]
      BY <1>6, <2>1, HeadTailProperties
    <2>. QED  BY <1>2, <1>6, <2>1, <2>2
  <1>8. Waiting' = Tail(Waiting)
    <2>. DEFINE n == Len(queue_buffers_')
                W == [k \in 1 .. n |-> buffers_[queue_buffers_'[k]]]
    <2>1. n \in Nat /\ Waiting' = W
      BY <1>1, <1>2, LenProperties DEF Waiting
    <2>2. /\ Tail(Waiting) \in Seq(Seq(Nat)) /\ Len(Tail(Waiting)) = n
          /\ \A k \in 1 .. n : Tail(Waiting)[k] = Waiting[k + 1]
      BY <1>2, <1>6, <1>7, HeadTailProperties
    <2>3. W \in Seq(Seq(Nat)) /\ Len(W) = n
      <3>1. \A k \in 1 .. n : buffers_[queue_buffers_'[k]] \in Seq(Nat)
        BY <1>2, PartTypes, ElementOfSeq DEF IInv
      <3>2. W \in [1 .. n -> Seq(Nat)]
        BY <3>1
      <3>. HIDE DEF W, n
      <3>3. W \in Seq(Seq(Nat))
        BY <2>1, <3>2, SeqDef
      <3>. QED  BY <2>1, <3>2, <3>3, LenProperties
    <2>4. \A k \in 1 .. n : W[k] = Tail(Waiting)[k]
      <3>. TAKE k \in 1 .. n
      <3>1. k + 1 \in 1 .. Len(queue_buffers_)
        BY <1>2
      <3>. QED  BY <1>2, <1>6, <2>2, <3>1
    <2>5. W = Tail(Waiting)
      <3>. HIDE DEF W, n
      <3>. QED  BY <2>2, <2>3, <2>4, SeqEqual
    <2>. QED  BY <2>1, <2>5
  <1>9. InRing' = InRing
    <2>1. FlattenSeq(Waiting) = Head(Waiting) \o FlattenSeq(Waiting')
      BY <1>6, <1>7, <1>8, FlattenHead
    <2>2. /\ InRing = (Draining \o FlattenSeq(Waiting)) \o Filling
          /\ InRing' = (Draining' \o FlattenSeq(Waiting')) \o Filling'
      BY Zenon DEF InRing, Draining, Waiting, Filling
    <2>3. <<>> \o FlattenSeq(Waiting) = FlattenSeq(Waiting)
      BY <1>6, ConcatEmptySeq
    <2>. QED  BY <1>5, <1>7, <2>1, <2>2, <2>3, Zenon
  <1>10. NothingLost'
    BY <1>1, <1>4, <1>9 DEF Kept, NothingLost
  <1>. QED  BY <1>4, <1>10 DEF Kept

\* It writes the buffer.
LEMMA DrainKept ==
  ASSUME IInv, Kept, Drain
  PROVE  Kept'
  <1>1. /\ pc["file"] = "drain" /\ pc'["file"] = "clear"
        /\ \A t \in Callers : pc'[t] = pc[t]
        /\ file' = file \o buffers_[ref["file"]]
        /\ UNCHANGED <<buffers_, queue_buffers_, current_buffer_, written, ref>>
    BY DEF Drain, At, Goto, ring, calls, IInv, Owners, Callers, Threads
  <1>2. InTransit' = InTransit /\ Stored' = Stored
    BY <1>1 DEF InTransit, Stored, Callers
  <1>3. Emptied'
    BY <1>1, <1>2 DEF Kept, Emptied, Walks
  <1>4. /\ Draining = buffers_[ref["file"]] /\ Draining' = <<>>
        /\ Filling' = Filling /\ Waiting' = Waiting
    BY <1>1, <1>2 DEF Draining, Filling, Waiting, At
  <1>5. file' \o InRing' = file \o InRing
    <2>. DEFINE d == Draining
                w == FlattenSeq(Waiting)
                f == Filling
    <2>1. /\ d \in Seq(Nat) /\ f \in Seq(Nat) /\ w \in Seq(Nat) /\ file \in Seq(Nat)
      BY PartTypes DEF IInv
    <2>2. /\ InRing = (d \o w) \o f
          /\ InRing' = (<<>> \o w) \o f
      BY <1>4, Zenon DEF InRing, Draining, Waiting, Filling
    <2>. HIDE DEF d, w, f
    <2>3. /\ <<>> \o w = w /\ w \o f \in Seq(Nat)
      BY <2>1, ConcatEmptySeq, ConcatProperties
    <2>4. (file \o d) \o (w \o f) = file \o (d \o (w \o f))
      BY <2>1, <2>3, Associative, Zenon
    <2>5. d \o (w \o f) = (d \o w) \o f
      <3>1. d \in Seq(Nat) /\ w \in Seq(Nat) /\ f \in Seq(Nat)
        BY <2>1
      <3>. QED  BY <3>1, Associative, Zenon
    <2>6. file' = file \o d
      BY <1>1, <1>4 DEF d
    <2>. QED  BY <2>2, <2>3, <2>4, <2>5, <2>6, Zenon
  <1>6. NothingLost'
    BY <1>2, <1>5 DEF Kept, NothingLost
  <1>. QED  BY <1>3, <1>6 DEF Kept

\* It empties it and offers it again.
LEMMA ClearKept ==
  ASSUME IInv, Kept, Clear
  PROVE  Kept'
  <1>1. /\ pc["file"] = "clear" /\ pc'["file"] = "fetch"
        /\ \A t \in Callers : pc'[t] = pc[t]
        /\ buffers_' = [buffers_ EXCEPT ![ref["file"]] = <<>>]
        /\ UNCHANGED <<queue_buffers_, current_buffer_, file, written, ref>>
    BY DEF Clear, At, Goto, calls, IInv, Owners, Callers, Threads
  <1>2. ref["file"] \in Index /\ ref["file"] \notin Range(queue_buffers_)
    <2>1. \A k \in 1 .. Len(queue_buffers_) : queue_buffers_[k] # ref["file"]
      BY <1>1 DEF IInv, Transit, Busy
    <2>2. DOMAIN queue_buffers_ = 1 .. Len(queue_buffers_)
      BY LenProperties DEF IInv, TypeOK
    <2>. QED  BY <2>1, <2>2 DEF Range, IInv, TypeOK, Threads
  <1>3. InTransit = InTransit' \cup {ref["file"]} /\ InTransit' = Range(queue_buffers_)
    BY <1>1 DEF InTransit
  <1>4. /\ buffers_'[ref["file"]] = <<>>
        /\ \A i \in Index : i # ref["file"] => buffers_'[i] = buffers_[i]
    BY <1>1, <1>2 DEF IInv, TypeOK
  <1>5. Emptied'
    BY <1>1, <1>3, <1>4 DEF Kept, Emptied, Walks
  <1>6. Draining = <<>> /\ Draining' = <<>>
    BY <1>1 DEF Draining, At
  <1>7. Filling' = Filling
    BY <1>1, <1>2, <1>3, <1>4 DEF Filling, IInv, TypeOK
  <1>8. Waiting' = Waiting
    <2>1. \A k \in DOMAIN queue_buffers_ : queue_buffers_[k] \in Index /\ queue_buffers_[k] # ref["file"]
      BY <1>2, ElementOfSeq, LenProperties DEF Range, IInv, TypeOK
    <2>. QED  BY <1>1, <1>4, <2>1 DEF Waiting
  <1>9. InRing' = InRing
    BY <1>6, <1>7, <1>8, Zenon DEF InRing, Draining, Waiting, Filling
  <1>10. NothingLost'
    BY <1>1, <1>9 DEF Kept, NothingLost, Stored, Callers
  <1>. QED  BY <1>5, <1>10 DEF Kept

LEMMA StepKept == IInv /\ ~Meeting /\ Kept /\ [Next]_vars => Kept'
  <1>. SUFFICES ASSUME IInv, ~Meeting, Kept, [Next]_vars  PROVE Kept'
    OBVIOUS
  <1>1. IInv'
    BY StepIInv
  <1>2. CASE Write
    BY <1>1, <1>2, CallKept, SearchKept, LookKept, PushBackKept, QueueKept, AdvanceKept
    DEF Write, NextBuffer, Callers
  <1>3. CASE Flush
    BY <1>1, <1>3, CallKept, SearchKept, LookKept, QueueKept, AdvanceKept
    DEF Flush, NextBuffer, Callers
  <1>4. CASE WriteToFile
    BY <1>1, <1>4, RestKept, TakeKept, DrainKept, ClearKept DEF WriteToFile
  <1>5. CASE SpuriousWakeup \/ Destroy \/ UNCHANGED vars
    BY <1>5, RestKept
  <1>. QED  BY <1>2, <1>3, <1>4, <1>5 DEF Next

\* Write, its walk through the ring, calls of Flush in between, the file thread and
\* the destructor's Flush hand the messages on without losing, repeating or
\* reordering any: the file and the ring are always the messages in the order of
\* the calls of Write.
THEOREM MessagesKept == SpecApart => []NothingLost
  <1>1. SpecApart => [](IInv /\ ~Meeting /\ Kept)
    BY InitIInv, InitKept, StepIInv, StepKept, Apart, PTL DEF SpecApart
  <1>. QED  BY <1>1, PTL DEF Kept
=============================================================================
