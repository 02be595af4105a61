-------------------------- MODULE ConsoleLogPolicy ---------------------------
(***************************************************************************)
(* Utils::Log::ConsoleLogPolicy (CommonUtils/Log): Write hands messages to *)
(* a thread that prints them.                                              *)
(*                                                                         *)
(* Write and the destructor notify after they released queue_mutex_.  What *)
(* they notify of is in place by then, so the thread cannot fall asleep in *)
(* between, and release and notification are one step.  Flush only flushes *)
(* std::cout, which every print has done already: it changes nothing here. *)
(***************************************************************************)
EXTENDS Naturals, Sequences

CONSTANT MaxMsg     \* bound of the model: calls of Write

VARIABLES
  message_queue_, stop_,
  thread_,    \* ProcessQueue: "fetch" a message, "print" it, or "exit"
  asleep,     \* TRUE: it is blocked in condition_.wait
  message,    \* the message it took
  dtor,       \* the destructor: "no", "joining", "done"
  given,      \* history: the messages given to Write
  printed     \* history: the messages on std::cout

vars == <<message_queue_, stop_, thread_, asleep, message, dtor, given, printed>>

Init ==
  /\ message_queue_ = <<>> /\ stop_ = FALSE
  /\ thread_ = "fetch" /\ asleep = FALSE /\ message = 0
  /\ dtor = "no"
  /\ given = <<>> /\ printed = <<>>

\* The object outlives the calls of Write.
Write(m) ==
  /\ dtor = "no"
  /\ message_queue_' = Append(message_queue_, m)
  /\ asleep' = FALSE
  /\ given' = Append(given, m)
  /\ UNCHANGED <<stop_, thread_, message, dtor, printed>>

Take ==
  /\ message_queue_ # <<>>
  /\ message' = Head(message_queue_)
  /\ message_queue_' = Tail(message_queue_)
  /\ thread_' = "print"
  /\ UNCHANGED asleep

Exit ==
  /\ message_queue_ = <<>> /\ stop_
  /\ thread_' = "exit"
  /\ UNCHANGED <<message_queue_, message, asleep>>

Sleep ==
  /\ message_queue_ = <<>> /\ ~stop_
  /\ asleep' = TRUE
  /\ UNCHANGED <<message_queue_, message, thread_>>

Fetch ==
  /\ thread_ = "fetch" /\ ~asleep
  /\ Take \/ Exit \/ Sleep
  /\ UNCHANGED <<stop_, dtor, given, printed>>

\* Slip: a stopped thread prints nothing any more.
OutputUnlessStopped ==
  /\ thread_ = "print"
  /\ printed' = IF stop_ THEN printed ELSE Append(printed, message)
  /\ thread_' = "fetch"
  /\ UNCHANGED <<message_queue_, stop_, asleep, message, dtor, given>>

Output ==
  /\ thread_ = "print"
  /\ printed' = Append(printed, message)
  /\ thread_' = "fetch"
  /\ UNCHANGED <<message_queue_, stop_, asleep, message, dtor, given>>

SpuriousWakeup ==
  /\ asleep
  /\ asleep' = FALSE
  /\ UNCHANGED <<message_queue_, stop_, thread_, message, dtor, given, printed>>

\* The destructor: stop and notify, then join and print what is left.
Stop ==
  /\ dtor = "no"
  /\ dtor' = "joining"
  /\ stop_' = TRUE
  /\ asleep' = FALSE
  /\ UNCHANGED <<message_queue_, thread_, message, given, printed>>

Join ==
  /\ dtor = "joining" /\ thread_ = "exit"
  /\ dtor' = "done"
  /\ printed' = printed \o message_queue_
  /\ message_queue_' = <<>>
  /\ UNCHANGED <<stop_, thread_, asleep, message, given>>

Own == Fetch \/ Output \/ SpuriousWakeup

Next ==
  \/ Len(given) < MaxMsg /\ Write(Len(given) + 1)
  \/ Own
  \/ Stop
  \/ Join

Spec == Init /\ [][Next]_vars
-----------------------------------------------------------------------------
TypeOK ==
  /\ message_queue_ \in Seq(Nat)
  /\ stop_ \in BOOLEAN /\ (stop_ <=> dtor # "no")
  /\ thread_ \in {"fetch", "print", "exit"}
  /\ asleep \in BOOLEAN /\ (asleep => thread_ = "fetch")
  /\ message \in Nat
  /\ dtor \in {"no", "joining", "done"}
  /\ given \in Seq(Nat) /\ printed \in Seq(Nat)

Pending == IF thread_ = "print" THEN <<message>> ELSE <<>>

\* Whatever the interleaving of Write, the thread and the destructor, what was
\* printed, is about to be printed and waits is what was written, in order.
PrintedInOrder == printed \o Pending \o message_queue_ = given
=============================================================================
