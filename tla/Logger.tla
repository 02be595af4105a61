------------------------------- MODULE Logger --------------------------------
(***************************************************************************)
(* Utils::Log::Logger (CommonUtils/Log) with the ConsoleLogPolicy it       *)
(* writes to: Log queues a message, the dispatcher hands it to every       *)
(* policy, a timer and the users of the logger flush.  A policy "file"     *)
(* is represented by the messages it was given; FileLogPolicy models what  *)
(* it does with them.  Its Write and its Flush may spin for ever, which    *)
(* that module shows: here the step in which such a call returns is never  *)
(* bound to happen, and what depends on it is stated of the programs in    *)
(* which it does.                                                          *)
(*                                                                         *)
(* As in ConsoleLogPolicy, a notification that follows the release of      *)
(* mutex_ is one step with it.                                             *)
(***************************************************************************)
EXTENDS Naturals, Sequences, SequencesExt, FiniteSets

CONSTANTS
  Policies,   \* the policies a program may add: a subset of {"console", "file"}
  AddLate,    \* FALSE: they are added before the first Log and within the
              \* first 500 ms, the timer's first sleep
  MaxMsg      \* bound of the model: calls of Log

ASSUME LoggerAssumption ==
  /\ Policies \subseteq {"console", "file"}
  /\ AddLate \in BOOLEAN /\ MaxMsg \in Nat

VARIABLES
  queue_, stop_, policies_,
  mutex_,      \* "free", or held by the Flush of a "user" or of the "timer"
  wanted,      \* the policies this program adds, chosen at the start
  adding,      \* the policy whose push_back is under way, or "none"
  dispatcher,  \* ProcessQueue: "fetch", "deliver" or "exit"
  asleep,      \* TRUE: the dispatcher is blocked in condition_.wait
  current,     \* the message that is delivered
  todo,        \* the policies it has not been given to
  timer,       \* TimerTask: "test" of stop_, "sleep", "flush" or "exit"
  owner,       \* the Logger is "using", "joining" in its destructor, "gone"
  logged,      \* history: calls of Log; a message is the number of its call
  promised,    \* history: value of logged when a user called Flush last
  filed        \* history: the messages given to the policy "file"

VARIABLES message_queue_, console_stop_, console_thread_, console_asleep, message,
          console_dtor, given, printed

Console == INSTANCE ConsoleLogPolicy
             WITH stop_ <- console_stop_, thread_ <- console_thread_,
                  asleep <- console_asleep, dtor <- console_dtor

consoleVars == <<message_queue_, console_stop_, console_thread_, console_asleep, message,
                 console_dtor, given, printed>>
dispatchVars == <<dispatcher, asleep, current, todo>>
setup == <<policies_, adding, wanted>>
shared == <<queue_, stop_, mutex_, owner, logged, promised>>
vars == <<shared, setup, dispatchVars, timer, filed, consoleVars>>

Init ==
  /\ queue_ = <<>> /\ stop_ = FALSE /\ policies_ = <<>>
  /\ wanted \in SUBSET Policies
  /\ mutex_ = "free" /\ adding = "none"
  /\ dispatcher = "fetch" /\ asleep = FALSE /\ current = 0 /\ todo = <<>>
  /\ timer = "test" /\ owner = "using"
  /\ logged = 0 /\ promised = 0 /\ filed = <<>>
  /\ Console!Init

SetupDone == AddLate \/ (adding = "none" /\ Range(policies_) = wanted)
-----------------------------------------------------------------------------
\* Slip: the dispatcher is not notified.
LogSilently ==
  /\ owner = "using" /\ mutex_ = "free" /\ SetupDone /\ logged < MaxMsg
  /\ logged' = logged + 1
  /\ queue_' = Append(queue_, logged')
  /\ UNCHANGED <<stop_, mutex_, owner, promised, setup, dispatchVars, timer, filed,
                 consoleVars>>

Log ==
  /\ owner = "using" /\ mutex_ = "free" /\ SetupDone /\ logged < MaxMsg
  /\ logged' = logged + 1
  /\ queue_' = Append(queue_, logged')
  /\ asleep' = FALSE
  /\ UNCHANGED <<stop_, mutex_, owner, promised, setup, dispatcher, current, todo, timer,
                 filed, consoleVars>>

\* policies_.push_back takes no lock.
AddPolicy ==
  /\ owner = "using"
  /\ \/ /\ adding = "none"
        /\ adding' \in wanted \ Range(policies_)
        /\ UNCHANGED policies_
     \/ /\ adding # "none"
        /\ policies_' = Append(policies_, adding)
        /\ adding' = "none"
  /\ UNCHANGED <<shared, wanted, dispatchVars, timer, filed, consoleVars>>

\* Flush holds mutex_ while it flushes one policy after the other, and until
\* the last of them has returned.
Flush ==
  /\ owner = "using" /\ mutex_ = "free" /\ SetupDone
  /\ mutex_' = "user"
  /\ promised' = logged
  /\ UNCHANGED <<queue_, stop_, owner, logged, setup, dispatchVars, timer, filed,
                 consoleVars>>

FlushReturn ==
  /\ mutex_ = "user"
  /\ mutex_' = "free"
  /\ UNCHANGED <<queue_, stop_, owner, logged, promised, setup, dispatchVars, timer, filed,
                 consoleVars>>

\* TimerTask
TimerTest ==
  /\ timer = "test"
  /\ timer' = IF stop_ THEN "exit" ELSE "sleep"
  /\ UNCHANGED <<shared, setup, dispatchVars, filed, consoleVars>>

TimerFlush ==
  /\ timer = "sleep" /\ mutex_ = "free" /\ SetupDone
  /\ timer' = "flush"
  /\ mutex_' = "timer"
  /\ UNCHANGED <<queue_, stop_, owner, logged, promised, setup, dispatchVars, filed,
                 consoleVars>>

\* Slip: an exit that does not release the mutex.
TimerFlushKeeps ==
  /\ timer = "flush"
  /\ timer' = "test"
  /\ UNCHANGED <<shared, setup, dispatchVars, filed, consoleVars>>

TimerFlushReturn ==
  /\ timer = "flush"
  /\ timer' = "test"
  /\ mutex_' = "free"
  /\ UNCHANGED <<queue_, stop_, owner, logged, promised, setup, dispatchVars, filed,
                 consoleVars>>
-----------------------------------------------------------------------------
(* ProcessQueue *)

\* Slip: the newest message is taken first.
TakeNewest ==
  /\ queue_ # <<>>
  /\ current' = Last(queue_)
  /\ queue_' = Front(queue_)
  /\ todo' = policies_
  /\ dispatcher' = "deliver"
  /\ UNCHANGED asleep

\* The range-for over policies_ evaluates its end once.
Take ==
  /\ queue_ # <<>>
  /\ current' = Head(queue_)
  /\ queue_' = Tail(queue_)
  /\ todo' = policies_
  /\ dispatcher' = "deliver"
  /\ UNCHANGED asleep

Exit ==
  /\ queue_ = <<>> /\ stop_
  /\ dispatcher' = "exit"
  /\ UNCHANGED <<queue_, asleep, current, todo>>

Sleep ==
  /\ queue_ = <<>> /\ ~stop_
  /\ asleep' = TRUE
  /\ UNCHANGED <<queue_, dispatcher, current, todo>>

Fetch ==
  /\ dispatcher = "fetch" /\ ~asleep /\ mutex_ = "free"
  /\ Take \/ Exit \/ Sleep
  /\ UNCHANGED <<stop_, mutex_, owner, logged, promised, setup, timer, filed, consoleVars>>

\* The end of the loop, or the return of policy->Write for the next policy,
\* which takes long if the policy is a file whose buffers are full.
Deliver ==
  /\ dispatcher = "deliver"
  /\ \/ /\ todo = <<>>
        /\ dispatcher' = "fetch"
        /\ UNCHANGED <<todo, filed, consoleVars>>
     \/ /\ todo # <<>> /\ Head(todo) = "console"
        /\ Console!Write(current)
        /\ todo' = Tail(todo)
        /\ UNCHANGED <<dispatcher, filed>>
     \/ /\ todo # <<>> /\ Head(todo) = "file"
        /\ filed' = Append(filed, current)
        /\ todo' = Tail(todo)
        /\ UNCHANGED <<dispatcher, consoleVars>>
  /\ UNCHANGED <<shared, setup, asleep, current, timer>>

SpuriousWakeup ==
  /\ asleep
  /\ asleep' = FALSE
  /\ UNCHANGED <<shared, setup, dispatcher, current, todo, timer, filed, consoleVars>>
-----------------------------------------------------------------------------
(* The destructor, when the users have left the logger. *)

Stop ==
  /\ owner = "using" /\ mutex_ = "free" /\ SetupDone /\ adding = "none"
  /\ owner' = "joining"
  /\ stop_' = TRUE
  /\ asleep' = FALSE
  /\ UNCHANGED <<queue_, mutex_, logged, promised, setup, dispatcher, current, todo, timer,
                 filed, consoleVars>>

\* Slip: the dispatcher is not joined.
JoinTimer ==
  /\ owner = "joining" /\ timer = "exit"
  /\ owner' = "gone"
  /\ UNCHANGED <<queue_, stop_, mutex_, logged, promised, setup, dispatchVars, timer, filed,
                 consoleVars>>

Join ==
  /\ owner = "joining" /\ dispatcher = "exit" /\ timer = "exit"
  /\ owner' = "gone"
  /\ UNCHANGED <<queue_, stop_, mutex_, logged, promised, setup, dispatchVars, timer, filed,
                 consoleVars>>

\* The console lives on in its own thread; it is destroyed with or after the
\* logger, which owns a share of it.
ConsoleStep ==
  /\ Console!Own \/ (owner = "gone" /\ Console!Stop) \/ Console!Join
  /\ UNCHANGED <<shared, setup, dispatchVars, timer, filed>>

Timer == TimerTest \/ TimerFlush \/ TimerFlushReturn
Dispatch == Fetch \/ Deliver

Next ==
  \/ Log \/ AddPolicy \/ Flush \/ FlushReturn
  \/ Timer \/ Dispatch \/ SpuriousWakeup
  \/ Stop \/ Join \/ ConsoleStep

Spec == Init /\ [][Next]_vars

\* A call of the file policy is under way.
FileWriting == dispatcher = "deliver" /\ todo # <<>> /\ Head(todo) = "file"
FileFlushing == mutex_ # "free" /\ "file" \in Range(policies_)

\* Threads run, and one that asks for mutex_ gets it if it is released again
\* and again, which the timer alone does for ever.  Nobody has to call the
\* logger or to destroy it, and no call of the file policy has to return.
FairSpec ==
  /\ Spec
  /\ SF_vars(Dispatch /\ ~FileWriting) /\ SF_vars(TimerTest \/ TimerFlush)
  /\ WF_vars((FlushReturn \/ TimerFlushReturn) /\ ~FileFlushing) /\ WF_vars(Join)
  /\ WF_vars((Console!Fetch \/ Console!Output)
             /\ UNCHANGED <<shared, setup, dispatchVars, timer, filed>>)
  /\ WF_vars(Console!Join /\ UNCHANGED <<shared, setup, dispatchVars, timer, filed>>)
-----------------------------------------------------------------------------
TypeOK ==
  /\ queue_ \in Seq(1 .. logged)
  /\ stop_ \in BOOLEAN /\ (stop_ <=> owner # "using")
  /\ wanted \subseteq Policies
  /\ policies_ \in Seq(Policies) /\ IsInjective(policies_)
  /\ mutex_ \in {"free", "user", "timer"}
  /\ (mutex_ = "timer") <=> (timer = "flush")
  /\ adding \in {"none", "console", "file"}
  /\ dispatcher \in {"fetch", "deliver", "exit"}
  /\ asleep => dispatcher = "fetch"
  /\ current \in 0 .. logged
  /\ todo # <<>> => dispatcher = "deliver"
  /\ timer \in {"test", "sleep", "flush", "exit"}
  /\ owner \in {"using", "joining", "gone"}
  /\ logged \in 0 .. MaxMsg /\ promised \in 0 .. logged
  /\ filed \in Seq(1 .. logged)

InFlight(p) == IF Contains(todo, p) THEN <<current>> ELSE <<>>
Given(p) == IF p = "console" THEN given ELSE filed

\* Every policy gets every message once and in the order of the calls of Log;
\* the policies never diverge by more than the message being delivered.
EachPolicyInOrder ==
  \A p \in Range(policies_) :
    Given(p) \o InFlight(p) \o queue_ = [i \in 1 .. logged |-> i]

\* No policy is destroyed while the dispatcher or a Flush may still call it.
PoliciesOutliveUse ==
  dispatcher = "deliver" \/ mutex_ # "free" => console_dtor = "no"

\* The logger uses the console as ConsoleLogPolicy expects to be used.
UsesConsole == Console!Spec

\* What the console printed, is about to print and keeps is what it was given,
\* in order, through the destruction of the logger and then its own.
ConsolePrintsInOrder == Console!PrintedInOrder

\* No call of the file policy stays under way for ever.  FileLogPolicy shows
\* that one may; a program without such a policy satisfies this.
FilePolicyReturns == []<>~FileWriting /\ []<>~FileFlushing

Printed(n) == Len(printed) >= n /\ printed[n] = n

\* A logged message is printed in its turn, whether or not the logger is being
\* destroyed, by every program whose file policy, if it has one, returns from
\* its calls.
LoggedIsPrinted ==
  FilePolicyReturns =>
    \A n \in 1 .. MaxMsg : ("console" \in wanted /\ logged >= n) ~> Printed(n)

\* Under the same condition the body of the logger's destructor returns, since
\* the dispatcher and the timer see stop_.  The console's destructor returns
\* in any case, and by then all that was logged is printed.
DestructorsReturn ==
  /\ FilePolicyReturns => ((owner = "joining") ~> (owner = "gone"))
  /\ (console_dtor = "joining")
       ~> /\ console_dtor = "done"
          /\ "console" \in wanted => printed = [i \in 1 .. logged |-> i]

\* A logged message is printed whatever the file policy does.
AlwaysPrinted ==
  \A n \in 1 .. MaxMsg : ("console" \in wanted /\ logged >= n) ~> Printed(n)

\* AddPolicy does not change the vector that the dispatcher or a Flush walks.
NoPolicyRace ==
  adding # "none" => dispatcher # "deliver" /\ mutex_ = "free"

\* When a user's Flush returns, what was logged before it has been printed.
FlushWritesAll ==
  [][mutex_ = "user" /\ mutex_' = "free" => Len(printed) >= promised]_vars
=============================================================================
