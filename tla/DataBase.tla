------------------------------- MODULE DataBase -------------------------------
(***************************************************************************)
(* Utils::DataBase (CommonUtils/DataBase): the calls of Model and of       *)
(* SQLiteWrapper on several connections to one file.  sqlite3 is external; *)
(* nobody sets a busy handler or a journal mode, so that a statement that  *)
(* needs a lock of the file (SHARED to read, RESERVED to write, from       *)
(* PENDING on alone with the file to commit) gets it or ends as SQLITE_BUSY.*)
(*                                                                         *)
(* The table is the sequence of its rows, a row is the number of the call  *)
(* that wrote it (0: it was there before), and every condition holds of    *)
(* every row.                                                              *)
(***************************************************************************)
EXTENDS Integers, Sequences

CONSTANTS
  Models,     \* connections that are used through Model
  Wrappers,   \* connections that belong to an SQLiteWrapper
  MaxRows,    \* bound of the model: the rows that the file has already
  MaxCalls    \* bound of the model: the number of calls

ASSUME DataBaseAssumption ==
  Models \cap Wrappers = {} /\ MaxRows \in Nat /\ MaxCalls \in Nat

Connections == Models \cup Wrappers
Writes == {"create", "insert", "update", "remove"}

VARIABLES
  created, table,   \* the file: does the table exist, and its rows
  pc,           \* where a connection is: "new", "broken", "closed", "unclosed"
                \* (a wrapper only), "idle" between two calls; "called",
                \* "prepared", "stepping" (SHARED), "writing" (RESERVED) and
                \* "committing" (PENDING) within one
  call,         \* its present or last call: which, its number, how many of
                \* its statements ran and took effect, the rows read, the answer
  statements,   \* the statements that were prepared and not finalized
  unread,       \* is one of them left at a row, with its SHARED lock
  calls         \* history: the number of calls made

vars == <<created, table, pc, call, statements, unread, calls>>
file == <<created, table>>

New(o, n) == [op |-> o, id |-> n, ran |-> 0, effect |-> 0, rows |-> <<>>, answer |-> "none"]

Init ==
  /\ created \in BOOLEAN
  /\ table \in {[i \in 1 .. n |-> 0] : n \in 0 .. IF created THEN MaxRows ELSE 0}
  /\ pc = [c \in Connections |-> IF c \in Wrappers THEN "new" ELSE "idle"]
  /\ call = [c \in Connections |-> New("none", 0)]
  /\ statements = [c \in Connections |-> 0]
  /\ unread = [c \in Connections |-> FALSE]
  /\ calls = 0
-----------------------------------------------------------------------------
Others(c) == Connections \ {c}
Shared(c) == unread[c] \/ pc[c] \in {"stepping", "writing", "committing"}

\* SQLITE_BUSY for a reader, for a writer and for a commit.
ReadBusy(c) == \E d \in Others(c) : pc[d] = "committing"
WriteBusy(c) == \E d \in Others(c) : pc[d] \in {"writing", "committing"}
CommitBusy(c) == \E d \in Others(c) : Shared(d)

Goes(c, place) == pc' = [pc EXCEPT ![c] = place]

Return(c, answer) ==
  /\ call' = [call EXCEPT ![c].answer = answer]
  /\ Goes(c, "idle")
-----------------------------------------------------------------------------
(* SQLiteWrapper: a connection that could not be opened is kept; every      *)
(* QueryData on it throws and changes nothing.                             *)

Open(w) ==
  /\ pc[w] = "new"
  /\ \E outcome \in {"idle", "broken"} : Goes(w, outcome)
  /\ UNCHANGED <<file, call, statements, unread, calls>>

\* The destructor, once logger.Flush() has returned, which touches nothing of
\* the data base: sqlite3_close refuses while there are statements, and nobody
\* looks.
Close(w) ==
  /\ pc[w] \in {"idle", "broken"}
  /\ Goes(w, IF statements[w] = 0 THEN "closed" ELSE "unclosed")
  /\ UNCHANGED <<file, call, statements, unread, calls>>

Call(c) ==
  /\ pc[c] = "idle" /\ calls < MaxCalls
  /\ \E o \in IF c \in Wrappers THEN {"query"} ELSE Writes \cup {"query", "exist"} :
       call' = [call EXCEPT ![c] = New(o, calls + 1)]
  /\ calls' = calls + 1 /\ Goes(c, "called")
  /\ UNCHANGED <<file, statements, unread>>
-----------------------------------------------------------------------------
(* ExecuteQuery, QueryData and QueryColumnExist *)

\* A statement about no table, or a schema that cannot be read now and was not
\* read before, makes sqlite3_prepare_v2 fail and the call throw.
Prepare(c) ==
  /\ pc[c] = "called" /\ call[c].op \in {"query", "exist"}
  /\ \/ /\ created /\ Goes(c, "prepared")
        /\ statements' = [statements EXCEPT ![c] = @ + 1] /\ UNCHANGED call
     \/ (~created \/ ReadBusy(c)) /\ Return(c, "thrown") /\ UNCHANGED statements
  /\ UNCHANGED <<file, unread, calls>>

Stepping(c) == pc[c] = "stepping" \/ (pc[c] = "prepared" /\ ~ReadBusy(c))

\* Slip: the loop ends at the last row and does not return it.
AtLastRow(c) == Len(call[c].rows) + 1 >= Len(table)

AllRead(c) == Len(call[c].rows) = Len(table)

\* Slips: only a query that read to the end is finalized; a query is finalized
\* in two places.
FinalizeAtEnd(c) ==
  statements' = [statements EXCEPT ![c] = IF call[c].op = "query" /\ Stepping(c) THEN @ - 1 ELSE @]
FinalizeTwice(c) ==
  statements' = [statements EXCEPT ![c] = IF call[c].op = "query" THEN @ - 2 ELSE @]

\* sqlite3_finalize, which QueryColumnExist does not call.
Finalize(c) ==
  statements' = [statements EXCEPT ![c] = IF call[c].op = "query" THEN @ - 1 ELSE @]

\* SQLITE_ROW
Row(c) ==
  /\ Stepping(c) /\ ~AllRead(c)
  /\ \/ /\ call[c].op = "query" /\ Goes(c, "stepping")
        /\ call' = [call EXCEPT ![c].rows = Append(@, table[Len(@) + 1])]
        /\ UNCHANGED unread
     \/ /\ call[c].op = "exist" /\ Return(c, "true")
        /\ unread' = [unread EXCEPT ![c] = TRUE]
  /\ UNCHANGED <<file, statements, calls>>

\* SQLITE_DONE, and SQLITE_BUSY, which the loop takes for the same.
Done(c) ==
  /\ \/ Stepping(c) /\ AllRead(c)
     \/ pc[c] = "prepared" /\ ReadBusy(c)
  /\ Return(c, IF call[c].op = "query" THEN "rows" ELSE "false")
  /\ Finalize(c)
  /\ UNCHANGED <<file, unread, calls>>
-----------------------------------------------------------------------------
(* Execute, with sqlite3_exec; CreateTable, Insert, Update and Remove *)

Statements(o) == IF o = "remove" THEN 2 ELSE 1   \* Remove runs its own twice

\* Slip: only an error in the statement is a failure.
AnswerUnlessError(rc) == IF rc = "ERROR" THEN "false" ELSE "true"

Answer(rc) == IF rc = "OK" THEN "true" ELSE "false"

\* The end of sqlite3_exec; the answer is that of the last statement.
Executed(c, rc, effect) ==
  LET k == [call[c] EXCEPT !.ran = @ + 1, !.effect = @ + effect]
      over == k.ran = Statements(k.op)
  IN  /\ call' = [call EXCEPT ![c] = IF over THEN [k EXCEPT !.answer = Answer(rc)] ELSE k]
      /\ Goes(c, IF over THEN "idle" ELSE "called")

\* CREATE TABLE IF NOT EXISTS reads only, if it does.
Begin(c) ==
  /\ pc[c] = "called" /\ call[c].op \in Writes
  /\ \/ created /\ call[c].op = "create" /\ ~ReadBusy(c) /\ Executed(c, "OK", 0)
     \/ ~created /\ call[c].op # "create" /\ Executed(c, "ERROR", 0)
     \/ WriteBusy(c) /\ (call[c].op = "create" /\ created => ReadBusy(c)) /\ Executed(c, "BUSY", 0)
     \/ /\ ~WriteBusy(c) /\ (call[c].op = "create" <=> ~created)
        /\ Goes(c, "writing") /\ UNCHANGED call
  /\ UNCHANGED <<file, statements, unread, calls>>

\* A statement that changed nothing needs not be alone to commit.
Write(c) ==
  /\ pc[c] = "writing"
  /\ IF call[c].op \in {"update", "remove"} /\ table = <<>>
       THEN Executed(c, "OK", 1)
       ELSE Goes(c, "committing") /\ UNCHANGED call
  /\ UNCHANGED <<file, statements, unread, calls>>

Changed(k) ==
  CASE k.op = "create" -> table
    [] k.op = "insert" -> Append(table, k.id)
    [] k.op = "update" -> [i \in DOMAIN table |-> k.id]
    [] k.op = "remove" -> <<>>

\* The commit, or the rollback when somebody still reads.
Commit(c) ==
  /\ pc[c] = "committing"
  /\ \/ /\ ~CommitBusy(c) /\ Executed(c, "OK", 1)
        /\ table' = Changed(call[c]) /\ created' = TRUE
     \/ CommitBusy(c) /\ Executed(c, "BUSY", 0) /\ UNCHANGED file
  /\ UNCHANGED <<statements, unread, calls>>

Next ==
  \/ \E w \in Wrappers : Open(w) \/ Close(w)
  \/ \E c \in Connections :
       Call(c) \/ Prepare(c) \/ Row(c) \/ Done(c) \/ Begin(c) \/ Write(c) \/ Commit(c)

Spec == Init /\ [][Next]_vars
-----------------------------------------------------------------------------
Calls ==
  [op : Writes \cup {"none", "query", "exist"}, id : 0 .. calls, ran : 0 .. 2, effect : 0 .. 2,
   rows : Seq(0 .. calls), answer : {"none", "true", "false", "rows", "thrown"}]

TypeOK ==
  /\ created \in BOOLEAN /\ table \in Seq(0 .. calls)
  /\ pc \in [Connections -> {"new", "broken", "closed", "unclosed", "idle", "called", "prepared",
                             "stepping", "writing", "committing"}]
  /\ call \in [Connections -> Calls]
  /\ statements \in [Connections -> Nat] /\ unread \in [Connections -> BOOLEAN]
  /\ calls \in 0 .. MaxCalls

\* The answer of Insert, Update and CreateTable tells whether the change was
\* made, whatever the others held when the call wanted to write or to commit;
\* the answer true of Remove tells that it was.
AnswersHold ==
  \A c \in Connections :
    LET k == call[c]
    IN  pc[c] = "idle" =>
          /\ k.op \in {"insert", "update"} => (k.effect = IF k.answer = "true" THEN 1 ELSE 0)
          /\ k.op = "remove" /\ k.answer = "true" => k.effect >= 1
          /\ k.op = "create" /\ k.answer = "true" => created

\* A query that comes to the end of its rows returns the table as it is then,
\* although it was read row by row while others wrote.
QueryIsSnapshot ==
  [][\A c \in Connections :
       pc[c] = "stepping" /\ pc'[c] = "idle" => call'[c].rows = table]_vars

\* Between its calls a wrapper has no statement and no lock, whichever way
\* QueryData ended, so that closing it always succeeds.
NothingLeftOpen ==
  \A w \in Wrappers :
    /\ pc[w] \in {"idle", "closed"} => statements[w] = 0 /\ ~Shared(w)
    /\ pc[w] # "unclosed"

(* What the code does not have; the README tells what happens. *)

\* Remove answers false only if nothing was removed.
RemoveAnswersHold ==
  \A c \in Connections :
    pc[c] = "idle" /\ call[c].op = "remove" /\ call[c].answer = "false" => call[c].effect = 0

\* A query returns no rows only if there are none.
QueryIsComplete ==
  [][\A c \in Connections :
       pc[c] = "prepared" /\ pc'[c] = "idle" /\ call'[c].answer = "rows" => table = <<>>]_vars

\* QueryColumnExist leaves no lock, so that it keeps nobody from writing.
ExistLeavesNoLock == \A c \in Connections : pc[c] = "idle" => ~Shared(c)
=============================================================================
