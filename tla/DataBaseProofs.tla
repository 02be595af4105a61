---------------------------- MODULE DataBaseProofs ----------------------------
(***************************************************************************)
(* For any number of connections, rows and calls: a query that ends after  *)
(* its rows returned the table as it is, a wrapper leaves nothing open, at *)
(* most one connection writes, and the answers of the writing calls hold.  *)
(***************************************************************************)
EXTENDS DataBase, SequenceTheorems, TLAPS

Writing == {"writing", "committing"}
Reading == {"prepared", "stepping"}

\* A call under way: no answer yet, statements left to run; a reading call has
\* a statement, and what it has read is a beginning of the table.
UnderWay(c) ==
  /\ pc[c] \in {"called"} \cup Writing =>
       /\ call[c].ran < Statements(call[c].op)
       /\ call[c].effect <= call[c].ran
  /\ pc[c] \in Writing => call[c].op \in Writes
  /\ pc[c] \in Reading => call[c].op \in {"query", "exist"} /\ statements[c] > 0
  /\ pc[c] \in {"called", "prepared"} \cup Writing => call[c].rows = <<>>
  /\ pc[c] = "stepping" =>
       /\ call[c].op = "query"
       /\ Len(call[c].rows) <= Len(table)
       /\ \A i \in 1 .. Len(call[c].rows) : call[c].rows[i] = table[i]

\* What AnswersHold says of one connection.
Answered(c) ==
  pc[c] = "idle" =>
    /\ call[c].op \in {"insert", "update"} =>
         call[c].effect = IF call[c].answer = "true" THEN 1 ELSE 0
    /\ call[c].op = "remove" /\ call[c].answer = "true" => call[c].effect >= 1
    /\ call[c].op = "create" /\ call[c].answer = "true" => created

\* A wrapper has its one statement while it reads, and nothing else.
Tidy(w) ==
  /\ pc[w] \notin Writing \cup {"unclosed"}
  /\ call[w].op \in {"none", "query"}
  /\ statements[w] = IF pc[w] \in Reading THEN 1 ELSE 0
  /\ ~unread[w]

Local(c) == UnderWay(c) /\ Answered(c) /\ (c \in Wrappers => Tidy(c))

\* The locks of sqlite3 keep writers apart.
OneWriter == \A c, d \in Connections : pc[c] \in Writing /\ pc[d] \in Writing => c = d

\* The inductive invariant.
IInv == TypeOK /\ OneWriter /\ \A c \in Connections : Local(c)

Act(c) ==
  \/ c \in Wrappers /\ (Open(c) \/ Close(c))
  \/ Call(c) \/ Prepare(c) \/ Row(c) \/ Done(c) \/ Begin(c) \/ Write(c) \/ Commit(c)

Same(d) ==
  pc'[d] = pc[d] /\ call'[d] = call[d] /\ statements'[d] = statements[d] /\ unread'[d] = unread[d]
-----------------------------------------------------------------------------
LEMMA InitIInv == Init => IInv
  <1>. SUFFICES ASSUME Init  PROVE IInv
    OBVIOUS
  <1>1. PICK n \in 0 .. (IF created THEN MaxRows ELSE 0) : table = [i \in 1 .. n |-> 0]
    BY DEF Init
  <1>2. table \in Seq(0 .. calls)
    <2>1. n \in Nat
      BY <1>1, DataBaseAssumption
    <2>. QED  BY <1>1, <2>1 DEF Init
  <1>3. \A o \in {"none"} : New(o, 0) \in Calls
    BY DEF New, Calls, Init
  <1>4. TypeOK
    BY <1>2, <1>3, DataBaseAssumption DEF Init, TypeOK
  <1>5. OneWriter /\ \A c \in Connections : Local(c)
    BY DEF Init, OneWriter, Local, UnderWay, Answered, Tidy, Writing, Reading, New, Connections
  <1>. QED  BY <1>4, <1>5 DEF IInv
-----------------------------------------------------------------------------
\* The step of one connection leaves what belongs to the others alone.
LEMMA Framed ==
  ASSUME TypeOK, NEW c \in Connections, Act(c)
  PROVE  \A d \in Connections : d # c => Same(d)
  <1>1. \A a : (Return(c, a) => \A d \in Connections : d # c => pc'[d] = pc[d] /\ call'[d] = call[d])
    BY DEF Return, Goes, TypeOK
  <1>2. \A p : (Goes(c, p) => \A d \in Connections : d # c => pc'[d] = pc[d])
    BY DEF Goes, TypeOK
  <1>3. \A rc, n : (Executed(c, rc, n)
                      => \A d \in Connections : d # c => pc'[d] = pc[d] /\ call'[d] = call[d])
    BY DEF Executed, Goes, TypeOK
  <1>4. CASE Open(c) \/ Close(c) \/ Call(c) \/ Prepare(c)
    BY <1>1, <1>2, <1>4 DEF Open, Close, Call, Prepare, Same, TypeOK
  <1>5. CASE Row(c) \/ Done(c)
    BY <1>1, <1>2, <1>5 DEF Row, Done, Finalize, Same, TypeOK
  <1>6. CASE Begin(c) \/ Write(c) \/ Commit(c)
    BY <1>2, <1>3, <1>6 DEF Begin, Write, Commit, Same
  <1>. QED  BY <1>4, <1>5, <1>6 DEF Act

\* The file changes only under a commit, which no other connection's SHARED
\* lock allows; a table that exists goes on to exist.
LEMMA FileFacts ==
  ASSUME TypeOK, NEW c \in Connections, Act(c)
  PROVE  /\ created => created'
         /\ table' = table \/ \A d \in Others(c) : ~Shared(d)
         /\ calls' \in calls .. MaxCalls /\ calls \in Nat
  BY DataBaseAssumption
  DEF Act, Open, Close, Call, Prepare, Row, Done, Begin, Write, Commit, CommitBusy, file, TypeOK

\* The invariant of the connections that did not move.
LEMMA OthersKept ==
  ASSUME TypeOK, NEW c \in Connections, Act(c),
         NEW d \in Connections, d # c, Local(d)
  PROVE  Local(d)'
  <1>1. Same(d) /\ (created => created')
    BY Framed, FileFacts
  <1>2. pc[d] = "stepping" => table' = table
    BY FileFacts DEF Others, Shared
  <1>. QED  BY <1>1, <1>2 DEF Local, Same, UnderWay, Answered, Tidy, Writing, Reading

\* The end of an sqlite3_exec, with its effect on the call.
LEMMA ExecutedFacts ==
  ASSUME TypeOK, NEW c \in Connections, NEW rc \in {"OK", "ERROR", "BUSY"},
         NEW n \in 0 .. 1, Executed(c, rc, n), call[c].ran < Statements(call[c].op),
         call[c].effect <= call[c].ran, call[c].op \in Writes
  PROVE  /\ call' \in [Connections -> Calls]
         /\ pc' = [pc EXCEPT ![c] = pc'[c]] /\ pc'[c] \in {"idle", "called"}
         /\ call'[c].op = call[c].op /\ call'[c].rows = call[c].rows
         /\ call'[c].ran = call[c].ran + 1 /\ call'[c].effect = call[c].effect + n
         /\ pc'[c] = "called" => call'[c].ran < Statements(call'[c].op)
         /\ pc'[c] = "idle" => /\ call'[c].ran = Statements(call[c].op)
                               /\ call'[c].answer = IF rc = "OK" THEN "true" ELSE "false"
         /\ call[c].ran \in 0 .. 1 /\ (call[c].op # "remove" => call[c].ran = 0)
  <1>. DEFINE k == [call[c] EXCEPT !.ran = @ + 1, !.effect = @ + n]
  <1>1. /\ call[c] \in Calls /\ call[c].ran \in 0 .. 1 /\ call[c].effect \in 0 .. 1
        /\ call[c].op # "remove" => call[c].ran = 0
    BY DEF TypeOK, Statements, Calls
  <1>2. k \in Calls /\ [k EXCEPT !.answer = Answer(rc)] \in Calls
    <2>1. call[c].ran + 1 \in 0 .. 2 /\ call[c].effect + n \in 0 .. 2
      BY <1>1
    <2>2. k \in Calls
      BY <1>1, <2>1 DEF Calls
    <2>3. Answer(rc) \in {"none", "true", "false", "rows", "thrown"}
      BY DEF Answer
    <2>. QED  BY <2>2, <2>3 DEF Calls
  <1>3. /\ k.op = call[c].op /\ k.rows = call[c].rows /\ k.answer = call[c].answer
        /\ k.ran = call[c].ran + 1 /\ k.effect = call[c].effect + n
    BY <1>1 DEF Calls
  <1>4. CASE k.ran = Statements(k.op)
    <2>1. /\ call' = [call EXCEPT ![c] = [k EXCEPT !.answer = Answer(rc)]]
          /\ pc' = [pc EXCEPT ![c] = "idle"]
      BY <1>4 DEF Executed, Goes
    <2>2. call'[c] = [k EXCEPT !.answer = Answer(rc)] /\ pc'[c] = "idle"
      BY <2>1 DEF TypeOK
    <2>3. /\ call'[c].op = k.op /\ call'[c].rows = k.rows /\ call'[c].ran = k.ran
          /\ call'[c].effect = k.effect /\ call'[c].answer = Answer(rc)
      BY <1>2, <2>2 DEF Calls
    <2>4. call' \in [Connections -> Calls]
      BY <1>2, <2>1 DEF TypeOK
    <2>. QED  BY <1>1, <1>3, <1>4, <2>1, <2>2, <2>3, <2>4 DEF Answer
  <1>5. CASE k.ran # Statements(k.op)
    <2>1. call' = [call EXCEPT ![c] = k] /\ pc' = [pc EXCEPT ![c] = "called"]
      BY <1>5 DEF Executed, Goes
    <2>2. call'[c] = k /\ pc'[c] = "called" /\ call' \in [Connections -> Calls]
      BY <1>2, <2>1 DEF TypeOK
    <2>3. k.ran < Statements(k.op)
      BY <1>1, <1>3, <1>5 DEF Statements
    <2>. QED  BY <1>1, <1>3, <2>1, <2>2, <2>3
  <1>. QED  BY <1>4, <1>5
-----------------------------------------------------------------------------
\* What a step by c has to keep: the types, what holds of c, and its turn to
\* write.
Kept(c) == TypeOK' /\ Local(c)' /\ (pc'[c] \in Writing => pc[c] \in Writing \/ ~WriteBusy(c))

\* An action that makes no call keeps the types of what it does not change.
LEMMA SameCalls ==
  ASSUME calls' = calls, call' \in [Connections -> Calls]
  PROVE  call' \in [Connections -> Calls]'
  BY DEF Calls, Connections

LEMMA OpenKeeps ==
  ASSUME TypeOK, NEW w \in Wrappers, Local(w), Open(w) \/ Close(w)
  PROVE  Kept(w)
  <1>1. w \in Connections /\ UNCHANGED <<file, call, statements, unread, calls>>
    BY DEF Connections, Open, Close
  <1>2. \E p \in {"idle", "broken", "closed", "unclosed"} : pc' = [pc EXCEPT ![w] = p]
    BY DEF Open, Close, Goes
  <1>3. /\ pc[w] \in {"new", "idle", "broken"} /\ pc'[w] \in {"idle", "broken", "closed"}
        /\ pc[w] = "new" \/ pc'[w] = "closed"
    BY <1>1 DEF Open, Close, Goes, TypeOK, Local, Tidy, Reading
  <1>4. TypeOK'
    BY <1>1, <1>2, SameCalls DEF TypeOK, file
  <1>5. Local(w)'
    BY <1>1, <1>3 DEF Local, UnderWay, Answered, Tidy, Writing, Reading, file
  <1>. QED  BY <1>3, <1>4, <1>5 DEF Kept, Writing

LEMMA CallKeeps ==
  ASSUME TypeOK, NEW c \in Connections, Local(c), Call(c)
  PROVE  Kept(c)
  <1>1. PICK o \in Writes \cup {"query", "exist"} :
          /\ call' = [call EXCEPT ![c] = New(o, calls + 1)]
          /\ c \in Wrappers => o = "query"
    BY DEF Call
  <1>2. /\ pc[c] = "idle" /\ pc' = [pc EXCEPT ![c] = "called"] /\ calls' = calls + 1
        /\ calls \in Nat /\ calls < MaxCalls /\ UNCHANGED <<file, statements, unread>>
    BY DataBaseAssumption DEF Call, Goes, TypeOK
  <1>3. New(o, calls + 1) \in Calls'
    BY <1>2 DEF New, Calls, Writes
  <1>4. 0 .. calls \subseteq 0 .. calls'
    BY <1>2
  <1>5. Seq(0 .. calls) \subseteq Seq(0 .. calls')
    BY <1>4, SeqMonotonic
  <1>6. Calls \subseteq Calls'
    BY <1>4, <1>5 DEF Calls
  <1>7. call' \in [Connections -> Calls']
    BY <1>1, <1>3, <1>6 DEF TypeOK
  <1>8. TypeOK'
    BY <1>2, <1>5, <1>7, DataBaseAssumption DEF TypeOK, file, Calls, Connections
  <1>9. /\ pc'[c] = "called" /\ call'[c] = New(o, calls + 1)
        /\ statements'[c] = statements[c] /\ unread'[c] = unread[c]
    BY <1>1, <1>2 DEF TypeOK
  <1>10. UnderWay(c)' /\ Answered(c)'
    BY <1>9 DEF UnderWay, Answered, New, Statements, Writing, Reading
  <1>11. c \in Wrappers => Tidy(c)'
    BY <1>1, <1>2, <1>9 DEF Local, Tidy, New, Writing, Reading
  <1>. QED  BY <1>8, <1>9, <1>10, <1>11 DEF Kept, Local, Writing

\* The end of a call that only read.
LEMMA ReturnFacts ==
  ASSUME TypeOK, NEW c \in Connections, calls' = calls,
         NEW a \in {"none", "true", "false", "rows", "thrown"}, Return(c, a)
  PROVE  /\ call' \in [Connections -> Calls]' /\ pc' = [pc EXCEPT ![c] = "idle"]
         /\ pc'[c] = "idle" /\ call'[c].op = call[c].op /\ call'[c].rows = call[c].rows
  <1>1. call[c] \in Calls /\ call' = [call EXCEPT ![c] = [call[c] EXCEPT !.answer = a]]
    BY DEF TypeOK, Return
  <1>2. [call[c] EXCEPT !.answer = a] \in Calls /\ call'[c] = [call[c] EXCEPT !.answer = a]
    BY <1>1 DEF Calls, TypeOK
  <1>3. call' \in [Connections -> Calls]
    BY <1>1, <1>2 DEF TypeOK
  <1>4. call'[c].op = call[c].op /\ call'[c].rows = call[c].rows
    BY <1>1, <1>2 DEF Calls
  <1>. QED  BY <1>3, <1>4, SameCalls DEF Return, Goes, TypeOK

LEMMA PrepareKeeps ==
  ASSUME TypeOK, NEW c \in Connections, Local(c), Prepare(c)
  PROVE  Kept(c)
  <1>1. /\ pc[c] = "called" /\ call[c].op \in {"query", "exist"} /\ calls' = calls
        /\ UNCHANGED <<file, unread>>
    BY DEF Prepare
  <1>2. CASE Return(c, "thrown") /\ UNCHANGED statements
    <2>1. TypeOK'
      BY <1>1, <1>2, ReturnFacts DEF TypeOK, file
    <2>2. Local(c)'
      BY <1>1, <1>2, ReturnFacts DEF Local, UnderWay, Answered, Tidy, Writing, Reading, Writes
    <2>. QED  BY <1>1, <1>2, <2>1, <2>2, ReturnFacts DEF Kept, Writing
  <1>3. CASE /\ Goes(c, "prepared") /\ UNCHANGED call
             /\ statements' = [statements EXCEPT ![c] = @ + 1]
    <2>1. TypeOK'
      BY <1>1, <1>3, SameCalls DEF TypeOK, file, Goes
    <2>2. pc'[c] = "prepared" /\ statements'[c] = statements[c] + 1 /\ statements[c] \in Nat
      BY <1>3 DEF TypeOK, Goes
    <2>3. Local(c)'
      BY <1>1, <1>3, <2>2 DEF Local, UnderWay, Answered, Tidy, Writing, Reading
    <2>. QED  BY <2>1, <2>2, <2>3 DEF Kept, Writing
  <1>. QED  BY <1>2, <1>3 DEF Prepare

\* A row that is read continues the beginning of the table.
LEMMA RowKeeps ==
  ASSUME TypeOK, NEW c \in Connections, Local(c), Row(c)
  PROVE  Kept(c)
  <1>1. /\ pc[c] \in Reading /\ calls' = calls /\ UNCHANGED <<file, statements>>
        /\ call[c] \in Calls /\ call[c].rows \in Seq(0 .. calls) /\ table \in Seq(0 .. calls)
    BY DEF Row, Stepping, Reading, TypeOK, Calls
  <1>2. /\ call[c].op \in {"query", "exist"} /\ statements[c] > 0
        /\ Len(call[c].rows) <= Len(table)
        /\ \A i \in 1 .. Len(call[c].rows) : call[c].rows[i] = table[i]
    BY <1>1, LenProperties, EmptySeq DEF Local, UnderWay, Reading
  <1>3. Len(call[c].rows) + 1 \in 1 .. Len(table)
    BY <1>1, <1>2, LenProperties DEF Row, AllRead
  <1>4. CASE /\ call[c].op = "query" /\ Goes(c, "stepping") /\ UNCHANGED unread
             /\ call' = [call EXCEPT ![c].rows = Append(@, table[Len(@) + 1])]
    <2>. DEFINE rows == Append(call[c].rows, table[Len(call[c].rows) + 1])
    <2>1. table[Len(call[c].rows) + 1] \in 0 .. calls
      BY <1>1, <1>3, ElementOfSeq
    <2>2. /\ rows \in Seq(0 .. calls) /\ Len(rows) = Len(call[c].rows) + 1
          /\ \A i \in 1 .. Len(call[c].rows) : rows[i] = call[c].rows[i]
          /\ rows[Len(call[c].rows) + 1] = table[Len(call[c].rows) + 1]
      BY <1>1, <2>1, AppendProperties
    <2>3. /\ call' = [call EXCEPT ![c] = [call[c] EXCEPT !.rows = rows]]
          /\ call'[c] = [call[c] EXCEPT !.rows = rows]
      BY <1>4 DEF TypeOK
    <2>. HIDE DEF rows
    <2>4. [call[c] EXCEPT !.rows = rows] \in Calls /\ call'[c].rows = rows /\ call'[c].op = "query"
      BY <1>1, <1>4, <2>2, <2>3 DEF Calls
    <2>5. call' \in [Connections -> Calls]
      BY <2>3, <2>4 DEF TypeOK
    <2>6. TypeOK' /\ pc'[c] = "stepping"
      BY <1>1, <1>4, <2>5, SameCalls DEF TypeOK, file, Goes
    <2>7. Len(call'[c].rows) <= Len(table) /\ \A i \in 1 .. Len(call'[c].rows) : call'[c].rows[i] = table[i]
      <3>1. ASSUME NEW i \in 1 .. Len(rows)  PROVE rows[i] = table[i]
        <4>1. CASE i = Len(call[c].rows) + 1
          BY <2>2, <4>1
        <4>2. CASE i # Len(call[c].rows) + 1
          <5>1. i \in 1 .. Len(call[c].rows)
            BY <1>1, <2>2, <4>2, LenProperties
          <5>. QED  BY <1>2, <2>2, <5>1
        <4>. QED  BY <4>1, <4>2
      <3>. QED  BY <1>3, <2>2, <2>4, <3>1
    <2>8. Local(c)'
      <3>1. UnderWay(c)'
        BY <1>1, <1>2, <2>4, <2>6, <2>7 DEF UnderWay, Writing, Reading, file
      <3>2. Answered(c)' /\ (c \in Wrappers => Tidy(c)')
        BY <1>1, <1>4, <2>4, <2>6 DEF Answered, Local, Tidy, Writing, Reading
      <3>. QED  BY <3>1, <3>2 DEF Local
    <2>. QED  BY <2>6, <2>8 DEF Kept, Writing
  <1>5. CASE /\ call[c].op = "exist" /\ Return(c, "true")
             /\ unread' = [unread EXCEPT ![c] = TRUE]
    <2>1. TypeOK'
      BY <1>1, <1>5, ReturnFacts DEF TypeOK, file
    <2>2. pc'[c] = "idle" /\ call'[c].op = "exist"
      BY <1>1, <1>5, ReturnFacts
    <2>3. c \notin Wrappers
      BY <1>5 DEF Local, Tidy
    <2>4. Local(c)'
      BY <2>2, <2>3 DEF Local, UnderWay, Answered, Writing, Reading
    <2>. QED  BY <2>1, <2>2, <2>4 DEF Kept, Writing
  <1>. QED  BY <1>4, <1>5 DEF Row

LEMMA DoneKeeps ==
  ASSUME TypeOK, NEW c \in Connections, Local(c), Done(c)
  PROVE  Kept(c)
  <1>1. /\ pc[c] \in Reading /\ calls' = calls /\ UNCHANGED <<file, unread>>
        /\ \E a \in {"rows", "false"} : Return(c, a)
        /\ statements' = [statements EXCEPT ![c] = IF call[c].op = "query" THEN @ - 1 ELSE @]
    BY DEF Done, Stepping, Reading, Finalize
  <1>2. /\ call[c].op \in {"query", "exist"} /\ statements[c] \in Nat \ {0}
        /\ pc'[c] = "idle" /\ call'[c].op = call[c].op
        /\ call' \in [Connections -> Calls]' /\ pc' = [pc EXCEPT ![c] = "idle"]
    BY <1>1, ReturnFacts DEF Local, UnderWay, TypeOK
  <1>3. TypeOK'
    BY <1>1, <1>2 DEF TypeOK, file
  <1>4. Local(c)'
    <2>1. c \in Wrappers => Tidy(c)'
      BY <1>1, <1>2 DEF Local, Tidy, Writing, Reading, TypeOK
    <2>. QED  BY <1>2, <2>1 DEF Local, UnderWay, Answered, Writing, Reading, Writes
  <1>. QED  BY <1>2, <1>3, <1>4 DEF Kept, Writing

\* A statement of a writing call that ends without taking effect on the file,
\* or with it.
LEMMA ExecutedKeeps ==
  ASSUME TypeOK, NEW c \in Connections, Local(c), NEW rc \in {"OK", "ERROR", "BUSY"},
         NEW n \in 0 .. 1, Executed(c, rc, n),
         pc[c] \in {"called"} \cup Writing, call[c].op \in Writes,
         UNCHANGED <<statements, unread, calls>>,
         created' \in BOOLEAN, table' \in Seq(0 .. calls), created => created',
         rc = "OK" => IF call[c].op = "create" THEN created' ELSE n = 1,
         rc # "OK" => n = 0
  PROVE  Kept(c)
  <1>1. call[c].ran < Statements(call[c].op) /\ call[c].effect <= call[c].ran
    BY DEF Local, UnderWay
  <1>6. /\ call[c].effect \in 0 .. 2 /\ call[c].ran \in 0 .. 2
        /\ call'[c].op = call[c].op /\ call'[c].ran = call[c].ran + 1
        /\ call'[c].effect = call[c].effect + n
    BY <1>1, ExecutedFacts DEF TypeOK, Calls
  <1>2. TypeOK'
    <2>1. /\ call' \in [Connections -> Calls]
          /\ pc' = [pc EXCEPT ![c] = pc'[c]] /\ pc'[c] \in {"idle", "called"}
      BY <1>1, ExecutedFacts
    <2>2. call' \in [Connections -> Calls]'
      BY <2>1, SameCalls
    <2>. QED  BY <2>1, <2>2 DEF TypeOK
  <1>3. c \notin Wrappers
    BY DEF Local, Tidy, Writes
  <1>4. UnderWay(c)'
    <2>1. pc'[c] = "called" => call'[c].rows = <<>>
      <3>1. ASSUME pc'[c] = "called"  PROVE call[c].rows = <<>>
        BY <3>1 DEF Local, UnderWay
      <3>. QED  BY <1>1, <3>1, ExecutedFacts
    <2>2. call'[c].effect <= call'[c].ran
      BY <1>1, <1>6
    <2>. QED  BY <1>1, <2>1, <2>2, ExecutedFacts DEF UnderWay, Writing, Reading
  <1>5. Answered(c)'
    <2>1. CASE pc'[c] = "idle"
      <3>1. /\ call'[c].answer = IF rc = "OK" THEN "true" ELSE "false"
            /\ call[c].op # "remove" => call[c].ran = 0
        BY <1>1, <2>1, ExecutedFacts
      <3>. QED  BY <1>1, <1>6, <3>1 DEF Answered
    <2>. QED  BY <2>1 DEF Answered
  <1>. QED  BY <1>1, <1>2, <1>3, <1>4, <1>5, ExecutedFacts DEF Kept, Local, Writing

LEMMA BeginKeeps ==
  ASSUME TypeOK, NEW c \in Connections, Local(c), Begin(c)
  PROVE  Kept(c)
  <1>1. /\ pc[c] = "called" /\ call[c].op \in Writes
        /\ UNCHANGED <<created, table, statements, unread, calls>>
        /\ created \in BOOLEAN /\ table \in Seq(0 .. calls)
    BY DEF Begin, file, TypeOK
  <1>2. CASE created /\ call[c].op = "create" /\ Executed(c, "OK", 0)
    BY <1>1, <1>2, ExecutedKeeps
  <1>3. CASE \E rc \in {"ERROR", "BUSY"} : Executed(c, rc, 0)
    BY <1>1, <1>3, ExecutedKeeps
  <1>4. CASE ~WriteBusy(c) /\ Goes(c, "writing") /\ UNCHANGED call
    <2>1. pc' = [pc EXCEPT ![c] = "writing"] /\ pc'[c] = "writing" /\ call'[c] = call[c]
      BY <1>4 DEF Goes, TypeOK
    <2>2. TypeOK'
      BY <1>1, <1>4, <2>1, SameCalls DEF TypeOK
    <2>3. c \notin Wrappers
      BY <1>1 DEF Local, Tidy, Writes
    <2>4. Local(c)'
      BY <1>1, <2>1, <2>3 DEF Local, UnderWay, Answered, Writing, Reading
    <2>. QED  BY <1>4, <2>2, <2>4 DEF Kept
  <1>. QED  BY <1>2, <1>3, <1>4 DEF Begin

LEMMA WriteKeeps ==
  ASSUME TypeOK, NEW c \in Connections, Local(c), Write(c)
  PROVE  Kept(c)
  <1>1. /\ pc[c] = "writing" /\ UNCHANGED <<created, table, statements, unread, calls>>
        /\ created \in BOOLEAN /\ table \in Seq(0 .. calls) /\ call[c].op \in Writes
    BY DEF Write, file, TypeOK, Local, UnderWay, Writing
  <1>2. CASE call[c].op \in {"update", "remove"} /\ Executed(c, "OK", 1)
    BY <1>1, <1>2, ExecutedKeeps DEF Writing
  <1>3. CASE Goes(c, "committing") /\ UNCHANGED call
    <2>1. pc' = [pc EXCEPT ![c] = "committing"] /\ pc'[c] = "committing" /\ call'[c] = call[c]
      BY <1>3 DEF Goes, TypeOK
    <2>2. TypeOK'
      BY <1>1, <1>3, <2>1, SameCalls DEF TypeOK
    <2>3. Local(c)'
      BY <1>1, <2>1 DEF Local, UnderWay, Answered, Tidy, Writing, Reading
    <2>. QED  BY <1>1, <2>2, <2>3 DEF Kept, Writing
  <1>. QED  BY <1>2, <1>3 DEF Write

\* The table after a commit has rows of calls that were made.
LEMMA ChangedType ==
  ASSUME TypeOK, NEW k \in Calls, k.op \in Writes
  PROVE  Changed(k) \in Seq(0 .. calls)
  <1>1. k.id \in 0 .. calls /\ table \in Seq(0 .. calls)
    BY DEF Calls, TypeOK
  <1>2. Append(table, k.id) \in Seq(0 .. calls) /\ <<>> \in Seq(0 .. calls)
    BY <1>1, AppendProperties
  <1>3. [i \in DOMAIN table |-> k.id] \in Seq(0 .. calls)
    <2>. DEFINE n == Len(table)
    <2>1. n \in Nat /\ DOMAIN table = 1 .. n
      BY <1>1, LenProperties
    <2>. HIDE DEF n
    <2>. QED  BY <1>1, <2>1
  <1>. QED  BY <1>1, <1>2, <1>3 DEF Changed, Writes

LEMMA CommitKeeps ==
  ASSUME TypeOK, NEW c \in Connections, Local(c), Commit(c)
  PROVE  Kept(c)
  <1>1. /\ pc[c] = "committing" /\ UNCHANGED <<statements, unread, calls>>
        /\ created \in BOOLEAN /\ table \in Seq(0 .. calls)
        /\ call[c].op \in Writes /\ call[c] \in Calls
    BY DEF Commit, TypeOK, Local, UnderWay, Writing
  <1>2. CASE Executed(c, "OK", 1) /\ table' = Changed(call[c]) /\ created' = TRUE
    BY <1>1, <1>2, ChangedType, ExecutedKeeps DEF Writing
  <1>3. CASE Executed(c, "BUSY", 0) /\ UNCHANGED file
    BY <1>1, <1>3, ExecutedKeeps DEF Writing, file
  <1>. QED  BY <1>2, <1>3 DEF Commit
-----------------------------------------------------------------------------
\* Every step preserves the invariant.
LEMMA StepIInv == IInv /\ [Next]_vars => IInv'
  <1>1. ASSUME IInv, NEW c \in Connections, Act(c)  PROVE IInv'
    <2>1. Kept(c)
      BY <1>1, OpenKeeps, CallKeeps, PrepareKeeps, RowKeeps, DoneKeeps, BeginKeeps, WriteKeeps,
         CommitKeeps DEF IInv, Act
    <2>2. \A d \in Connections : d # c => Local(d)' /\ Same(d)
      BY <1>1, Framed, OthersKept DEF IInv
    <2>3. OneWriter'
      <3>1. \A d \in Connections : d # c /\ pc'[d] \in Writing => pc'[c] \notin Writing
        BY <1>1, <2>1, <2>2 DEF Kept, Same, IInv, OneWriter, WriteBusy, Others, Writing
      <3>. QED  BY <1>1, <2>2, <3>1 DEF IInv, OneWriter, Same
    <2>4. \A d \in Connections : Local(d)'
      BY <2>1, <2>2 DEF Kept
    <2>. QED  BY <2>1, <2>3, <2>4 DEF IInv, Kept, Connections
  <1>2. ASSUME IInv, UNCHANGED vars  PROVE IInv'
    BY <1>2 DEF vars, IInv, TypeOK, OneWriter, Local, UnderWay, Answered, Tidy, Calls, Connections
  <1>3. IInv /\ Next => \E c \in Connections : Act(c)
    BY DEF Next, Act, Connections
  <1>. QED  BY <1>1, <1>2, <1>3

THEOREM Invariance == Spec => []IInv
  BY InitIInv, StepIInv, PTL DEF Spec

\* The counters, calls and rows have their types: no statement is finalized
\* that was not prepared.
THEOREM TypeCorrect == Spec => []TypeOK
  BY Invariance, PTL DEF IInv

\* Whatever the calls of several connections do to each other, the answer of
\* Insert, Update and CreateTable is the truth.
THEOREM AnswersCorrect == Spec => []AnswersHold
  <1>1. IInv => AnswersHold
    BY DEF IInv, Local, Answered, AnswersHold
  <1>. QED  BY <1>1, Invariance, PTL

\* QueryData leaves neither a statement nor a lock on its connection.
THEOREM NothingLeftOpenCorrect == Spec => []NothingLeftOpen
  <1>1. IInv => NothingLeftOpen
    BY DEF IInv, Local, Tidy, NothingLeftOpen, Shared, Writing, Reading, Connections
  <1>. QED  BY <1>1, Invariance, PTL

\* A query that ends after its rows returned the table of that moment.
LEMMA StepSnapshot ==
  IInv /\ [Next]_vars
    => [\A c \in Connections :
          pc[c] = "stepping" /\ pc'[c] = "idle" => call'[c].rows = table]_vars
  <1>. SUFFICES ASSUME IInv, Next, NEW c \in Connections, pc[c] = "stepping", pc'[c] = "idle"
                PROVE  call'[c].rows = table
    OBVIOUS
  <1>1. Act(c)
    <2>1. PICK d \in Connections : Act(d)
      BY DEF Next, Act, Connections
    <2>. QED  BY <2>1, Framed DEF IInv, Same
  <1>2. call[c].op = "query" /\ UnderWay(c) /\ TypeOK
    BY DEF IInv, Local, UnderWay
  <1>3. CASE Row(c)
    <2>1. Goes(c, "stepping")
      BY <1>2, <1>3 DEF Row
    <2>. QED  BY <1>2, <2>1 DEF Goes, TypeOK
  <1>4. CASE Done(c)
    <2>1. AllRead(c) /\ Return(c, "rows") /\ calls' = calls
      BY <1>2, <1>4 DEF Done
    <2>2. call'[c].rows = call[c].rows
      BY <1>2, <2>1, ReturnFacts
    <2>3. call[c].rows \in Seq(0 .. calls) /\ table \in Seq(0 .. calls)
      BY <1>2 DEF TypeOK, Calls
    <2>4. call[c].rows = table
      BY <1>2, <2>1, <2>3, SeqEqual DEF AllRead, UnderWay
    <2>. QED  BY <2>2, <2>4
  <1>. QED  BY <1>1, <1>3, <1>4 DEF Act, Open, Close, Call, Prepare, Begin, Write, Commit

THEOREM SnapshotCorrect == Spec => QueryIsSnapshot
  BY Invariance, StepSnapshot, PTL DEF Spec, QueryIsSnapshot
=============================================================================
