---------------------------- MODULE LoggerProofs -----------------------------
(***************************************************************************)
(* For any number of messages and any policies, if those that a program    *)
(* adds are added before its first Log: every policy gets every message    *)
(* once and in order, no policy is destroyed while it is used, and the     *)
(* Logger uses the console as ConsoleLogPolicy expects it.  Of the console *)
(* by itself: it prints what it was given, once and in order, and all of   *)
(* it before its destructor returns.  Its variables are those of the       *)
(* Logger's instance.                                                      *)
(***************************************************************************)
EXTENDS Logger, SequenceTheorems, TLAPS

\* Nothing is logged before the policies are there, and then none is added.
SetupFirst ==
  /\ adding # "none" => adding \in wanted \ Range(policies_)
  /\ logged = 0 => queue_ = <<>> /\ todo = <<>> /\ given = <<>> /\ filed = <<>>
  /\ logged # 0 => adding = "none" /\ Range(policies_) = wanted

\* A message is given to policies that were added, to each of them once.
Delivery ==
  /\ todo \in Seq(Policies) /\ IsInjective(todo) /\ Range(todo) \subseteq Range(policies_)
  /\ given \in Seq(Nat)

\* The order in which the parts of the logger end.
Lifetimes ==
  /\ mutex_ = "user" => owner = "using"
  /\ owner = "gone" => dispatcher = "exit" /\ timer = "exit"
  /\ console_dtor # "no" => owner = "gone"

\* The inductive invariant.
IInv == TypeOK /\ SetupFirst /\ Delivery /\ EachPolicyInOrder /\ Lifetimes
-----------------------------------------------------------------------------
\* A message that moves from the head of a queue to the space before it.
LEMMA MoveHead ==
  ASSUME NEW S, NEW s \in Seq(S), NEW q \in Seq(S), q # <<>>
  PROVE  (s \o <<Head(q)>>) \o Tail(q) = (s \o <<>>) \o q
  <1>1. Head(q) \in S /\ Tail(q) \in Seq(S) /\ <<Head(q)>> \in Seq(S)
    BY HeadTailProperties
  <1>2. <<Head(q)>> \o Tail(q) = q
    <2>1. /\ <<Head(q)>> \o Tail(q) \in Seq(S)
          /\ Len(<<Head(q)>> \o Tail(q)) = 1 + Len(Tail(q))
          /\ \A i \in 1 .. 1 + Len(Tail(q)) :
               (<<Head(q)>> \o Tail(q))[i] = IF i <= 1 THEN Head(q) ELSE Tail(q)[i - 1]
      BY <1>1, ConcatProperties
    <2>2. /\ Len(Tail(q)) = Len(q) - 1 /\ Len(q) \in Nat \ {0} /\ Head(q) = q[1]
          /\ \A i \in 1 .. Len(q) - 1 : Tail(q)[i] = q[i + 1]
      BY HeadTailProperties, EmptySeq
    <2>3. \A i \in 1 .. Len(q) : (<<Head(q)>> \o Tail(q))[i] = q[i]
      <3>. TAKE i \in 1 .. Len(q)
      <3>1. CASE i = 1
        BY <3>1, <2>1, <2>2
      <3>2. CASE i # 1
        <4>1. i - 1 \in 1 .. Len(q) - 1 /\ (i - 1) + 1 = i
          BY <3>2, <2>2
        <4>. QED  BY <4>1, <2>1, <2>2, <3>2
      <3>. QED  BY <3>1, <3>2
    <2>4. Len(<<Head(q)>> \o Tail(q)) = Len(q)
      BY <2>1, <2>2
    <2>. QED  BY <2>1, <2>3, <2>4, SeqEqual
  <1>3. (s \o <<Head(q)>>) \o Tail(q) = s \o (<<Head(q)>> \o Tail(q))
    BY <1>1, ConcatAssociative
  <1>. QED  BY <1>2, <1>3, ConcatEmptySeq

\* A message that is appended to the last of three sequences.
LEMMA AppendLast ==
  ASSUME NEW s \in Seq(Nat), NEW t \in Seq(Nat), NEW q \in Seq(Nat), NEW e \in Nat
  PROVE  (s \o t) \o Append(q, e) = Append((s \o t) \o q, e)
  <1>1. /\ s \o t \in Seq(Nat) /\ (s \o t) \o q \in Seq(Nat) /\ <<e>> \in Seq(Nat)
        /\ Append(q, e) = q \o <<e>>
        /\ Append((s \o t) \o q, e) = ((s \o t) \o q) \o <<e>>
    BY ConcatProperties, AppendIsConcat
  <1>2. ((s \o t) \o q) \o <<e>> = (s \o t) \o (q \o <<e>>)
    BY <1>1, ConcatAssociative, SMTT(60)
  <1>. QED  BY <1>1, <1>2, Zenon

\* A message that moves from the middle to the end of the first sequence.
LEMMA MoveMiddle ==
  ASSUME NEW S, NEW s \in Seq(S), NEW q \in Seq(S), NEW e \in S
  PROVE  (Append(s, e) \o <<>>) \o q = (s \o <<e>>) \o q
  <1>1. Append(s, e) \in Seq(S) /\ Append(s, e) = s \o <<e>>
    BY AppendProperties, AppendIsConcat
  <1>. QED  BY <1>1, ConcatEmptySeq

\* The sequence of the first numbers, and one number more.
LEMMA UpTo ==
  ASSUME NEW n \in Nat
  PROVE  /\ [i \in 1 .. n |-> i] \in Seq(Nat) /\ Len([i \in 1 .. n |-> i]) = n
         /\ Append([i \in 1 .. n |-> i], n + 1) = [i \in 1 .. n + 1 |-> i]
  <1> DEFINE s == [i \in 1 .. n |-> i]
             t == [i \in 1 .. n + 1 |-> i]
  <1>1. s \in [1 .. n -> Nat] /\ t \in [1 .. n + 1 -> Nat]
    OBVIOUS
  <1>2. s \in Seq(Nat) /\ t \in Seq(Nat) /\ Len(s) = n /\ Len(t) = n + 1
    <2>1. Len(s) = n /\ Len(t) = n + 1
      OBVIOUS
    <2>2. s \in Seq(Nat) /\ t \in Seq(Nat)
      <3>. HIDE DEF s, t
      <3>. QED  BY <1>1, n + 1 \in Nat, SeqDef
    <2>. QED  BY <2>1, <2>2
  <1>3. /\ Append(s, n + 1) \in Seq(Nat) /\ Len(Append(s, n + 1)) = n + 1
        /\ \A i \in 1 .. n : Append(s, n + 1)[i] = s[i]
        /\ Append(s, n + 1)[n + 1] = n + 1
    BY <1>2, AppendProperties
  <1>4. \A i \in 1 .. n + 1 : Append(s, n + 1)[i] = t[i]
    BY <1>3
  <1>5. Append(s, n + 1) = t
    <2>. HIDE DEF s, t
    <2>. QED  BY <1>2, <1>3, <1>4, SeqEqual
  <1>. QED  BY <1>2, <1>5

\* The number in the middle of such a sequence.
LEMMA MiddleElement ==
  ASSUME NEW s \in Seq(Nat), NEW e \in Nat, NEW q \in Seq(Nat), NEW n \in Nat,
         (s \o <<e>>) \o q = [i \in 1 .. n |-> i]
  PROVE  e = Len(s) + 1 /\ Len(s) < n
  <1>1. /\ Len(s) \in Nat /\ Len(q) \in Nat /\ <<e>> \in Seq(Nat) /\ Len(<<e>>) = 1
        /\ <<e>>[1] = e
    BY LenProperties
  <1>2. /\ s \o <<e>> \in Seq(Nat) /\ Len(s \o <<e>>) = Len(s) + 1
        /\ (s \o <<e>>)[Len(s) + 1] = e
    BY <1>1, ConcatProperties
  <1>3. /\ Len((s \o <<e>>) \o q) = Len(s) + 1 + Len(q)
        /\ ((s \o <<e>>) \o q)[Len(s) + 1] = e
    BY <1>1, <1>2, ConcatProperties
  <1>. DEFINE t == [i \in 1 .. n |-> i]
  <1>4. Len(s) + 1 + Len(q) = n
    BY <1>3, UpTo
  <1>5. Len(s) + 1 \in 1 .. n
    BY <1>1, <1>4
  <1>6. t[Len(s) + 1] = Len(s) + 1
    BY <1>5
  <1>7. t[Len(s) + 1] = e
    BY <1>3
  <1>. QED  BY <1>1, <1>5, <1>6, <1>7

\* The elements of a sequence without repetition, of its tail and of one that
\* is longer by a new element.
LEMMA HeadAndTail ==
  ASSUME NEW S, NEW s \in Seq(S), s # <<>>, IsInjective(s)
  PROVE  /\ Head(s) \in S /\ Tail(s) \in Seq(S) /\ IsInjective(Tail(s))
         /\ Head(s) \in Range(s) /\ Range(Tail(s)) = Range(s) \ {Head(s)}
  <1>1. /\ Head(s) \in S /\ Tail(s) \in Seq(S) /\ Head(s) = s[1]
        /\ Len(s) \in Nat \ {0} /\ DOMAIN s = 1 .. Len(s)
        /\ DOMAIN Tail(s) = 1 .. Len(s) - 1
        /\ \A i \in 1 .. Len(s) - 1 : Tail(s)[i] = s[i + 1]
    BY HeadTailProperties, EmptySeq, LenProperties
  <1>2. IsInjective(Tail(s))
    BY <1>1 DEF IsInjective
  <1>3. Head(s) \in Range(s)
    BY <1>1 DEF Range
  <1>4. ASSUME NEW e \in Range(Tail(s))  PROVE e \in Range(s) \ {Head(s)}
    <2>1. PICK i \in 1 .. Len(s) - 1 : e = s[i + 1]
      BY <1>1, <1>4 DEF Range
    <2>. QED  BY <1>1, <2>1 DEF Range, IsInjective
  <1>5. ASSUME NEW e \in Range(s) \ {Head(s)}  PROVE e \in Range(Tail(s))
    <2>1. PICK i \in 1 .. Len(s) : e = s[i] /\ i # 1
      BY <1>1, <1>5 DEF Range
    <2>2. i - 1 \in 1 .. Len(s) - 1 /\ (i - 1) + 1 = i
      BY <1>1, <2>1
    <2>. QED  BY <1>1, <2>1, <2>2 DEF Range
  <1>. QED  BY <1>1, <1>2, <1>3, <1>4, <1>5

LEMMA AppendNew ==
  ASSUME NEW S, NEW s \in Seq(S), NEW e \in S \ Range(s), IsInjective(s)
  PROVE  /\ Append(s, e) \in Seq(S) /\ IsInjective(Append(s, e))
         /\ Range(Append(s, e)) = Range(s) \cup {e}
  <1>1. /\ Append(s, e) \in Seq(S) /\ Len(s) \in Nat /\ DOMAIN s = 1 .. Len(s)
        /\ DOMAIN Append(s, e) = 1 .. Len(s) + 1
        /\ \A i \in 1 .. Len(s) : Append(s, e)[i] = s[i]
        /\ Append(s, e)[Len(s) + 1] = e
    BY AppendProperties, LenProperties
  <1>2. \A i \in 1 .. Len(s) : s[i] # e
    BY <1>1 DEF Range
  <1>3. IsInjective(Append(s, e))
    <2>. SUFFICES ASSUME NEW a \in 1 .. Len(s) + 1, NEW b \in 1 .. Len(s) + 1,
                         Append(s, e)[a] = Append(s, e)[b]
                  PROVE  a = b
      BY <1>1 DEF IsInjective
    <2>1. CASE a \in 1 .. Len(s) /\ b \in 1 .. Len(s)
      BY <1>1, <2>1 DEF IsInjective
    <2>2. CASE a = Len(s) + 1 \/ b = Len(s) + 1
      BY <1>1, <1>2, <2>2
    <2>. QED  BY <1>1, <2>1, <2>2
  <1>4. Range(Append(s, e)) = Range(s) \cup {e}
    BY <1>1 DEF Range
  <1>. QED  BY <1>1, <1>3, <1>4

\* Contains and Range say the same of a sequence.
LEMMA ContainsRange ==
  ASSUME NEW S, NEW s \in Seq(S), NEW e
  PROVE  Contains(s, e) <=> e \in Range(s)
  BY LenProperties DEF Contains, Range
-----------------------------------------------------------------------------
\* What the invariant says of the sequences that EachPolicyInOrder relates.
LEMMA PathTypes ==
  ASSUME IInv, NEW p
  PROVE  /\ queue_ \in Seq(Nat) /\ given \in Seq(Nat) /\ filed \in Seq(Nat)
         /\ Given(p) \in Seq(Nat) /\ InFlight(p) \in Seq(Nat)
         /\ logged \in Nat /\ current \in Nat /\ logged <= MaxMsg
  <1>1. logged \in Nat /\ current \in Nat /\ logged <= MaxMsg
    BY LoggerAssumption DEF IInv, TypeOK
  <1>2. queue_ \in Seq(Nat) /\ filed \in Seq(Nat)
    BY <1>1, SeqMonotonic DEF IInv, TypeOK
  <1>3. given \in Seq(Nat)
    BY DEF IInv, Delivery
  <1>. QED  BY <1>1, <1>2, <1>3 DEF Given, InFlight

\* A policy has a message in flight if and only if it is to be given one.
LEMMA InFlightFacts ==
  ASSUME IInv, NEW p
  PROVE  InFlight(p) = IF p \in Range(todo) THEN <<current>> ELSE <<>>
  BY ContainsRange DEF IInv, Delivery, InFlight

LEMMA InitIInv == Init => IInv
  <1>. SUFFICES ASSUME Init  PROVE IInv
    OBVIOUS
  <1>1. /\ queue_ = <<>> /\ policies_ = <<>> /\ todo = <<>> /\ filed = <<>> /\ given = <<>>
        /\ logged = 0 /\ promised = 0 /\ current = 0 /\ console_dtor = "no"
        /\ mutex_ = "free" /\ adding = "none" /\ dispatcher = "fetch" /\ timer = "test"
        /\ owner = "using" /\ Range(policies_) = {} /\ Range(todo) = {}
        /\ wanted \subseteq Policies
    BY DEF Init, Console!Init, Range
  <1>2. TypeOK
    <2>1. stop_ \in BOOLEAN /\ (stop_ <=> owner # "using")
      BY Zenon DEF Init
    <2>2. asleep => dispatcher = "fetch"
      BY Zenon DEF Init
    <2>3. IsInjective(policies_)
      BY <1>1 DEF IsInjective
    <2>. QED  BY <1>1, <2>1, <2>2, <2>3, EmptySeq, LoggerAssumption DEF TypeOK
  <1>3. Delivery
    BY <1>1, EmptySeq DEF Delivery, IsInjective
  <1>. QED  BY <1>1, <1>2, <1>3 DEF IInv, SetupFirst, EachPolicyInOrder, Lifetimes

\* Log appends the message for every policy.
LEMMA LogIInv ==
  ASSUME IInv, ~AddLate, Log
  PROVE  IInv'
  <1>1. /\ logged' = logged + 1 /\ queue_' = Append(queue_, logged + 1)
        /\ adding = "none" /\ Range(policies_) = wanted /\ logged < MaxMsg
        /\ UNCHANGED <<stop_, mutex_, owner, promised, policies_, adding, wanted, dispatcher,
                       current, todo, timer, filed, given, console_dtor>>
    BY DEF Log, SetupDone, setup, consoleVars
  <1>2. /\ logged \in Nat /\ logged + 1 \in Nat \ {0} /\ queue_ \in Seq(Nat)
        /\ logged + 1 \in 0 .. MaxMsg
    BY <1>1, PathTypes, LoggerAssumption DEF IInv, TypeOK
  <1>3. TypeOK'
    <2>1. queue_' \in Seq(1 .. logged')
      <3>1. queue_ \in Seq(1 .. logged + 1) /\ logged + 1 \in 1 .. logged + 1
        BY <1>2, SeqMonotonic DEF IInv, TypeOK
      <3>. QED  BY <1>1, <3>1, AppendProperties
    <2>2. filed' \in Seq(1 .. logged')
      BY <1>1, <1>2, SeqMonotonic DEF IInv, TypeOK
    <2>3. asleep' => dispatcher' = "fetch"
      BY Zenon DEF Log
    <2>. QED  BY <1>1, <1>2, <2>1, <2>2, <2>3 DEF IInv, TypeOK
  <1>4. SetupFirst' /\ Delivery' /\ Lifetimes'
    BY <1>1, <1>2 DEF IInv, SetupFirst, Delivery, Lifetimes
  <1>5. EachPolicyInOrder'
    <2>. SUFFICES ASSUME NEW p \in Range(policies_)
                  PROVE  (Given(p) \o InFlight(p)) \o Append(queue_, logged + 1)
                         = [i \in 1 .. logged + 1 |-> i]
      BY <1>1 DEF EachPolicyInOrder, Given, InFlight
    <2>1. (Given(p) \o InFlight(p)) \o queue_ = [i \in 1 .. logged |-> i]
      BY DEF IInv, EachPolicyInOrder
    <2>2. (Given(p) \o InFlight(p)) \o Append(queue_, logged + 1)
          = Append((Given(p) \o InFlight(p)) \o queue_, logged + 1)
      <3>. DEFINE m == logged + 1
      <3>1. /\ Given(p) \in Seq(Nat) /\ InFlight(p) \in Seq(Nat) /\ queue_ \in Seq(Nat)
            /\ m \in Nat
        BY PathTypes, <1>2
      <3>. HIDE DEF m
      <3>2. (Given(p) \o InFlight(p)) \o Append(queue_, m)
            = Append((Given(p) \o InFlight(p)) \o queue_, m)
        BY <3>1, AppendLast
      <3>. QED  BY <3>2 DEF m
    <2>. QED  BY <1>2, <2>1, <2>2, UpTo
  <1>. QED  BY <1>3, <1>4, <1>5 DEF IInv

\* A policy is added while nothing is logged.
LEMMA AddPolicyIInv ==
  ASSUME IInv, AddPolicy
  PROVE  IInv'
  <1>1. UNCHANGED <<wanted, queue_, stop_, mutex_, owner, logged, promised, dispatcher, asleep,
                    current, todo, timer, filed, given, console_dtor>>
    BY DEF AddPolicy, shared, dispatchVars, consoleVars
  <1>2. logged = 0 /\ queue_ = <<>> /\ todo = <<>> /\ given = <<>> /\ filed = <<>>
    <2>1. logged = 0
      BY DEF AddPolicy, IInv, SetupFirst
    <2>. QED  BY <2>1 DEF IInv, SetupFirst
  <1>3. /\ policies_' \in Seq(Policies) /\ IsInjective(policies_')
        /\ Range(policies_) \subseteq Range(policies_')
        /\ adding' # "none" => adding' \in wanted \ Range(policies_')
        /\ adding' \in Policies \cup {"none"}
    <2>1. policies_ \in Seq(Policies) /\ IsInjective(policies_) /\ wanted \subseteq Policies
      BY DEF IInv, TypeOK
    <2>2. CASE adding = "none" /\ adding' \in wanted \ Range(policies_) /\ UNCHANGED policies_
      BY <2>1, <2>2
    <2>3. CASE adding # "none" /\ policies_' = Append(policies_, adding) /\ adding' = "none"
      <3>1. adding \in wanted \ Range(policies_)
        BY <2>3 DEF IInv, SetupFirst
      <3>. QED  BY <2>1, <2>3, <3>1, AppendNew
    <2>. QED  BY <2>2, <2>3 DEF AddPolicy
  <1>4. TypeOK'
    BY <1>1, <1>3, LoggerAssumption DEF IInv, TypeOK
  <1>5. SetupFirst' /\ Delivery' /\ Lifetimes'
    BY <1>1, <1>2, <1>3 DEF IInv, SetupFirst, Delivery, Lifetimes
  <1>6. EachPolicyInOrder'
    <2>. SUFFICES ASSUME NEW p  PROVE (Given(p) \o InFlight(p)) \o queue_ = [i \in 1 .. 0 |-> i]
      BY <1>1, <1>2 DEF EachPolicyInOrder, Given, InFlight
    <2>1. Given(p) = <<>> /\ InFlight(p) = <<>>
      <3>1. Range(todo) = {}
        BY <1>2 DEF Range
      <3>. QED  BY <1>2, <3>1, InFlightFacts DEF Given
    <2>. QED  BY <1>2, <2>1, ConcatEmptySeq, EmptySeq
  <1>. QED  BY <1>4, <1>5, <1>6 DEF IInv

\* Steps that neither log, add, fetch nor deliver leave the order alone.
LEMMA SameDelivery ==
  ASSUME IInv, UNCHANGED <<queue_, logged, policies_, adding, wanted, todo, current, given,
                           filed>>
  PROVE  SetupFirst' /\ Delivery' /\ EachPolicyInOrder'
  BY DEF IInv, SetupFirst, Delivery, EachPolicyInOrder, Given, InFlight

\* The dispatcher takes the oldest message for every policy.
LEMMA TakeIInv ==
  ASSUME IInv, Fetch, Take
  PROVE  IInv'
  <1>1. /\ queue_ # <<>> /\ current' = Head(queue_) /\ queue_' = Tail(queue_)
        /\ todo' = policies_ /\ dispatcher' = "deliver" /\ dispatcher = "fetch" /\ ~asleep'
        /\ UNCHANGED <<stop_, mutex_, owner, logged, promised, policies_, adding, wanted, timer,
                       filed, given, console_dtor>>
    BY DEF Fetch, Take, setup, consoleVars
  <1>2. /\ queue_ \in Seq(1 .. logged) /\ queue_' \in Seq(1 .. logged)
        /\ current' \in 1 .. logged /\ logged # 0
    <2>1. queue_ \in Seq(1 .. logged)
      BY DEF IInv, TypeOK
    <2>. QED  BY <1>1, <2>1, HeadTailProperties DEF IInv, SetupFirst
  <1>3. TypeOK'
    <2>1. current' \in 0 .. logged'
      BY <1>1, <1>2
    <2>. QED  BY <1>1, <1>2, <2>1 DEF IInv, TypeOK
  <1>4. SetupFirst' /\ Delivery' /\ Lifetimes'
    BY <1>1, <1>2 DEF IInv, TypeOK, SetupFirst, Delivery, Lifetimes
  <1>5. EachPolicyInOrder'
    <2>. SUFFICES ASSUME NEW p \in Range(policies_)
                  PROVE  (Given(p) \o InFlight(p)') \o Tail(queue_) = [i \in 1 .. logged |-> i]
      BY <1>1 DEF EachPolicyInOrder, Given
    <2>1. InFlight(p) = <<>>
      <3>1. Range(todo) = {}
        BY <1>1 DEF IInv, TypeOK, Range
      <3>. QED  BY <3>1, InFlightFacts
    <2>2. InFlight(p)' = <<Head(queue_)>>
      <3>1. Contains(policies_, p)
        BY ContainsRange DEF IInv, TypeOK
      <3>. QED  BY <1>1, <3>1 DEF InFlight
    <2>3. (Given(p) \o <<>>) \o queue_ = [i \in 1 .. logged |-> i]
      BY <2>1 DEF IInv, EachPolicyInOrder
    <2>4. Given(p) \in Seq(Nat) /\ queue_ \in Seq(Nat)
      BY PathTypes
    <2>. QED  BY <1>1, <2>2, <2>3, <2>4, MoveHead
  <1>. QED  BY <1>3, <1>4, <1>5 DEF IInv

LEMMA FetchIInv ==
  ASSUME IInv, Fetch
  PROVE  IInv'
  <1>1. CASE Take
    BY <1>1, TakeIInv
  <1>2. CASE Exit \/ Sleep
    <2>1. UNCHANGED <<stop_, mutex_, owner, logged, promised, policies_, adding, wanted, timer,
                      filed, given, console_dtor, queue_, current, todo>>
      BY <1>2 DEF Fetch, Exit, Sleep, setup, consoleVars
    <2>2. /\ dispatcher' \in {"fetch", "exit"} /\ (asleep' => dispatcher' = "fetch")
          /\ dispatcher = "fetch"
      <3>1. CASE Exit
        BY <3>1 DEF Fetch, Exit
      <3>2. CASE Sleep
        BY <3>2 DEF Fetch, Sleep
      <3>. QED  BY <1>2, <3>1, <3>2
    <2>3. TypeOK'
      BY <2>1, <2>2 DEF IInv, TypeOK
    <2>4. Lifetimes'
      BY <2>1, <2>2 DEF IInv, Lifetimes
    <2>. QED  BY <2>1, <2>3, <2>4, SameDelivery DEF IInv
  <1>. QED  BY <1>1, <1>2 DEF Fetch

\* The message goes to the next policy, which is not given it again.
LEMMA GiveIInv ==
  ASSUME IInv, dispatcher = "deliver", todo # <<>>, todo' = Tail(todo),
         UNCHANGED <<queue_, stop_, mutex_, owner, logged, promised, policies_, adding, wanted,
                     dispatcher, asleep, current, timer>>,
         \/ Head(todo) = "console" /\ given' = Append(given, current) /\ filed' = filed
         \/ Head(todo) = "file" /\ filed' = Append(filed, current) /\ given' = given,
         console_dtor' = console_dtor
  PROVE  IInv'
  <1>1. /\ todo \in Seq(Policies) /\ IsInjective(todo)
        /\ Range(todo) \subseteq Range(policies_)
    BY DEF IInv, Delivery
  <1>2. /\ Tail(todo) \in Seq(Policies) /\ IsInjective(Tail(todo))
        /\ Head(todo) \in Range(todo) /\ Range(Tail(todo)) = Range(todo) \ {Head(todo)}
    BY <1>1, HeadAndTail
  <1>3. logged # 0 /\ current \in Nat /\ given' \in Seq(Nat)
    <2>1. current \in Nat /\ given \in Seq(Nat)
      BY PathTypes
    <2>2. given' \in Seq(Nat)
      <3>1. Append(given, current) \in Seq(Nat)
        BY <2>1, AppendProperties
      <3>. QED  BY <2>1, <3>1
    <2>3. logged # 0
      BY DEF IInv, SetupFirst
    <2>. QED  BY <2>1, <2>2, <2>3
  <1>4. current \in 1 .. logged
    <2>. DEFINE p == Head(todo)
    <2>1. /\ Given(p) \in Seq(Nat) /\ queue_ \in Seq(Nat) /\ logged \in Nat
          /\ InFlight(p) = <<current>>
          /\ (Given(p) \o <<current>>) \o queue_ = [i \in 1 .. logged |-> i]
      BY <1>1, <1>2, PathTypes, InFlightFacts DEF IInv, EachPolicyInOrder
    <2>2. current = Len(Given(p)) + 1 /\ Len(Given(p)) < logged
      BY <1>3, <2>1, MiddleElement
    <2>. QED  BY <2>1, <2>2, LenProperties
  <1>5. TypeOK'
    <2>1. filed' \in Seq(1 .. logged)
      <3>1. filed \in Seq(1 .. logged)
        BY DEF IInv, TypeOK
      <3>2. Append(filed, current) \in Seq(1 .. logged)
        BY <1>4, <3>1, AppendProperties
      <3>. QED  BY <3>1, <3>2
    <2>. QED  BY <2>1 DEF IInv, TypeOK
  <1>6. SetupFirst' /\ Delivery' /\ Lifetimes'
    BY <1>1, <1>2, <1>3 DEF IInv, SetupFirst, Delivery, Lifetimes
  <1>7. EachPolicyInOrder'
    <2>. SUFFICES ASSUME NEW p \in Range(policies_)
                  PROVE  (Given(p)' \o InFlight(p)') \o queue_ = [i \in 1 .. logged |-> i]
      BY DEF EachPolicyInOrder
    <2>1. (Given(p) \o InFlight(p)) \o queue_ = [i \in 1 .. logged |-> i]
      BY DEF IInv, EachPolicyInOrder
    <2>2. InFlight(p)' = IF p \in Range(todo) \ {Head(todo)} THEN <<current>> ELSE <<>>
      <3>1. Contains(Tail(todo), p) <=> p \in Range(Tail(todo))
        BY <1>2, ContainsRange
      <3>. QED  BY <1>2, <3>1 DEF InFlight
    <2>3. CASE p = Head(todo)
      <3>1. /\ InFlight(p) = <<current>> /\ InFlight(p)' = <<>>
            /\ Given(p)' = Append(Given(p), current)
        BY <1>2, <2>2, <2>3, InFlightFacts DEF Given
      <3>2. Given(p) \in Seq(Nat) /\ queue_ \in Seq(Nat) /\ current \in Nat
        BY PathTypes
      <3>3. (Append(Given(p), current) \o <<>>) \o queue_ = (Given(p) \o <<current>>) \o queue_
        BY <3>2, MoveMiddle
      <3>. QED  BY <2>1, <3>1, <3>3
    <2>4. CASE p # Head(todo)
      <3>1. InFlight(p)' = InFlight(p)
        BY <2>2, <2>4, InFlightFacts
      <3>2. Given(p)' = Given(p)
        <4>1. p \in {"console", "file"}
          BY RangeOfSeq, LoggerAssumption DEF IInv, TypeOK
        <4>. QED  BY <2>4, <4>1 DEF Given
      <3>. QED  BY <2>1, <3>1, <3>2
    <2>. QED  BY <2>3, <2>4
  <1>. QED  BY <1>5, <1>6, <1>7 DEF IInv

LEMMA DeliverIInv ==
  ASSUME IInv, Deliver
  PROVE  IInv'
  <1>1. /\ dispatcher = "deliver"
        /\ UNCHANGED <<queue_, stop_, mutex_, owner, logged, promised, policies_, adding, wanted,
                       asleep, current, timer>>
    BY DEF Deliver, shared, setup
  <1>2. CASE /\ todo = <<>> /\ dispatcher' = "fetch"
             /\ UNCHANGED <<todo, filed, consoleVars>>
    <2>1. UNCHANGED <<todo, filed, given, console_dtor>>
      BY <1>2 DEF consoleVars
    <2>2. TypeOK'
      BY <1>1, <1>2, <2>1 DEF IInv, TypeOK
    <2>3. Lifetimes'
      BY <1>1, <2>1 DEF IInv, Lifetimes
    <2>. QED  BY <1>1, <2>1, <2>2, <2>3, SameDelivery DEF IInv
  <1>3. CASE /\ todo # <<>> /\ Head(todo) = "console" /\ Console!Write(current)
             /\ todo' = Tail(todo) /\ UNCHANGED <<dispatcher, filed>>
    <2>1. given' = Append(given, current) /\ console_dtor' = console_dtor
      BY <1>3 DEF Console!Write
    <2>. QED  BY <1>1, <1>3, <2>1, GiveIInv
  <1>4. CASE /\ todo # <<>> /\ Head(todo) = "file" /\ filed' = Append(filed, current)
             /\ todo' = Tail(todo) /\ UNCHANGED <<dispatcher, consoleVars>>
    <2>1. given' = given /\ console_dtor' = console_dtor
      BY <1>4 DEF consoleVars
    <2>. QED  BY <1>1, <1>4, <2>1, GiveIInv
  <1>. QED  BY <1>2, <1>3, <1>4 DEF Deliver

\* Flush, the timer, the destructor and the console's own steps.
LEMMA FlushIInv ==
  ASSUME IInv, Flush \/ FlushReturn
  PROVE  IInv'
  <1>1. UNCHANGED <<queue_, stop_, owner, logged, policies_, adding, wanted, dispatcher, asleep,
                    current, todo, timer, filed, given, console_dtor>>
    BY DEF Flush, FlushReturn, setup, dispatchVars, consoleVars
  <1>2. /\ mutex_' \in {"free", "user", "timer"} /\ promised' \in 0 .. logged
        /\ mutex_ # "timer" /\ mutex_' # "timer"
        /\ mutex_' = "user" => owner = "using"
    BY LoggerAssumption DEF Flush, FlushReturn, IInv, TypeOK
  <1>3. TypeOK' /\ Lifetimes'
    BY <1>1, <1>2 DEF IInv, TypeOK, Lifetimes
  <1>. QED  BY <1>1, <1>3, SameDelivery DEF IInv

LEMMA TimerIInv ==
  ASSUME IInv, Timer
  PROVE  IInv'
  <1>1. UNCHANGED <<queue_, stop_, owner, logged, promised, policies_, adding, wanted, dispatcher,
                    asleep, current, todo, filed, given, console_dtor>>
    BY DEF Timer, TimerTest, TimerFlush, TimerFlushReturn, shared, setup, dispatchVars,
           consoleVars
  <1>2. /\ timer # "exit" /\ timer' \in {"test", "sleep", "flush", "exit"}
        /\ mutex_' \in {"free", "user", "timer"}
        /\ (mutex_' = "timer") <=> (timer' = "flush")
        /\ mutex_' = "user" => mutex_ = "user"
    BY DEF Timer, TimerTest, TimerFlush, TimerFlushReturn, shared, IInv, TypeOK
  <1>3. TypeOK' /\ Lifetimes'
    BY <1>1, <1>2 DEF IInv, TypeOK, Lifetimes
  <1>. QED  BY <1>1, <1>3, SameDelivery DEF IInv

LEMMA SpuriousWakeupIInv ==
  ASSUME IInv, SpuriousWakeup
  PROVE  IInv'
  <1>1. UNCHANGED <<queue_, stop_, mutex_, owner, logged, promised, policies_, adding, wanted,
                    dispatcher, current, todo, timer, filed, given, console_dtor>>
    BY DEF SpuriousWakeup, shared, setup, consoleVars
  <1>2. asleep' => dispatcher' = "fetch"
    BY Zenon DEF SpuriousWakeup
  <1>3. TypeOK' /\ Lifetimes'
    BY <1>1, <1>2 DEF IInv, TypeOK, Lifetimes
  <1>. QED  BY <1>1, <1>3, SameDelivery DEF IInv

LEMMA DestroyIInv ==
  ASSUME IInv, Stop \/ Join
  PROVE  IInv'
  <1>1. UNCHANGED <<queue_, mutex_, logged, promised, policies_, adding, wanted, dispatcher,
                    current, todo, timer, filed, given, console_dtor>>
    BY DEF Stop, Join, setup, dispatchVars, consoleVars
  <1>2. /\ owner' \in {"joining", "gone"} /\ owner # "gone" /\ mutex_ # "user"
        /\ owner' = "gone" => dispatcher = "exit" /\ timer = "exit"
    BY DEF Stop, Join, IInv, Lifetimes
  <1>3. stop_' \in BOOLEAN /\ (stop_' <=> owner' # "using") /\ (asleep' => dispatcher' = "fetch")
    <2>1. CASE Stop
      BY <2>1, Zenon DEF Stop
    <2>2. CASE Join
      BY <2>2 DEF Join, dispatchVars, IInv, TypeOK
    <2>. QED  BY <2>1, <2>2
  <1>4. TypeOK' /\ Lifetimes'
    BY <1>1, <1>2, <1>3 DEF IInv, TypeOK, Lifetimes
  <1>. QED  BY <1>1, <1>4, SameDelivery DEF IInv

LEMMA ConsoleStepIInv ==
  ASSUME IInv, ConsoleStep
  PROVE  IInv'
  <1>1. UNCHANGED <<queue_, stop_, mutex_, owner, logged, promised, policies_, adding, wanted,
                    dispatcher, asleep, current, todo, timer, filed>>
    BY DEF ConsoleStep, shared, setup, dispatchVars
  <1>2. given' = given /\ (console_dtor' # "no" => console_dtor # "no" \/ owner = "gone")
    BY DEF ConsoleStep, Console!Own, Console!Fetch, Console!Output, Console!SpuriousWakeup,
           Console!Stop, Console!Join
  <1>3. TypeOK' /\ Lifetimes'
    BY <1>1, <1>2 DEF IInv, TypeOK, Lifetimes
  <1>. QED  BY <1>1, <1>2, <1>3, SameDelivery DEF IInv

\* Every step of the specification preserves the invariant.
LEMMA NextIInv == ~AddLate /\ IInv /\ [Next]_vars => IInv'
  <1>. SUFFICES ASSUME ~AddLate, IInv, [Next]_vars  PROVE IInv'
    OBVIOUS
  <1>1. CASE Log
    BY <1>1, LogIInv
  <1>2. CASE AddPolicy
    BY <1>2, AddPolicyIInv
  <1>3. CASE Flush \/ FlushReturn
    BY <1>3, FlushIInv
  <1>4. CASE Timer
    BY <1>4, TimerIInv
  <1>5. CASE Dispatch
    BY <1>5, FetchIInv, DeliverIInv DEF Dispatch
  <1>6. CASE SpuriousWakeup
    BY <1>6, SpuriousWakeupIInv
  <1>7. CASE Stop \/ Join
    BY <1>7, DestroyIInv
  <1>8. CASE ConsoleStep
    BY <1>8, ConsoleStepIInv
  <1>9. CASE UNCHANGED vars
    <2>1. UNCHANGED <<queue_, stop_, mutex_, owner, logged, promised, policies_, adding, wanted,
                      dispatcher, asleep, current, todo, timer, filed, given, console_dtor>>
      BY <1>9 DEF vars, shared, setup, dispatchVars, consoleVars
    <2>2. TypeOK' /\ Lifetimes'
      BY <2>1 DEF IInv, TypeOK, Lifetimes
    <2>. QED  BY <2>1, <2>2, SameDelivery DEF IInv
  <1>. QED  BY <1>1, <1>2, <1>3, <1>4, <1>5, <1>6, <1>7, <1>8, <1>9 DEF Next
-----------------------------------------------------------------------------
(* The console by itself, in whatever environment its specification allows. *)

\* After the destructor nothing is left to print and nobody to print it.
ConsoleClosed == console_dtor = "done" => message_queue_ = <<>> /\ console_thread_ = "exit"

\* The inductive invariant of the console.
ConsoleIInv == Console!TypeOK /\ Console!PrintedInOrder /\ ConsoleClosed
LEMMA ConsoleInitIInv == Console!Init => ConsoleIInv
  <1>. SUFFICES ASSUME Console!Init  PROVE ConsoleIInv
    OBVIOUS
  <1>1. Console!TypeOK
    <2>1. /\ console_stop_ \in BOOLEAN /\ console_asleep \in BOOLEAN
          /\ (console_stop_ <=> console_dtor # "no")
      BY Zenon DEF Console!Init
    <2>. QED  BY <2>1, EmptySeq DEF Console!Init, Console!TypeOK
  <1>2. Console!PrintedInOrder /\ ConsoleClosed
    BY ConcatEmptySeq, EmptySeq
    DEF Console!Init, Console!PrintedInOrder, Console!Pending, ConsoleClosed
  <1>. QED  BY <1>1, <1>2 DEF ConsoleIInv

\* Write appends to the queue and to what was given.
LEMMA ConsoleWriteIInv ==
  ASSUME ConsoleIInv, NEW m \in Nat, Console!Write(m)
  PROVE  ConsoleIInv'
  <1>. USE DEF ConsoleIInv
  <1>1. Console!TypeOK'
    BY AppendProperties DEF Console!Write, Console!TypeOK
  <1>2. Console!PrintedInOrder'
    <2>1. /\ Console!Pending \in Seq(Nat) /\ printed \in Seq(Nat)
          /\ message_queue_ \in Seq(Nat) /\ m \in Nat
      BY DEF Console!Pending, Console!TypeOK
    <2>2. /\ printed' = printed /\ Console!Pending' = Console!Pending
          /\ message_queue_' = Append(message_queue_, m) /\ given' = Append(given, m)
          /\ (printed \o Console!Pending) \o message_queue_ = given
      BY DEF Console!Write, Console!PrintedInOrder, Console!Pending
    <2>3. (printed \o Console!Pending) \o Append(message_queue_, m)
          = Append((printed \o Console!Pending) \o message_queue_, m)
      BY <2>1, AppendLast, Zenon
    <2>. QED  BY <2>2, <2>3 DEF Console!PrintedInOrder
  <1>3. ConsoleClosed'
    BY DEF ConsoleClosed, Console!Write
  <1>. QED  BY <1>1, <1>2, <1>3

\* The thread takes the oldest message, exits or sleeps.
LEMMA ConsoleFetchIInv ==
  ASSUME ConsoleIInv, Console!Fetch
  PROVE  ConsoleIInv'
  <1>. USE DEF ConsoleIInv
  <1>1. CASE Console!Take
    <2>1. /\ message_queue_ \in Seq(Nat) /\ message_queue_ # <<>> /\ printed \in Seq(Nat)
          /\ Head(message_queue_) \in Nat /\ Tail(message_queue_) \in Seq(Nat)
      BY <1>1, HeadTailProperties DEF Console!Take, Console!TypeOK
    <2>2. Console!TypeOK'
      BY <1>1, <2>1 DEF Console!Fetch, Console!Take, Console!TypeOK
    <2>3. Console!PrintedInOrder'
      <3>1. Console!Pending = <<>> /\ Console!Pending' = <<Head(message_queue_)>>
        BY <1>1 DEF Console!Fetch, Console!Take, Console!Pending
      <3>2. (printed \o <<Head(message_queue_)>>) \o Tail(message_queue_)
            = (printed \o <<>>) \o message_queue_
        BY <2>1, MoveHead
      <3>. QED  BY <1>1, <3>1, <3>2 DEF Console!Fetch, Console!Take, Console!PrintedInOrder
    <2>4. ConsoleClosed'
      BY DEF Console!Fetch, ConsoleClosed
    <2>. QED  BY <2>2, <2>3, <2>4
  <1>2. CASE Console!Exit \/ Console!Sleep
    <2>1. Console!TypeOK'
      <3>1. console_stop_' = console_stop_ /\ console_dtor' = console_dtor
        BY DEF Console!Fetch
      <3>2. console_asleep \in BOOLEAN
        BY DEF Console!TypeOK
      <3>3. console_asleep' \in BOOLEAN /\ (console_asleep' => console_thread_' = "fetch")
        <4>1. CASE Console!Exit
          BY <4>1, <3>2, Zenon DEF Console!Fetch, Console!Exit
        <4>2. CASE Console!Sleep
          BY <4>2, Zenon DEF Console!Fetch, Console!Sleep
        <4>. QED  BY <1>2, <4>1, <4>2
      <3>. QED  BY <1>2, <3>1, <3>3 DEF Console!Fetch, Console!Exit, Console!Sleep, Console!TypeOK
    <2>2. Console!Pending' = Console!Pending
      BY <1>2 DEF Console!Fetch, Console!Exit, Console!Sleep, Console!Pending
    <2>3. Console!PrintedInOrder' /\ ConsoleClosed'
      BY <1>2, <2>2
      DEF Console!Fetch, Console!Exit, Console!Sleep, Console!PrintedInOrder, ConsoleClosed
    <2>. QED  BY <2>1, <2>3
  <1>. QED  BY <1>1, <1>2 DEF Console!Fetch

\* The thread prints the message it took.
LEMMA ConsoleOutputIInv ==
  ASSUME ConsoleIInv, Console!Output
  PROVE  ConsoleIInv'
  <1>. USE DEF ConsoleIInv
  <1>1. Console!TypeOK'
    BY AppendProperties DEF Console!Output, Console!TypeOK
  <1>2. Console!PrintedInOrder'
    <2>1. Console!Pending = <<message>> /\ Console!Pending' = <<>>
      BY DEF Console!Output, Console!Pending
    <2>2. (Append(printed, message) \o <<>>) \o message_queue_
          = (printed \o <<message>>) \o message_queue_
      BY MoveMiddle DEF Console!TypeOK
    <2>. QED  BY <2>1, <2>2 DEF Console!Output, Console!PrintedInOrder
  <1>3. ConsoleClosed'
    BY DEF Console!Output, ConsoleClosed
  <1>. QED  BY <1>1, <1>2, <1>3

\* The destructor: it prints what the thread has left.
LEMMA ConsoleDestroyIInv ==
  ASSUME ConsoleIInv, Console!Stop \/ Console!Join
  PROVE  ConsoleIInv'
  <1>. USE DEF ConsoleIInv
  <1>1. CASE Console!Stop
    <2>1. Console!Pending' = Console!Pending
      BY <1>1 DEF Console!Stop, Console!Pending
    <2>. QED  BY <1>1, <2>1 DEF Console!Stop, Console!TypeOK, Console!PrintedInOrder, ConsoleClosed
  <1>2. CASE Console!Join
    <2>1. Console!Pending = <<>> /\ Console!Pending' = <<>>
      BY <1>2 DEF Console!Join, Console!Pending
    <2>2. /\ printed \in Seq(Nat) /\ message_queue_ \in Seq(Nat)
          /\ printed' = printed \o message_queue_ /\ message_queue_' = <<>>
          /\ given' = given /\ console_thread_' = "exit"
          /\ (printed \o <<>>) \o message_queue_ = given
      BY <1>2, <2>1 DEF Console!Join, Console!TypeOK, Console!PrintedInOrder
    <2>3. printed' \in Seq(Nat) /\ printed' = given
      BY <2>2, ConcatProperties, ConcatEmptySeq
    <2>4. Console!TypeOK'
      BY <1>2, <2>2, <2>3 DEF Console!Join, Console!TypeOK
    <2>5. Console!PrintedInOrder'
      BY <2>1, <2>2, <2>3, ConcatEmptySeq, EmptySeq DEF Console!PrintedInOrder
    <2>. QED  BY <2>2, <2>4, <2>5 DEF ConsoleClosed
  <1>. QED  BY <1>1, <1>2

\* A step that leaves the console alone, or only wakes its thread.
LEMMA ConsoleIdleIInv ==
  ASSUME ConsoleIInv, Console!SpuriousWakeup \/ UNCHANGED Console!vars
  PROVE  ConsoleIInv'
  <1>. USE DEF ConsoleIInv
  <1>1. Console!Pending' = Console!Pending
    BY DEF Console!SpuriousWakeup, Console!vars, Console!Pending
  <1>2. Console!TypeOK'
    <2>1. CASE Console!SpuriousWakeup
      <3>1. console_asleep' \in BOOLEAN /\ (console_asleep' => console_thread_' = "fetch")
        BY <2>1, Zenon DEF Console!SpuriousWakeup
      <3>. QED  BY <2>1, <3>1 DEF Console!SpuriousWakeup, Console!TypeOK
    <2>2. CASE UNCHANGED Console!vars
      BY <2>2 DEF Console!vars, Console!TypeOK
    <2>. QED  BY <2>1, <2>2
  <1>. QED  BY <1>1, <1>2
            DEF Console!SpuriousWakeup, Console!vars, Console!PrintedInOrder, ConsoleClosed

\* Every step of the specification preserves the invariant.
LEMMA ConsoleNextIInv == ConsoleIInv /\ [Console!Next]_(Console!vars) => ConsoleIInv'
  <1>. SUFFICES ASSUME ConsoleIInv, [Console!Next]_(Console!vars)  PROVE ConsoleIInv'
    OBVIOUS
  <1>1. CASE Console!Write(Len(given) + 1)
    <2>1. Len(given) + 1 \in Nat
      BY LenProperties DEF ConsoleIInv, Console!TypeOK
    <2>. QED  BY <1>1, <2>1, ConsoleWriteIInv
  <1>2. CASE Console!Fetch
    BY <1>2, ConsoleFetchIInv
  <1>3. CASE Console!Output
    BY <1>3, ConsoleOutputIInv
  <1>4. CASE Console!Stop \/ Console!Join
    BY <1>4, ConsoleDestroyIInv
  <1>5. CASE Console!SpuriousWakeup \/ UNCHANGED Console!vars
    BY <1>5, ConsoleIdleIInv
  <1>. QED  BY <1>1, <1>2, <1>3, <1>4, <1>5 DEF Console!Next, Console!Own
-----------------------------------------------------------------------------
\* The invariant of the console holds in every reachable state.
THEOREM ConsoleInvariance == Console!Spec => []ConsoleIInv
  BY ConsoleInitIInv, ConsoleNextIInv, PTL DEF Console!Spec

\* What was printed, is about to be printed and waits is what was written, in
\* order (Write, ProcessQueue and the destructor).
THEOREM ConsolePrintedCorrect == Console!Spec => []Console!PrintedInOrder
  <1>1. ConsoleIInv => Console!PrintedInOrder
    BY DEF ConsoleIInv
  <1>. QED  BY <1>1, ConsoleInvariance, PTL

\* When the destructor has returned everything that was written is printed.
THEOREM ConsoleClosedPrinted == Console!Spec => [](console_dtor = "done" => printed = given)
  <1>1. ConsoleIInv => (console_dtor = "done" => printed = given)
    <2>. SUFFICES ASSUME ConsoleIInv, console_dtor = "done"  PROVE printed = given
      OBVIOUS
    <2>1. printed \in Seq(Nat) /\ message_queue_ = <<>> /\ Console!Pending = <<>>
      BY DEF ConsoleIInv, Console!TypeOK, ConsoleClosed, Console!Pending
    <2>. QED  BY <2>1, ConcatEmptySeq, EmptySeq DEF ConsoleIInv, Console!PrintedInOrder
  <1>. QED  BY <1>1, ConsoleInvariance, PTL
-----------------------------------------------------------------------------
\* The invariant of the logger, when its policies are added in time.
THEOREM Invariance == ASSUME ~AddLate  PROVE Spec => []IInv
  BY InitIInv, NextIInv, PTL DEF Spec

\* The type invariant of the logger.
THEOREM TypeCorrect == ASSUME ~AddLate  PROVE Spec => []TypeOK
  <1>1. IInv => TypeOK
    BY DEF IInv
  <1>. QED  BY <1>1, Invariance, PTL

\* Every policy gets every message once and in the order of the calls of Log
\* (Log and ProcessQueue).
THEOREM OrderCorrect == ASSUME ~AddLate  PROVE Spec => []EachPolicyInOrder
  <1>1. IInv => EachPolicyInOrder
    BY DEF IInv
  <1>. QED  BY <1>1, Invariance, PTL

\* No policy is destroyed while the dispatcher delivers or somebody flushes
\* (the destructor of Logger joins both threads first).
THEOREM PoliciesSafe == ASSUME ~AddLate  PROVE Spec => []PoliciesOutliveUse
  <1>1. IInv => PoliciesOutliveUse
    BY DEF IInv, TypeOK, Lifetimes, PoliciesOutliveUse
  <1>. QED  BY <1>1, Invariance, PTL

\* A step of the logger is a step of the console, or none.
LEMMA StepUsesConsole ==
  ~AddLate /\ IInv /\ [Next]_vars => [Console!Next]_(Console!vars)
  <1>. SUFFICES ASSUME IInv, [Next]_vars  PROVE [Console!Next]_(Console!vars)
    OBVIOUS
  <1>1. CASE UNCHANGED consoleVars
    BY <1>1 DEF consoleVars, Console!vars
  <1>2. CASE ConsoleStep
    BY <1>2 DEF ConsoleStep, Console!Next
  <1>3. CASE todo # <<>> /\ Head(todo) = "console" /\ Console!Write(current)
    <2>1. "console" \in Range(todo) /\ "console" \in Range(policies_)
      BY <1>3, HeadAndTail DEF IInv, Delivery
    <2>2. (given \o <<current>>) \o queue_ = [i \in 1 .. logged |-> i]
      BY <2>1, InFlightFacts DEF IInv, EachPolicyInOrder, Given
    <2>3. /\ given \in Seq(Nat) /\ queue_ \in Seq(Nat) /\ current \in Nat
          /\ logged \in Nat /\ logged <= MaxMsg
      BY PathTypes
    <2>4. current = Len(given) + 1 /\ Len(given) < logged
      BY <2>2, <2>3, MiddleElement
    <2>5. Len(given) < MaxMsg
      BY <2>3, <2>4, LenProperties, LoggerAssumption
    <2>. QED  BY <1>3, <2>4, <2>5 DEF Console!Next
  <1>. QED  BY <1>1, <1>2, <1>3
            DEF Next, vars, Log, AddPolicy, Flush, FlushReturn, Timer, TimerTest, TimerFlush,
                TimerFlushReturn, Dispatch, Fetch, Deliver, SpuriousWakeup, Stop, Join

\* The logger uses the console as ConsoleLogPolicy expects to be used: it
\* implements that specification's environment (ProcessQueue and the
\* destructors).
THEOREM ConsoleUsed == ASSUME ~AddLate  PROVE Spec => UsesConsole
  <1>1. Init => Console!Init
    BY DEF Init
  <1>. QED  BY <1>1, StepUsesConsole, Invariance, PTL DEF Spec, UsesConsole, Console!Spec

\* What the console printed, is about to print and keeps is what it was given,
\* in order, whatever the logger does.
THEOREM ConsoleOrderCorrect == ASSUME ~AddLate  PROVE Spec => []ConsolePrintsInOrder
  BY ConsoleUsed, ConsolePrintedCorrect, PTL DEF UsesConsole, ConsolePrintsInOrder
=============================================================================
