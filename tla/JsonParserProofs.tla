-------------------------- MODULE JsonParserProofs ---------------------------
(***************************************************************************)
(* For any texts, of any length: the parser stays inside the text, its     *)
(* calls are nested no deeper than what it has read, the function that     *)
(* runs is that of the innermost container, and after at most              *)
(* 4 * Len(json) + 3 steps it has returned or thrown.  If it returns, it   *)
(* returns what the text means by the grammar, and if it throws, the text  *)
(* means nothing.                                                          *)
(*                                                                         *)
(* For the last, the meaning of the whole text is followed through the     *)
(* calls: the equations of the grammar have a solution; a value that       *)
(* begins somewhere is what the innermost call has read of it and what is  *)
(* still to be read; and every step of the parser reads on as the grammar  *)
(* does.                                                                   *)
(***************************************************************************)
EXTENDS JsonParser, FiniteSetTheorems, SequenceTheorems, WellFoundedInduction, TLAPS

\* A sequence, whatever its elements are.
IsSequence(s) == s \in Seq({s[i] : i \in DOMAIN s})

\* A call of parse_object or parse_array.
IsCall(r) == r \in [fn : {"object", "array"}, made : {r.made}, key : {r.key}]

\* The recursion comes back to where it left: the loop that runs is that of
\* the container opened last, and parse ends with none open and nothing left.
Place ==
  /\ IsSequence(stack) /\ \A i \in DOMAIN stack : IsCall(stack[i])
  /\ pc \in {"object", "key", "colon"} => stack # <<>> /\ Top.fn = "object"
  /\ pc = "array" => stack # <<>> /\ Top.fn = "array"
  /\ pc = "done" => stack = <<>> /\ pos = Len(json)

\* The inductive invariant.
IInv == TypeOK /\ Place

\* A measure of the work done.  Without moving on in the text a step can only
\* go from a value that has returned to the loop of its container, from the
\* loop of an array to the value that begins there, and from all to the end.
Rank ==
  IF pc \in {"key", "string", "colon", "return"} THEN 0
  ELSE IF pc \in {"object", "array"} THEN 1
  ELSE IF pc = "value" THEN 2 ELSE 3

Work == 4 * pos + Rank
-----------------------------------------------------------------------------
(* Sequences of any elements. *)

\* What is in Seq is a sequence of its own elements.
LEMMA SequenceIntro ==
  ASSUME NEW S, NEW s \in Seq(S)
  PROVE  IsSequence(s)
  <1> DEFINE R == {s[i] : i \in DOMAIN s}
  <1>1. DOMAIN s = 1 .. Len(s) /\ Len(s) \in Nat /\ s \in [1 .. Len(s) -> S]
    BY LenProperties
  <1>2. s \in [1 .. Len(s) -> R]
    BY <1>1
  <1> HIDE DEF R
  <1>3. s \in Seq(R)
    BY <1>1, <1>2, SeqDef
  <1>. QED  BY <1>3 DEF IsSequence, R

\* The length of a sequence of any elements.
LEMMA SequenceFacts ==
  ASSUME NEW s, IsSequence(s)
  PROVE  Len(s) \in Nat /\ DOMAIN s = 1 .. Len(s) /\ (s = <<>> <=> Len(s) = 0)
  <1> DEFINE R == {s[i] : i \in DOMAIN s}
  <1>1. s \in Seq(R)
    BY DEF IsSequence
  <1> HIDE DEF R
  <1>. QED  BY <1>1, LenProperties, EmptySeq

\* A call more.
LEMMA Pushed ==
  ASSUME NEW s, IsSequence(s), NEW e
  PROVE  /\ IsSequence(Append(s, e)) /\ Append(s, e) # <<>>
         /\ Len(Append(s, e)) = Len(s) + 1
         /\ \A i \in 1 .. Len(s) : Append(s, e)[i] = s[i]
         /\ Append(s, e)[Len(s) + 1] = e
  <1> DEFINE R == {s[i] : i \in DOMAIN s}
             S == R \cup {e}
  <1>1. s \in Seq(R)
    BY DEF IsSequence
  <1> HIDE DEF R
  <1>2. s \in Seq(S) /\ e \in S
    <2>1. R \subseteq S
      OBVIOUS
    <2>. QED  BY <1>1, <2>1, SeqMonotonic
  <1> HIDE DEF S
  <1>3. Append(s, e) \in Seq(S)
    BY <1>2, AppendProperties
  <1>4. IsSequence(Append(s, e))
    BY <1>3, SequenceIntro
  <1>. QED  BY <1>2, <1>4, AppendProperties

\* A call less.
LEMMA Popped ==
  ASSUME NEW s, IsSequence(s), s # <<>>
  PROVE  LET t == SubSeq(s, 1, Len(s) - 1)
         IN  /\ IsSequence(t) /\ Len(t) = Len(s) - 1
             /\ \A i \in DOMAIN t : i \in DOMAIN s /\ t[i] = s[i]
  <1> DEFINE R == {s[i] : i \in DOMAIN s}
  <1>1. s \in Seq(R) /\ Len(s) \in Nat \ {0} /\ DOMAIN s = 1 .. Len(s)
    <2>1. s \in Seq(R)
      BY DEF IsSequence
    <2> HIDE DEF R
    <2>. QED  BY <2>1, SequenceFacts
  <1> HIDE DEF R
  <1>a. Len(s) - 1 \in Nat
    BY <1>1
  <1>2. PICK n \in Nat : n = Len(s) - 1
    BY <1>a, Zenon
  <1> DEFINE t == SubSeq(s, 1, n)
  <1>3. t \in Seq(R) /\ Len(t) = n /\ \A i \in 1 .. n : t[i] = s[i]
    <2>1. \A i \in 1 .. n : s[i] \in R
      BY <1>1, <1>2, ElementOfSeq
    <2>2. /\ SubSeq(s, 1, n) \in Seq(R) /\ Len(SubSeq(s, 1, n)) = (IF 1 <= n THEN n - 1 + 1 ELSE 0)
          /\ \A i \in 1 .. n - 1 + 1 : SubSeq(s, 1, n)[i] = s[1 + i - 1]
      BY <2>1, SubSeqProperties
    <2>3. \A i \in 1 .. n : i \in 1 .. n - 1 + 1 /\ 1 + i - 1 = i
      OBVIOUS
    <2>. QED  BY <2>2, <2>3
  <1> HIDE DEF t
  <1>4. DOMAIN t = 1 .. n /\ IsSequence(t)
    BY <1>3, LenProperties, SequenceIntro
  <1>5. t = SubSeq(s, 1, Len(s) - 1)
    BY <1>2 DEF t
  <1>6. \A i \in 1 .. n : i \in DOMAIN s
    BY <1>1, <1>2
  <1>. QED  BY <1>2, <1>3, <1>4, <1>5, <1>6

\* The innermost call goes on.
LEMMA Changed ==
  ASSUME NEW s, IsSequence(s), NEW S, NEW t \in [DOMAIN s -> S]
  PROVE  IsSequence(t) /\ Len(t) = Len(s)
  <1>1. Len(s) \in Nat /\ DOMAIN s = 1 .. Len(s) /\ DOMAIN t = DOMAIN s
    BY SequenceFacts
  <1>2. t \in Seq(S)
    BY <1>1, SeqDef
  <1>3. DOMAIN t = 1 .. Len(t) /\ Len(t) \in Nat
    BY <1>2, LenProperties
  <1>. QED  BY <1>1, <1>2, <1>3, SequenceIntro
-----------------------------------------------------------------------------
(* The least element, and induction over numbers. *)

\* Induction over a set of numbers.
LEMMA SetInduction ==
  ASSUME NEW T, 0 \in T, \A n \in Nat : n \in T => n + 1 \in T
  PROVE  Nat \subseteq T
  <1> DEFINE U == Nat \ T
  <1>. SUFFICES ASSUME U # {}  PROVE FALSE
    OBVIOUS
  <1>1. PICK x \in U : \A y \in U : ~ (<<y, x>> \in OpToRel(<, Nat))
    <2>1. U \subseteq Nat
      OBVIOUS
    <2>. HIDE DEF U
    <2>. QED  BY <2>1, WFMin, NatLessThanWellFounded, Zenon
  <1>2. x # 0 /\ x \in Nat
    OBVIOUS
  <1>3. x - 1 \in Nat /\ (x - 1) + 1 = x /\ x - 1 < x
    BY <1>2
  <1>4. x - 1 \in U
    BY <1>2, <1>3
  <1>5. <<x - 1, x>> \in OpToRel(<, Nat)
    BY <1>2, <1>3 DEF OpToRel
  <1>. QED  BY <1>1, <1>4, <1>5

\* A set of numbers has a least element.
LEMMA Least ==
  ASSUME NEW S, S \subseteq Nat, S # {}
  PROVE  \E m \in S : \A k \in S : m <= k
  <1>1. PICK m \in S : \A k \in S : ~ (<<k, m>> \in OpToRel(<, Nat))
    BY WFMin, NatLessThanWellFounded, Zenon
  <1>2. \A k \in S : ~(k < m)
    BY <1>1 DEF OpToRel
  <1>. QED  BY <1>2
-----------------------------------------------------------------------------
(* skip_whitespace, and the end of a number *)

\* The place that SkipAll finds.
LEMMA SkipAllIs ==
  ASSUME Len(json) \in Nat, NEW chars, NEW p \in 0 .. Len(json)
  PROVE  /\ SkipAll(chars, p) \in p .. Len(json)
         /\ \A k \in p + 1 .. SkipAll(chars, p) : json[k] \in chars
         /\ SkipAll(chars, p) < Len(json) => json[SkipAll(chars, p) + 1] \notin chars
  <1> DEFINE n == Len(json)
             S == {k \in p + 1 .. n : \A i \in p + 1 .. k : json[i] \in chars}
             Bad == {k \in p + 1 .. n : json[k] \notin chars}
  <1>1. \E m \in p .. n : S = p + 1 .. m /\ (m < n => json[m + 1] \notin chars)
    <2>1. CASE Bad = {}
      <3>1. S = p + 1 .. n
        BY <2>1
      <3>. QED  BY <3>1
    <2>2. CASE Bad # {}
      <3>1. PICK b \in Bad : \A k \in Bad : b <= k
        <4>1. Bad \subseteq Nat
          OBVIOUS
        <4>. HIDE DEF Bad
        <4>. QED  BY <2>2, <4>1, Least
      <3>2. PICK m \in p .. n : m = b - 1
        BY <3>1
      <3>3. \A k \in p + 1 .. m : json[k] \in chars
        BY <3>1, <3>2
      <3>4. m + 1 = b /\ b \in p + 1 .. n /\ json[b] \notin chars
        BY <3>1, <3>2
      <3>5. ASSUME NEW k \in S  PROVE k <= m
        <4>1. ~(b \in p + 1 .. k)
          BY <3>4, <3>5
        <4>. QED  BY <3>4, <4>1
      <3>6. ASSUME NEW k \in p + 1 .. m  PROVE k \in S
        BY <3>2, <3>3, <3>4
      <3>7. S \subseteq p + 1 .. m
        BY <3>4, <3>5
      <3>8. S = p + 1 .. m
        <4>. HIDE DEF S
        <4>. QED  BY <3>6, <3>7
      <3>. QED  BY <3>4, <3>8
    <2>. QED  BY <2>1, <2>2
  <1>2. PICK m \in p .. n : S = p + 1 .. m /\ (m < n => json[m + 1] \notin chars)
    BY <1>1
  <1>3. Cardinality(p + 1 .. m) = m - p
    <2>1. p + 1 \in Int /\ m \in Int
      OBVIOUS
    <2>2. Cardinality(p + 1 .. m) = IF p + 1 > m THEN 0 ELSE m - (p + 1) + 1
      BY <2>1, FS_Interval
    <2>. QED  BY <2>2
  <1>4. SkipAll(chars, p) = m
    <2>1. SkipAll(chars, p) = p + Cardinality(S)
      BY DEF SkipAll
    <2>. HIDE DEF S
    <2>. QED  BY <1>2, <1>3, <2>1
  <1>5. \A k \in p + 1 .. m : json[k] \in chars
    <2>1. \A k \in p + 1 .. m : k \in S
      <3>. HIDE DEF S
      <3>. QED  BY <1>2
    <2>. QED  BY <2>1
  <1>. QED  BY <1>2, <1>4, <1>5

\* At least one character is skipped if the first is one of them.
LEMMA SkipsOne ==
  ASSUME json \in Seq(STRING), NEW chars, NEW p \in 0 .. Len(json),
         p < Len(json), json[p + 1] \in chars
  PROVE  SkipAll(chars, p) > p
  <1>1. Len(json) \in Nat
    BY LenProperties
  <1>2. /\ SkipAll(chars, p) \in p .. Len(json)
        /\ SkipAll(chars, p) < Len(json) => json[SkipAll(chars, p) + 1] \notin chars
    BY <1>1, SkipAllIs
  <1>. QED  BY <1>1, <1>2

\* What skip_whitespace and the number's loop do from where the parser is.
LEMMA Places ==
  ASSUME TypeOK
  PROVE  /\ Here \in pos .. Len(json) /\ pos \in Nat /\ Len(json) \in Nat
         /\ NumberEnd \in Here .. Len(json)
         /\ ~AtEnd => Here < Len(json)
         /\ AtEnd => Here = Len(json)
         /\ \A c : Sees(c) => Here < Len(json)
         /\ SeesNumber => NumberEnd > Here
  <1>1. json \in Seq(STRING) /\ pos \in 0 .. Len(json) /\ Len(json) \in Nat
    BY LenProperties DEF TypeOK
  <1>2. Here \in pos .. Len(json)
    BY <1>1, SkipAllIs DEF Here
  <1>3. Here \in 0 .. Len(json)
    BY <1>1, <1>2
  <1>4. NumberEnd \in Here .. Len(json)
    BY <1>1, <1>3, SkipAllIs DEF NumberEnd
  <1>5. /\ ~AtEnd => Here < Len(json)
        /\ AtEnd => Here = Len(json)
        /\ \A c : Sees(c) => Here < Len(json)
    BY <1>1, <1>2 DEF AtEnd, Sees
  <1>6. ASSUME SeesNumber  PROVE NumberEnd > Here
    <2> DEFINE chars == Digit \cup {"-", "+", "e", "E", "."}
    <2>1. Here < Len(json) /\ json[Here + 1] \in chars
      BY <1>1, <1>2, <1>6 DEF SeesNumber, Sees, AtEnd
    <2> HIDE DEF chars
    <2>2. SkipAll(chars, Here) > Here
      BY <1>1, <1>3, <2>1, SkipsOne
    <2>. QED  BY <2>2 DEF NumberEnd, chars
  <1>. QED  BY <1>1, <1>2, <1>4, <1>5, <1>6
-----------------------------------------------------------------------------
(* The steps. *)

\* What every step does.
Goes == IInv' /\ json' = json /\ pos' >= pos /\ Work' > Work

\* A step that opens or ends no container.
LEMMA SameStack ==
  ASSUME IInv, UNCHANGED <<json, stack>>, pos' \in pos .. Len(json),
         lax' \in BOOLEAN, unset' \in BOOLEAN,
         \/ pc' \in {"value", "string", "return", "error"}
         \/ pc \in {"object", "key", "colon"} /\ pc' \in {"object", "key", "colon"},
         Work' > Work
  PROVE  Goes
  <1>1. Top' = Top
    BY DEF Top
  <1>2. pos \in Nat /\ Len(json) \in Nat
    BY Places DEF IInv
  <1>3. TypeOK'
    BY <1>2 DEF IInv, TypeOK, NestingBounded
  <1>4. Place'
    BY <1>1 DEF IInv, Place
  <1>. QED  BY <1>2, <1>3, <1>4 DEF Goes, IInv

\* A parse error.
LEMMA ThrowGoes ==
  ASSUME IInv, Throw, pc \notin {"done", "error"}
  PROVE  Goes
  <1>1. UNCHANGED <<json, stack, pos, lax, unset>> /\ pc' = "error"
    BY DEF Throw, history
  <1>2. pos \in Nat /\ Len(json) \in Nat /\ pos' \in pos .. Len(json)
    BY <1>1, Places DEF IInv, TypeOK
  <1>3. Work' > Work
    BY <1>1, <1>2 DEF IInv, TypeOK, Work, Rank
  <1>4. lax' \in BOOLEAN /\ unset' \in BOOLEAN
    BY <1>1 DEF IInv, TypeOK
  <1>. QED  BY <1>1, <1>2, <1>3, <1>4, SameStack

\* A value of its own, read up to p.
LEMMA ReturnGoes ==
  ASSUME IInv, NEW v, NEW p \in pos + 1 .. Len(json), Return(v, p), UNCHANGED stack,
         lax' \in BOOLEAN, unset' \in BOOLEAN, pc \in {"value", "string"}
  PROVE  Goes
  <1>1. pos' = p /\ pc' = "return" /\ UNCHANGED <<json, stack>>
    BY DEF Return
  <1>2. pos \in Nat /\ Len(json) \in Nat
    BY Places DEF IInv
  <1>3. Work' > Work /\ pos' \in pos .. Len(json)
    BY <1>1, <1>2 DEF Work, Rank
  <1>. QED  BY <1>1, <1>3, SameStack

\* A quote, or what is taken for one.
LEMMA BeginStringGoes ==
  ASSUME IInv, Here < Len(json), lax' \in BOOLEAN, unset' \in BOOLEAN,
         \/ pc = "value" /\ BeginString("string")
         \/ pc = "object" /\ BeginString("key")
  PROVE  Goes
  <1>1. pos' = Here + 1 /\ UNCHANGED <<json, stack>>
    BY DEF BeginString
  <1>2. pos \in Nat /\ Len(json) \in Nat /\ Here \in pos .. Len(json)
    BY Places DEF IInv
  <1>3. Work' > Work /\ pos' \in pos .. Len(json)
    BY <1>1, <1>2 DEF Work, Rank, BeginString
  <1>4. \/ pc' = "string"
        \/ pc = "object" /\ pc' = "key"
    BY DEF BeginString
  <1>. QED  BY <1>1, <1>3, <1>4, SameStack

\* A container is opened: one call and one character more.
LEMMA OpenGoes ==
  ASSUME IInv, NEW kind \in {"object", "array"}, Here < Len(json), Open(kind), pc = "value"
  PROVE  Goes
  <1> DEFINE call == [fn |-> kind, made |-> <<>>, key |-> <<>>]
  <1>1. /\ stack' = Append(stack, call) /\ pos' = Here + 1 /\ pc' = kind
        /\ UNCHANGED <<json, lax, unset>>
    BY DEF Open, history
  <1>2. pos \in Nat /\ Len(json) \in Nat /\ Here \in pos .. Len(json)
    BY Places DEF IInv
  <1>3. IsCall(call) /\ call.fn = kind
    BY DEF IsCall
  <1> HIDE DEF call
  <1>4. IsSequence(stack) /\ \A i \in DOMAIN stack : IsCall(stack[i])
    BY DEF IInv, Place
  <1>5. /\ IsSequence(stack') /\ stack' # <<>> /\ Len(stack') = Len(stack) + 1
        /\ \A i \in 1 .. Len(stack) : stack'[i] = stack[i]
        /\ stack'[Len(stack) + 1] = call
    BY <1>1, <1>4, Pushed
  <1>6. /\ DOMAIN stack = 1 .. Len(stack) /\ DOMAIN stack' = 1 .. Len(stack')
        /\ Len(stack) \in Nat
    BY <1>4, <1>5, SequenceFacts
  <1>7. \A i \in DOMAIN stack' : IsCall(stack'[i])
    BY <1>3, <1>4, <1>5, <1>6
  <1>8. Top' = call
    BY <1>5, <1>6 DEF Top
  <1>9. TypeOK'
    <2>1. \A i \in 1 .. Len(stack') : stack'[i].fn \in {"object", "array"}
      BY <1>6, <1>7 DEF IsCall
    <2>. QED  BY <1>1, <1>2, <1>5, <1>6, <2>1 DEF IInv, TypeOK, NestingBounded
  <1>10. Place'
    BY <1>1, <1>3, <1>5, <1>7, <1>8 DEF Place
  <1>11. Work' > Work
    BY <1>1, <1>2 DEF Work, Rank
  <1>. QED  BY <1>1, <1>2, <1>9, <1>10, <1>11 DEF Goes, IInv

\* A container ends: one call less.
LEMMA CloseGoes ==
  ASSUME IInv, NEW v, Here < Len(json), Close(v), pc \in {"object", "array"}
  PROVE  Goes
  <1>1. /\ stack' = SubSeq(stack, 1, Len(stack) - 1) /\ pos' = Here + 1 /\ pc' = "return"
        /\ UNCHANGED <<json, lax, unset>>
    BY DEF Close, Return, history
  <1>2. pos \in Nat /\ Len(json) \in Nat /\ Here \in pos .. Len(json)
    BY Places DEF IInv
  <1>3. IsSequence(stack) /\ stack # <<>> /\ \A i \in DOMAIN stack : IsCall(stack[i])
    BY DEF IInv, Place
  <1>4. /\ IsSequence(stack') /\ Len(stack') = Len(stack) - 1
        /\ \A i \in DOMAIN stack' : i \in DOMAIN stack /\ stack'[i] = stack[i]
    BY <1>1, <1>3, Popped
  <1>5. DOMAIN stack' = 1 .. Len(stack') /\ Len(stack) \in Nat
    BY <1>3, <1>4, SequenceFacts
  <1>6. \A i \in DOMAIN stack' : IsCall(stack'[i])
    BY <1>3, <1>4
  <1>7. TypeOK'
    <2>1. \A i \in 1 .. Len(stack') : stack'[i].fn \in {"object", "array"}
      BY <1>5, <1>6 DEF IsCall
    <2>. QED  BY <1>1, <1>2, <1>4, <1>5, <2>1 DEF IInv, TypeOK, NestingBounded
  <1>8. Place'
    BY <1>1, <1>4, <1>6 DEF Place
  <1>9. Work' > Work
    BY <1>1, <1>2 DEF Work, Rank
  <1>. QED  BY <1>1, <1>2, <1>7, <1>8, <1>9 DEF Goes, IInv

\* The innermost call.
LEMMA TopIs ==
  ASSUME IInv, stack # <<>>
  PROVE  \E n \in Nat \ {0} :
           /\ n = Len(stack) /\ stack[n] = Top /\ Top.fn \in Lists
           /\ IsCall(Top) /\ DOMAIN stack = 1 .. n
  <1>1. IsSequence(stack) /\ \A i \in DOMAIN stack : IsCall(stack[i])
    BY DEF IInv, Place
  <1>2. DOMAIN stack = 1 .. Len(stack) /\ Len(stack) \in Nat \ {0}
    BY <1>1, SequenceFacts
  <1>3. IsCall(Top) /\ Top.fn \in Lists
    BY <1>1, <1>2 DEF Top, IsCall, Lists
  <1>. QED  BY <1>2, <1>3 DEF Top

\* Another record for it.
LEMMA TopChanged ==
  ASSUME IInv, stack # <<>>, NEW e, stack' = [stack EXCEPT ![Len(stack)] = e]
  PROVE  /\ IsSequence(stack') /\ DOMAIN stack' = DOMAIN stack
         /\ Len(stack') = Len(stack) /\ Top' = e /\ stack'[Len(stack)] = e
         /\ \A k \in 1 .. Len(stack) - 1 : stack'[k] = stack[k]
  <1>1. IsSequence(stack) /\ \A i \in DOMAIN stack : IsCall(stack[i])
    BY DEF IInv, Place
  <1>2. DOMAIN stack = 1 .. Len(stack) /\ Len(stack) \in Nat \ {0}
    BY <1>1, SequenceFacts
  <1> DEFINE S == {stack[i] : i \in DOMAIN stack} \cup {e}
  <1>3. /\ stack' \in [DOMAIN stack -> S] /\ stack'[Len(stack)] = e
        /\ \A i \in DOMAIN stack : i # Len(stack) => stack'[i] = stack[i]
    <2>1. stack \in [DOMAIN stack -> S] /\ e \in S
      <3>1. stack \in [DOMAIN stack -> {stack[i] : i \in DOMAIN stack}]
        BY <1>1, <1>2, LenProperties DEF IsSequence
      <3>. QED  BY <3>1
    <2> HIDE DEF S
    <2>. QED  BY <1>2, <2>1
  <1> HIDE DEF S
  <1>4. IsSequence(stack') /\ Len(stack') = Len(stack) /\ DOMAIN stack' = DOMAIN stack
    BY <1>1, <1>3, Changed
  <1>5. Top' = e
    BY <1>3, <1>4 DEF Top
  <1>. QED  BY <1>2, <1>3, <1>4, <1>5

\* A container goes on: what its call has made, or its key, is changed.
LEMMA ChangedGoes ==
  ASSUME IInv, stack # <<>>, NEW e, e \in [fn : {Top.fn}, made : {e.made}, key : {e.key}],
         stack' = [stack EXCEPT ![Len(stack)] = e],
         UNCHANGED <<json, lax, unset>>, pos' \in pos .. Len(json), Work' > Work,
         \/ pc' \in {Top.fn, "error"}
         \/ pc = "key" /\ pc' = "colon"
  PROVE  Goes
  <1>1. IsSequence(stack) /\ \A i \in DOMAIN stack : IsCall(stack[i])
    BY DEF IInv, Place
  <1>2. DOMAIN stack = 1 .. Len(stack) /\ Len(stack) \in Nat \ {0}
    BY <1>1, SequenceFacts
  <1>3. /\ IsSequence(stack') /\ DOMAIN stack' = DOMAIN stack /\ Len(stack') = Len(stack)
        /\ Top' = e /\ stack'[Len(stack)] = e
        /\ \A i \in 1 .. Len(stack) - 1 : stack'[i] = stack[i]
    BY TopChanged
  <1>5. IsCall(e) /\ e.fn = Top.fn /\ Top.fn \in {"object", "array"}
    BY <1>1, <1>2 DEF IsCall, Top
  <1>6. \A i \in DOMAIN stack' : IsCall(stack'[i])
    BY <1>1, <1>2, <1>3, <1>5
  <1>7. stack' # <<>>
    BY <1>2, <1>3, SequenceFacts
  <1>8. TypeOK'
    <2>1. \A i \in 1 .. Len(stack') : stack'[i].fn \in {"object", "array"}
      BY <1>2, <1>3, <1>6 DEF IsCall
    <2>2. pos \in Nat /\ Len(json) \in Nat
      BY Places DEF IInv
    <2>. QED  BY <1>3, <1>5, <2>1, <2>2 DEF IInv, TypeOK, NestingBounded
  <1>9. Place'
    BY <1>3, <1>5, <1>6, <1>7 DEF Place, IInv
  <1>10. pos' >= pos
    BY Places DEF IInv
  <1>. QED  BY <1>8, <1>9, <1>10 DEF Goes, IInv

\* A word.
LEMMA LiteralGoes ==
  ASSUME IInv, pc = "value", NEW text, Len(text) \in {4, 5}, NEW v, Literal(text, v)
  PROVE  Goes
  <1>1. pos \in Nat /\ Len(json) \in Nat /\ Here \in pos .. Len(json)
    BY Places DEF IInv
  <1>2. Here + Len(text) \in pos + 1 .. Len(json)
    <2>1. Here + Len(text) <= Len(json)
      BY Zenon DEF Literal, Starts
    <2>2. Len(text) \in Nat /\ Len(text) >= 1
      OBVIOUS
    <2>. QED  BY <1>1, <2>1, <2>2
  <1>3. PICK p \in pos + 1 .. Len(json) : p = Here + Len(text)
    BY <1>2, Zenon
  <1>4. Return(v, p) /\ UNCHANGED stack
    BY <1>3 DEF Literal
  <1>5. lax' \in BOOLEAN /\ unset' \in BOOLEAN
    BY DEF Literal, history, IInv, TypeOK
  <1>. QED  BY <1>4, <1>5, ReturnGoes

\* A number is read to the end of its characters.
LEMMA NumberGoes ==
  ASSUME IInv, pc = "value", ParseNumber
  PROVE  Goes
  <1>1. PICK num \in {FromChars(NumberText)} :
          /\ Return(IF num \in OutOfRange THEN [Uninitialized |-> TRUE] ELSE [Number |-> num],
                    NumberEnd)
          /\ lax' = (lax \/ num # NumberText \/ LeadingZero(num) \/ BarePoint(num))
          /\ unset' = (unset \/ num \in OutOfRange)
          /\ UNCHANGED stack
    BY Zenon DEF ParseNumber
  <1>2. NumberEnd \in pos + 1 .. Len(json)
    BY Places DEF IInv, ParseNumber
  <1>3. lax' \in BOOLEAN /\ unset' \in BOOLEAN
    BY <1>1, Zenon
  <1> DEFINE v == IF num \in OutOfRange THEN [Uninitialized |-> TRUE] ELSE [Number |-> num]
  <1>4. Return(v, NumberEnd) /\ UNCHANGED stack
    BY <1>1
  <1> HIDE DEF v
  <1>. QED  BY <1>2, <1>3, <1>4, ReturnGoes

\* All that parse_value does.
LEMMA ParseValueGoes ==
  ASSUME IInv, ParseValue
  PROVE  Goes
  <1>1. pc = "value"
    BY DEF ParseValue
  <1>2. \A c : Sees(c) => Here < Len(json)
    BY Places DEF IInv
  <1>3. ASSUME NEW kind \in {"object", "array"}, NEW c, Sees(c), Open(kind)  PROVE Goes
    BY <1>1, <1>2, <1>3, OpenGoes
  <1>4. CASE Sees("\"") /\ BeginString("string") /\ UNCHANGED history
    <2>1. lax' \in BOOLEAN /\ unset' \in BOOLEAN
      BY <1>4 DEF history, IInv, TypeOK
    <2>. QED  BY <1>1, <1>2, <1>4, <2>1, BeginStringGoes
  <1>5. Len(True) \in {4, 5} /\ Len(False) \in {4, 5} /\ Len(Null) \in {4, 5}
    BY DEF True, False, Null
  <1>6. ASSUME NEW v, Literal(True, v) \/ Literal(False, v) \/ Literal(Null, v)  PROVE Goes
    BY <1>1, <1>5, <1>6, LiteralGoes
  <1>7. CASE ParseNumber
    BY <1>1, <1>7, NumberGoes
  <1>8. CASE Unexpected
    BY <1>1, <1>8, ThrowGoes DEF Unexpected
  <1>. QED  BY <1>3, <1>4, <1>6, <1>7, <1>8 DEF ParseValue

\* One character more of a string.
LEMMA CollectGoes ==
  ASSUME IInv, pc \in {"key", "string"}, NEW c, NEW n \in {1, 2}, pos + n <= Len(json), Collect(c, n)
  PROVE  Goes
  <1>1. UNCHANGED <<json, stack, pc, lax, unset>> /\ pos' = pos + n
    BY DEF Collect, history
  <1>2. pos \in Nat /\ Len(json) \in Nat
    BY Places DEF IInv
  <1>3. pos' \in pos .. Len(json) /\ Work' > Work
    BY <1>1, <1>2 DEF Work, Rank
  <1>4. lax' \in BOOLEAN /\ unset' \in BOOLEAN
    BY <1>1 DEF IInv, TypeOK
  <1>. QED  BY <1>1, <1>3, <1>4, SameStack

\* The closing quote.
LEMMA EndStringGoes ==
  ASSUME IInv, pos < Len(json), EndString
  PROVE  Goes
  <1>1. pos \in Nat /\ Len(json) \in Nat
    BY Places DEF IInv
  <1>2. UNCHANGED <<lax, unset>> /\ lax' \in BOOLEAN /\ unset' \in BOOLEAN
    BY DEF EndString, history, IInv, TypeOK
  <1>3. CASE pc = "string" /\ Return([String |-> str], pos + 1) /\ UNCHANGED stack
    <2>1. pos + 1 \in pos + 1 .. Len(json)
      BY <1>1
    <2>2. PICK p \in pos + 1 .. Len(json) : p = pos + 1
      BY <2>1, Zenon
    <2>3. Return([String |-> str], p)
      BY <1>3, <2>2
    <2>. QED  BY <1>2, <1>3, <2>3, ReturnGoes
  <1>4. CASE /\ pc = "key" /\ stack' = [stack EXCEPT ![Len(stack)].key = str]
             /\ pos' = pos + 1 /\ pc' = "colon" /\ UNCHANGED json
    <2> DEFINE e == [Top EXCEPT !.key = str]
    <2>1. stack # <<>> /\ IsCall(Top)
      <3>1. stack # <<>>
        BY <1>4 DEF IInv, Place
      <3>. QED  BY <3>1, TopIs
    <2>2. e \in [fn : {Top.fn}, made : {e.made}, key : {e.key}]
      BY <2>1 DEF IsCall
    <2>3. stack' = [stack EXCEPT ![Len(stack)] = e]
      BY <1>4 DEF Top
    <2> HIDE DEF e
    <2>4. pos' \in pos .. Len(json) /\ Work' > Work
      <3>1. pos' = pos + 1 /\ pc = "key" /\ pc' = "colon"
        BY <1>4
      <3>. QED  BY <1>1, <3>1 DEF Work, Rank
    <2>. QED  BY <1>2, <1>4, <2>1, <2>2, <2>3, <2>4, ChangedGoes
  <1>. QED  BY <1>3, <1>4 DEF EndString

\* One round of the loop of parse_string.
LEMMA ParseStringGoes ==
  ASSUME IInv, ParseString
  PROVE  Goes
  <1>1. pc \in {"key", "string"} /\ pos \in Nat /\ Len(json) \in Nat
    BY Places DEF IInv, ParseString
  <1>2. CASE pos < Len(json) /\ EndString
    BY <1>2, EndStringGoes
  <1>3. CASE pos < Len(json) /\ Escape
    <2>1. CASE pos + 2 <= Len(json) /\ json[pos + 2] \in Escapable
      BY <1>1, <1>3, <2>1, CollectGoes DEF Escape
    <2>2. CASE ~(pos + 2 <= Len(json) /\ json[pos + 2] \in Escapable)
      BY <1>1, <1>3, <2>2, ThrowGoes DEF Escape
    <2>. QED  BY <2>1, <2>2
  <1>4. CASE pos < Len(json) /\ Collect(json[pos + 1], 1)
    BY <1>1, <1>4, CollectGoes
  <1>5. CASE Throw
    BY <1>1, <1>5, ThrowGoes
  <1>. QED  BY <1>2, <1>3, <1>4, <1>5 DEF ParseString

\* The loop test of parse_object.
LEMMA ParseObjectGoes ==
  ASSUME IInv, ParseObject
  PROVE  Goes
  <1>1. /\ pc = "object" /\ Here \in pos .. Len(json) /\ pos \in Nat /\ Len(json) \in Nat
        /\ ~AtEnd => Here < Len(json)
        /\ \A c : Sees(c) => Here < Len(json)
    BY Places DEF IInv, ParseObject
  <1>2. CASE Sees("}") /\ Close([Object |-> Top.made])
    BY <1>1, <1>2, CloseGoes
  <1>3. CASE ~AtEnd /\ BeginString("key") /\ lax' = (lax \/ ~Sees("\"")) /\ UNCHANGED unset
    <2>1. lax' \in BOOLEAN /\ unset' \in BOOLEAN
      <3>1. lax' \in BOOLEAN
        BY <1>3, Zenon
      <3>. QED  BY <1>3, <3>1 DEF IInv, TypeOK
    <2>2. Here < Len(json)
      BY <1>1, <1>3, Zenon
    <2>. QED  BY <1>1, <1>3, <2>1, <2>2, BeginStringGoes
  <1>4. CASE Throw
    BY <1>1, <1>4, ThrowGoes
  <1>. QED  BY <1>2, <1>3, <1>4 DEF ParseObject

\* The colon behind a key.
LEMMA ParseColonGoes ==
  ASSUME IInv, ParseColon
  PROVE  Goes
  <1>1. /\ pc = "colon" /\ Here \in pos .. Len(json) /\ pos \in Nat /\ Len(json) \in Nat
        /\ \A c : Sees(c) => Here < Len(json)
    BY Places DEF IInv, ParseColon
  <1>2. CASE /\ Sees(":") /\ pos' = Here + 1 /\ pc' = "value"
             /\ UNCHANGED <<json, stack, str, value, history>>
    <2>0. Here < Len(json) /\ pos' = Here + 1 /\ pc' = "value"
      BY <1>1, <1>2, Zenon
    <2>1. pos' \in pos .. Len(json) /\ Work' > Work
      BY <1>1, <2>0 DEF Work, Rank
    <2>2. lax' \in BOOLEAN /\ unset' \in BOOLEAN
      BY <1>2 DEF history, IInv, TypeOK
    <2>. QED  BY <1>2, <2>1, <2>2, SameStack
  <1>3. CASE Throw
    BY <1>1, <1>3, ThrowGoes
  <1>. QED  BY <1>2, <1>3 DEF ParseColon

\* The loop test of parse_array.
LEMMA ParseArrayGoes ==
  ASSUME IInv, ParseArray
  PROVE  Goes
  <1>1. /\ pc = "array" /\ Here \in pos .. Len(json) /\ pos \in Nat /\ Len(json) \in Nat
        /\ \A c : Sees(c) => Here < Len(json)
    BY Places DEF IInv, ParseArray
  <1>2. CASE Sees("]") /\ Close([Array |-> Top.made])
    BY <1>1, <1>2, CloseGoes
  <1>3. CASE /\ pos' = Here /\ pc' = "value"
             /\ UNCHANGED <<json, stack, str, value, history>>
    <2>1. pos' \in pos .. Len(json) /\ Work' > Work
      BY <1>1, <1>3 DEF Work, Rank
    <2>2. lax' \in BOOLEAN /\ unset' \in BOOLEAN
      BY <1>3 DEF history, IInv, TypeOK
    <2>. QED  BY <1>3, <2>1, <2>2, SameStack
  <1>4. CASE Throw
    BY <1>1, <1>4, ThrowGoes
  <1>. QED  BY <1>2, <1>3, <1>4 DEF ParseArray

\* A value is added to the container that waits for it.
LEMMA ContinueGoes ==
  ASSUME IInv, Continue
  PROVE  Goes
  <1>1. /\ pc = "return" /\ stack # <<>> /\ UNCHANGED <<json, lax, unset>>
        /\ stack' = [stack EXCEPT ![Len(stack)].made = Added]
        /\ \/ Sees(",") /\ pos' = Here + 1 /\ pc' = Top.fn
           \/ pos' = Here /\ pc' = Top.fn
           \/ pos' = Here /\ pc' = "error"
    BY DEF Continue, history
  <1>2. /\ Here \in pos .. Len(json) /\ pos \in Nat /\ Len(json) \in Nat
        /\ \A c : Sees(c) => Here < Len(json)
    BY Places DEF IInv
  <1>3. IsCall(Top)
    BY <1>1, TopIs
  <1>4. Top.fn \in {"object", "array"}
    BY <1>3 DEF IsCall
  <1>5. pos' \in pos .. Len(json) /\ Work' > Work
    <2>1. Sees(",") => Here < Len(json)
      BY <1>2, Zenon
    <2>2. \/ Here < Len(json) /\ pos' = Here + 1 /\ pc' = Top.fn
          \/ pos' = Here /\ (pc' = Top.fn \/ pc' = "error")
      BY <1>1, <2>1, Zenon
    <2>3. pc = "return"
      BY <1>1
    <2>. QED  BY <1>2, <1>4, <2>2, <2>3 DEF Work, Rank
  <1> DEFINE e == [Top EXCEPT !.made = Added]
  <1>6. e \in [fn : {Top.fn}, made : {e.made}, key : {e.key}]
    BY <1>3 DEF IsCall
  <1>7. stack' = [stack EXCEPT ![Len(stack)] = e]
    BY <1>1 DEF Top
  <1> HIDE DEF e
  <1>. QED  BY <1>1, <1>5, <1>6, <1>7, ChangedGoes

\* parse looks at what is left of the text.
LEMMA FinishGoes ==
  ASSUME IInv, Finish
  PROVE  Goes
  <1>1. /\ pc = "return" /\ stack = <<>> /\ UNCHANGED <<json, stack, lax, unset>>
        /\ pos' = Here /\ pc' = IF AtEnd THEN "done" ELSE "error"
    BY DEF Finish, history
  <1>2. /\ Here \in pos .. Len(json) /\ pos \in Nat /\ Len(json) \in Nat
        /\ AtEnd => Here = Len(json)
    BY Places DEF IInv
  <1>3. Work' > Work
    BY <1>1, <1>2 DEF Work, Rank
  <1>4. TypeOK'
    BY <1>1, <1>2 DEF IInv, TypeOK, NestingBounded
  <1>5. Place'
    BY <1>1, <1>2 DEF IInv, Place
  <1>. QED  BY <1>1, <1>2, <1>3, <1>4, <1>5 DEF Goes, IInv
-----------------------------------------------------------------------------
\* The first state.
LEMMA InitIInv == Init => IInv
  <1>. SUFFICES ASSUME Init  PROVE IInv
    OBVIOUS
  <1>1. json \in Seq(STRING) /\ Len(json) \in Nat
    BY JsonAssumption, LenProperties DEF Init
  <1>2. TypeOK
    <2>1. lax \in BOOLEAN /\ unset \in BOOLEAN
      BY Zenon DEF Init
    <2>2. Len(stack) = 0 /\ pos = 0 /\ pc = "value"
      BY EmptySeq DEF Init
    <2>. QED  BY <1>1, <2>1, <2>2 DEF TypeOK, NestingBounded
  <1>3. Place
    <2>1. IsSequence(<<>>)
      BY EmptySeq DEF IsSequence
    <2>. QED  BY <2>1 DEF Init, Place
  <1>. QED  BY <1>2, <1>3 DEF IInv

\* Every step keeps the invariant and the text, and gets on.
LEMMA NextGoes ==
  ASSUME IInv, Next
  PROVE  Goes
  BY ParseValueGoes, ParseStringGoes, ParseObjectGoes, ParseColonGoes, ParseArrayGoes,
     ContinueGoes, FinishGoes DEF Next

\* Every step.
LEMMA StepIInv == IInv /\ [Next]_vars => IInv'
  <1>. SUFFICES ASSUME IInv, [Next]_vars  PROVE IInv'
    OBVIOUS
  <1>1. CASE Next
    BY <1>1, NextGoes DEF Goes
  <1>2. CASE UNCHANGED vars
    <2>1. TypeOK'
      BY <1>2 DEF vars, history, IInv, TypeOK, NestingBounded
    <2>2. Place'
      BY <1>2 DEF vars, IInv, Place, Top
    <2>. QED  BY <2>1, <2>2 DEF IInv
  <1>. QED  BY <1>1, <1>2

\* The inductive invariant holds whatever text is parsed.
THEOREM Invariance == Spec => []IInv
  BY InitIInv, StepIInv, PTL DEF Spec

\* The parser never reads outside the text, and parse_value, parse_object and
\* parse_array are never nested deeper than the characters read so far.
THEOREM TypeCorrect == Spec => []TypeOK
  BY Invariance, PTL DEF IInv

\* Nested calls come back to the loop that waits for them: the loop that runs
\* is that of the innermost container, and parse returns with none open.
THEOREM ReturnsToCaller == Spec => []Place
  BY Invariance, PTL DEF IInv

\* No function of the parser moves the position back.
THEOREM ForwardOnly == Spec => NeverGoesBack
  <1>1. IInv /\ [Next]_vars => [pos' >= pos]_vars
    BY NextGoes DEF Goes
  <1>. QED  BY <1>1, Invariance, PTL DEF Spec, NeverGoesBack

\* parse is bounded, and so are its loops and its recursion: every step adds
\* to the work, which never exceeds a multiple of the length of the text.
THEOREM WorkBounded ==
  Spec => [][Work' > Work /\ json' = json]_vars /\ [](Work \in 0 .. 4 * Len(json) + 3)
  <1>1. IInv /\ [Next]_vars => [Work' > Work /\ json' = json]_vars
    BY NextGoes DEF Goes
  <1>2. IInv => Work \in 0 .. 4 * Len(json) + 3
    <2>. SUFFICES ASSUME IInv  PROVE Work \in 0 .. 4 * Len(json) + 3
      OBVIOUS
    <2>1. pos \in 0 .. Len(json) /\ Len(json) \in Nat
      BY Places DEF IInv, TypeOK
    <2>2. Rank \in 0 .. 3
      BY DEF Rank
    <2>. QED  BY <2>1, <2>2 DEF Work
  <1>. QED  BY <1>1, <1>2, Invariance, PTL DEF Spec
-----------------------------------------------------------------------------

(* The first and the last character that is not blank. *)

\* Unless all is blank, First and Last choose what they say, ...
LEMMA FirstExists ==
  ASSUME NEW t, NEW i \in Nat, NEW j \in Nat, ~Blank(t, i, j)
  PROVE  LET a == First(t, i, j) IN a \in i .. j /\ t[a] \notin Space /\ Blank(t, i, a - 1)
  <1> DEFINE S == {k \in i .. j : t[k] \notin Space}
  <1>1. S # {} /\ S \subseteq Nat
    BY DEF Blank
  <1>2. PICK m \in S : \A k \in S : m <= k
    <2>. HIDE DEF S
    <2>. QED  BY <1>1, Least
  <1>3. m \in i .. j /\ t[m] \notin Space /\ Blank(t, i, m - 1)
    BY <1>2 DEF Blank
  <1>. QED  BY <1>3, Zenon DEF First

LEMMA LastExists ==
  ASSUME NEW t, NEW i \in Nat, NEW j \in Nat, ~Blank(t, i, j)
  PROVE  LET b == Last(t, i, j) IN b \in i .. j /\ t[b] \notin Space /\ Blank(t, b + 1, j)
  <1> DEFINE S == {n \in Nat : n <= j - i /\ t[j - n] \notin Space}
  <1>1. S # {} /\ S \subseteq Nat
    <2>1. PICK k \in i .. j : t[k] \notin Space
      BY DEF Blank
    <2>2. j - k \in Nat /\ j - k <= j - i /\ j - (j - k) = k
      OBVIOUS
    <2>3. j - k \in S
      BY <2>1, <2>2
    <2>. QED  BY <2>3
  <1>2. PICK n \in S : \A k \in S : n <= k
    <2>. HIDE DEF S
    <2>. QED  BY <1>1, Least
  <1>3. PICK m \in i .. j : m = j - n
    BY <1>2
  <1>4. t[m] \notin Space
    BY <1>2, <1>3
  <1>5. ASSUME NEW k \in m + 1 .. j  PROVE t[k] \in Space
    <2>1. PICK h \in Nat : h = j - k
      OBVIOUS
    <2>2. h <= j - i /\ j - h = k /\ h < n
      BY <1>2, <1>3, <2>1
    <2>3. h \notin S
      BY <1>2, <2>2
    <2>. QED  BY <2>2, <2>3
  <1>6. m \in i .. j /\ t[m] \notin Space /\ Blank(t, m + 1, j)
    BY <1>4, <1>5 DEF Blank
  <1>. QED  BY <1>6, Zenon DEF Last

\* ... and there is only one such place.
LEMMA FirstIs ==
  ASSUME NEW t, NEW i \in Nat, NEW j \in Nat, NEW a \in i .. j, t[a] \notin Space, Blank(t, i, a - 1)
  PROVE  ~Blank(t, i, j) /\ First(t, i, j) = a
  <1>1. ~Blank(t, i, j)
    BY DEF Blank
  <1>2. ASSUME NEW k \in i .. j, t[k] \notin Space, Blank(t, i, k - 1)  PROVE k = a
    <2>1. ~(k < a) /\ ~(a < k)
      BY <1>2 DEF Blank
    <2>. QED  BY <2>1
  <1>. QED  BY <1>1, <1>2, FirstExists

LEMMA LastIs ==
  ASSUME NEW t, NEW i \in Nat, NEW j \in Nat, NEW b \in i .. j, t[b] \notin Space, Blank(t, b + 1, j)
  PROVE  ~Blank(t, i, j) /\ Last(t, i, j) = b
  <1>1. ~Blank(t, i, j)
    BY DEF Blank
  <1>2. ASSUME NEW k \in i .. j, t[k] \notin Space, Blank(t, k + 1, j)  PROVE k = b
    <2>1. ~(k < b) /\ ~(b < k)
      BY <1>2 DEF Blank
    <2>. QED  BY <2>1
  <1>. QED  BY <1>1, <1>2, LastExists
-----------------------------------------------------------------------------
(* The meaning of a part of a text is made from those of smaller parts. *)

Size(t, x) == 2 * (Len(t) + 1 + x[3] - x[2]) + (IF x[1] = "value" THEN 0 ELSE 1)

Agree(t, M, N, n) == \A x \in Spans(t) : Size(t, x) < n => M[x] = N[x]

\* Meanings that agree on all that is smaller than n agree on this.
LEMMA AgreeAt ==
  ASSUME NEW t, Len(t) \in Nat, NEW M, NEW N, NEW n, Agree(t, M, N, n),
         NEW kind \in {"value"} \cup Lists, NEW i \in 1 .. Len(t) + 1, NEW j \in 0 .. Len(t),
         2 * (Len(t) + 1 + j - i) + (IF kind = "value" THEN 0 ELSE 1) < n
  PROVE  M[<<kind, i, j>>] = N[<<kind, i, j>>]
  <1>1. <<kind, i, j>> \in Spans(t)
    BY DEF Spans
  <1>2. Size(t, <<kind, i, j>>) = 2 * (Len(t) + 1 + j - i) + (IF kind = "value" THEN 0 ELSE 1)
    BY DEF Size
  <1>. QED  BY <1>1, <1>2 DEF Agree

IsItems(t, M, list, key, i, j, w) ==
  \/ \E v \in M[<<"value", i, j>>] : w = Joined(list, key, v, <<>>)
  \/ \E k \in i .. j :
       /\ t[k] = ","
       /\ \E v \in M[<<"value", i, k - 1>>], rest \in M[<<list, k + 1, j>>] :
            w = Joined(list, key, v, rest)

\* The elements of Items, without the unions.
LEMMA InItems ==
  ASSUME NEW t, NEW M, NEW list, NEW key, NEW i, NEW j, NEW w
  PROVE  w \in Items(t, M, list, key, i, j) <=> IsItems(t, M, list, key, i, j, w)
  <1> DEFINE A == {Joined(list, key, v, <<>>) : v \in M[<<"value", i, j>>]}
             B(k) == UNION {{Joined(list, key, v, rest) : rest \in M[<<list, k + 1, j>>]} :
                            v \in M[<<"value", i, k - 1>>]}
             S == {k \in i .. j : t[k] = ","}
  <1>1. w \in Items(t, M, list, key, i, j) <=> w \in A \/ w \in UNION {B(k) : k \in S}
    BY Zenon DEF Items
  <1>2. w \in A <=> \E v \in M[<<"value", i, j>>] : w = Joined(list, key, v, <<>>)
    BY Zenon
  <1>3. w \in UNION {B(k) : k \in S} <=> \E k \in i .. j : t[k] = "," /\ w \in B(k)
    <2>. HIDE DEF B
    <2>. QED  OBVIOUS
  <1>4. ASSUME NEW k
        PROVE  w \in B(k) <=> \E v \in M[<<"value", i, k - 1>>], rest \in M[<<list, k + 1, j>>] :
                                 w = Joined(list, key, v, rest)
    OBVIOUS
  <1>. HIDE DEF A, B, S
  <1>. QED  BY <1>1, <1>2, <1>3, <1>4, Zenon DEF IsItems

\* Items looks at smaller parts only.
LEMMA ItemsLocal ==
  ASSUME NEW t, Len(t) \in Nat, NEW M, NEW N, NEW n \in Nat, Agree(t, M, N, n),
         NEW list \in Lists, NEW key, NEW i \in 1 .. Len(t) + 1, NEW j \in 0 .. Len(t),
         2 * (Len(t) + 1 + j - i) < n
  PROVE  Items(t, M, list, key, i, j) = Items(t, N, list, key, i, j)
  <1>0. list # "value" /\ list \in {"value"} \cup Lists /\ "value" \in {"value"} \cup Lists
    BY DEF Lists
  <1>1. M[<<"value", i, j>>] = N[<<"value", i, j>>]
    BY <1>0, AgreeAt
  <1>2. ASSUME NEW k \in i .. j
        PROVE  /\ M[<<"value", i, k - 1>>] = N[<<"value", i, k - 1>>]
               /\ M[<<list, k + 1, j>>] = N[<<list, k + 1, j>>]
    <2>1. PICK p \in 0 .. Len(t) : p = k - 1
      OBVIOUS
    <2>2. PICK q \in 1 .. Len(t) + 1 : q = k + 1
      OBVIOUS
    <2>3. 2 * (Len(t) + 1 + p - i) < n /\ 2 * (Len(t) + 1 + j - q) + 1 < n
      BY <2>1, <2>2
    <2>4. M[<<"value", i, p>>] = N[<<"value", i, p>>]
      BY <1>0, <2>3, AgreeAt
    <2>5. M[<<list, q, j>>] = N[<<list, q, j>>]
      BY <1>0, <2>3, AgreeAt
    <2>. QED  BY <2>1, <2>2, <2>4, <2>5
  <1>3. ASSUME NEW w  PROVE w \in Items(t, M, list, key, i, j) <=> w \in Items(t, N, list, key, i, j)
    <2>1. IsItems(t, M, list, key, i, j, w) <=> IsItems(t, N, list, key, i, j, w)
      BY <1>1, <1>2, Zenon DEF IsItems
    <2>. QED  BY <2>1, InItems
  <1>. QED  BY <1>3

IsMembers(t, M, i, j, w) ==
  \E c \in i .. j :
    /\ t[c] = ":" /\ ~Blank(t, i, c - 1)
    /\ \E key \in Quoted(t, First(t, i, c - 1), Last(t, i, c - 1)) :
         w \in Items(t, M, "object", key, c + 1, j)

\* The elements of Members, without the unions.
LEMMA InMembers ==
  ASSUME NEW t, NEW M, NEW i, NEW j, NEW w
  PROVE  w \in Members(t, M, i, j) <=> IsMembers(t, M, i, j, w)
  <1> DEFINE B(c) == UNION {Items(t, M, "object", key, c + 1, j) :
                            key \in Quoted(t, First(t, i, c - 1), Last(t, i, c - 1))}
             S == {c \in i .. j : t[c] = ":" /\ ~Blank(t, i, c - 1)}
  <1>1. w \in Members(t, M, i, j) <=> w \in UNION {B(c) : c \in S}
    BY Zenon DEF Members
  <1>2. w \in UNION {B(c) : c \in S} <=>
          \E c \in i .. j : t[c] = ":" /\ ~Blank(t, i, c - 1) /\ w \in B(c)
    <2>. HIDE DEF B
    <2>. QED  OBVIOUS
  <1>3. ASSUME NEW c
        PROVE  w \in B(c) <=> \E key \in Quoted(t, First(t, i, c - 1), Last(t, i, c - 1)) :
                                w \in Items(t, M, "object", key, c + 1, j)
    OBVIOUS
  <1>. HIDE DEF B, S
  <1>. QED  BY <1>1, <1>2, <1>3, Zenon DEF IsMembers

\* Members looks at smaller parts only.
LEMMA MembersLocal ==
  ASSUME NEW t, Len(t) \in Nat, NEW M, NEW N, NEW n \in Nat, Agree(t, M, N, n),
         NEW i \in 1 .. Len(t) + 1, NEW j \in 0 .. Len(t),
         2 * (Len(t) + 1 + j - i) < n
  PROVE  Members(t, M, i, j) = Members(t, N, i, j)
  <1>1. ASSUME NEW c \in i .. j, NEW key
        PROVE  Items(t, M, "object", key, c + 1, j) = Items(t, N, "object", key, c + 1, j)
    <2>1. PICK k \in 1 .. Len(t) + 1 : k = c + 1
      OBVIOUS
    <2>2. 2 * (Len(t) + 1 + j - k) < n /\ "object" \in Lists
      BY <2>1 DEF Lists
    <2>3. Items(t, M, "object", key, k, j) = Items(t, N, "object", key, k, j)
      BY <2>2, ItemsLocal
    <2>. QED  BY <2>1, <2>3
  <1>2. ASSUME NEW w  PROVE w \in Members(t, M, i, j) <=> w \in Members(t, N, i, j)
    <2>1. IsMembers(t, M, i, j, w) <=> IsMembers(t, N, i, j, w)
      BY <1>1, Zenon DEF IsMembers
    <2>. QED  BY <2>1, InMembers
  <1>. QED  BY <1>2

IsValues(t, M, a, b, w) ==
  \/ w \in Scalars(SubSeq(t, a, b))
  \/ \E q \in Quoted(t, a, b) : w = [String |-> q]
  \/ \E list \in Lists :
       /\ a < b /\ t[a] = Left[list] /\ t[b] = Right[list]
       /\ \E made \in M[<<list, a + 1, b - 1>>] : w = Container(list, made)

\* The elements of Values, without the unions.
LEMMA InValues ==
  ASSUME NEW t, NEW M, NEW a, NEW b, NEW w
  PROVE  w \in Values(t, M, a, b) <=> IsValues(t, M, a, b, w)
  <1> DEFINE Q == {[String |-> q] : q \in Quoted(t, a, b)}
             B(list) == {Container(list, made) : made \in M[<<list, a + 1, b - 1>>]}
             S == {l \in Lists : a < b /\ t[a] = Left[l] /\ t[b] = Right[l]}
  <1>1. w \in Values(t, M, a, b) <=>
          w \in Scalars(SubSeq(t, a, b)) \/ w \in Q \/ w \in UNION {B(list) : list \in S}
    BY Zenon DEF Values
  <1>2. w \in UNION {B(list) : list \in S} <=>
          \E list \in Lists : a < b /\ t[a] = Left[list] /\ t[b] = Right[list] /\ w \in B(list)
    <2>. HIDE DEF B
    <2>. QED  OBVIOUS
  <1>3. ASSUME NEW list
        PROVE  w \in B(list) <=> \E made \in M[<<list, a + 1, b - 1>>] : w = Container(list, made)
    OBVIOUS
  <1>4. w \in Q <=> \E q \in Quoted(t, a, b) : w = [String |-> q]
    OBVIOUS
  <1>. HIDE DEF B, S, Q
  <1>. QED  BY <1>1, <1>2, <1>3, <1>4, Zenon DEF IsValues

\* Values looks at smaller parts only.
LEMMA ValuesLocal ==
  ASSUME NEW t, Len(t) \in Nat, NEW M, NEW N, NEW n \in Nat, Agree(t, M, N, n),
         NEW a \in 1 .. Len(t) + 1, NEW b \in 0 .. Len(t),
         2 * (Len(t) + 1 + b - a) <= n
  PROVE  Values(t, M, a, b) = Values(t, N, a, b)
  <1>1. ASSUME NEW list \in Lists, a < b
        PROVE  M[<<list, a + 1, b - 1>>] = N[<<list, a + 1, b - 1>>]
    <2>1. PICK p \in 1 .. Len(t) + 1 : p = a + 1
      BY <1>1
    <2>2. PICK q \in 0 .. Len(t) : q = b - 1
      BY <1>1
    <2>3. 2 * (Len(t) + 1 + q - p) + 1 < n /\ list # "value" /\ list \in {"value"} \cup Lists
      BY <2>1, <2>2 DEF Lists
    <2>4. M[<<list, p, q>>] = N[<<list, p, q>>]
      BY <2>3, AgreeAt
    <2>. QED  BY <2>1, <2>2, <2>4
  <1>2. ASSUME NEW w  PROVE w \in Values(t, M, a, b) <=> w \in Values(t, N, a, b)
    <2>1. IsValues(t, M, a, b, w) <=> IsValues(t, N, a, b, w)
      BY <1>1, Zenon DEF IsValues
    <2>. QED  BY <2>1, InValues
  <1>. QED  BY <1>2

\* So what is read of a part depends on smaller parts only.
LEMMA ReadLocal ==
  ASSUME NEW t, Len(t) \in Nat, NEW M, NEW N, NEW x \in Spans(t), Agree(t, M, N, Size(t, x))
  PROVE  Read(t, M, x[1], x[2], x[3]) = Read(t, N, x[1], x[2], x[3])
  <1>1. PICK kind \in {"value"} \cup Lists, i \in 1 .. Len(t) + 1, j \in 0 .. Len(t) :
          x[1] = kind /\ x[2] = i /\ x[3] = j
    BY DEF Spans
  <1>2. PICK n : n = Size(t, x)
    OBVIOUS
  <1>3. n = 2 * (Len(t) + 1 + j - i) + (IF kind = "value" THEN 0 ELSE 1) /\ n \in Nat
    BY <1>1, <1>2 DEF Size
  <1>4. Agree(t, M, N, n)
    BY <1>2
  <1>. SUFFICES ASSUME ~Blank(t, i, j)
                PROVE  Read(t, M, kind, i, j) = Read(t, N, kind, i, j)
    BY <1>1 DEF Read
  <1>5. CASE kind = "value"
    <2>1. PICK a \in i .. j : a = First(t, i, j)
      BY FirstExists
    <2>2. PICK b \in i .. j : b = Last(t, i, j)
      BY LastExists
    <2>3. a \in 1 .. Len(t) + 1 /\ b \in 0 .. Len(t) /\ 2 * (Len(t) + 1 + b - a) <= n
      BY <1>3, <1>5
    <2>4. Values(t, M, a, b) = Values(t, N, a, b)
      BY <1>3, <1>4, <2>3, ValuesLocal
    <2>. QED  BY <1>5, <2>1, <2>2, <2>4 DEF Read
  <1>6. CASE kind = "array"
    <2>1. 2 * (Len(t) + 1 + j - i) < n /\ kind \in Lists
      BY <1>3, <1>6 DEF Lists
    <2>2. Items(t, M, kind, <<>>, i, j) = Items(t, N, kind, <<>>, i, j)
      BY <1>3, <1>4, <2>1, ItemsLocal
    <2>. QED  BY <1>6, <2>2 DEF Read
  <1>7. CASE kind = "object"
    <2>1. 2 * (Len(t) + 1 + j - i) < n
      BY <1>3, <1>7
    <2>2. Members(t, M, i, j) = Members(t, N, i, j)
      BY <1>3, <1>4, <2>1, MembersLocal
    <2>. QED  BY <1>7, <2>2 DEF Read
  <1>. QED  BY <1>5, <1>6, <1>7 DEF Lists

\* There is such a function, so Means is one.
LEMMA MeansDef ==
  ASSUME NEW t, Len(t) \in Nat
  PROVE  Means(t) = [x \in Spans(t) |-> Read(t, Means(t), x[1], x[2], x[3])]
  <1> DEFINE Eq(g, x) == g[x] = Read(t, g, x[1], x[2], x[3])
             Upto(g, n) == /\ g = [x \in Spans(t) |-> g[x]]
                           /\ \A x \in Spans(t) : Size(t, x) < n => Eq(g, x)
             T == {n \in Nat : \E g : Upto(g, n)}
  <1>1. \A x \in Spans(t) : Size(t, x) \in 0 .. 4 * Len(t) + 3
    BY DEF Spans, Size
  <1>2. 0 \in T
    <2>1. Upto([x \in Spans(t) |-> 0], 0)
      BY <1>1
    <2>. HIDE DEF Upto
    <2>. QED  BY <2>1
  <1>3. ASSUME NEW n \in Nat, n \in T  PROVE n + 1 \in T
    <2>1. PICK g : Upto(g, n)
      BY <1>3
    <2> DEFINE h == [x \in Spans(t) |-> Read(t, g, x[1], x[2], x[3])]
    <2>2. \A x \in Spans(t) : Size(t, x) < n => g[x] = h[x]
      BY <2>1
    <2>3. ASSUME NEW x \in Spans(t), Size(t, x) < n + 1  PROVE Eq(h, x)
      <3>1. Agree(t, g, h, Size(t, x))
        <4>. HIDE DEF h
        <4>. QED  BY <1>1, <2>2, <2>3 DEF Agree
      <3>2. Read(t, g, x[1], x[2], x[3]) = Read(t, h, x[1], x[2], x[3])
        <4>. HIDE DEF h
        <4>. QED  BY <3>1, ReadLocal
      <3>. QED  BY <3>2
    <2>4. h = [x \in Spans(t) |-> h[x]]
      OBVIOUS
    <2>5. Upto(h, n + 1)
      <3>. HIDE DEF Eq, h
      <3>. QED  BY <2>3, <2>4
    <2>. HIDE DEF Upto, h
    <2>. QED  BY <2>5
  <1>4. PICK n \in Nat : n = 4 * Len(t) + 4
    OBVIOUS
  <1>5. n \in T
    <2>. HIDE DEF T
    <2>. QED  BY <1>2, <1>3, SetInduction
  <1>6. PICK g : Upto(g, n)
    BY <1>5
  <1>7. \A x \in Spans(t) : Eq(g, x)
    <2>1. \A x \in Spans(t) : Size(t, x) < n
      BY <1>1, <1>4
    <2>. HIDE DEF Eq
    <2>. QED  BY <1>6, <2>1
  <1>8. g = [x \in Spans(t) |-> Read(t, g, x[1], x[2], x[3])]
    BY <1>6, <1>7
  <1>. QED  BY <1>8 DEF Means

\* The meaning of one part.
LEMMA MeansAt ==
  ASSUME NEW t, Len(t) \in Nat, NEW kind \in {"value"} \cup Lists,
         NEW i \in 1 .. Len(t) + 1, NEW j \in 0 .. Len(t)
  PROVE  Means(t)[<<kind, i, j>>] = Read(t, Means(t), kind, i, j)
  <1>1. PICK M : M = Means(t)
    OBVIOUS
  <1>2. M = [x \in Spans(t) |-> Read(t, M, x[1], x[2], x[3])]
    BY <1>1, MeansDef
  <1>3. <<kind, i, j>> \in Spans(t)
    BY DEF Spans
  <1>4. M[<<kind, i, j>>] = Read(t, M, kind, i, j)
    BY <1>2, <1>3
  <1>. QED  BY <1>1, <1>4
-----------------------------------------------------------------------------
(* The equations of Means, by the kind of what is read. *)

\* No value is blank, and a blank list is empty.
LEMMA ValueBlank ==
  ASSUME NEW t, Len(t) \in Nat, NEW i \in 1 .. Len(t) + 1, NEW j \in 0 .. Len(t), Blank(t, i, j)
  PROVE  Means(t)[<<"value", i, j>>] = {}
  BY MeansAt DEF Read

LEMMA ListBlank ==
  ASSUME NEW t, Len(t) \in Nat, NEW list \in Lists, NEW i \in 1 .. Len(t) + 1, NEW j \in 0 .. Len(t),
         Blank(t, i, j)
  PROVE  Means(t)[<<list, i, j>>] = {<<>>}
  <1>1. list # "value" /\ list \in {"value"} \cup Lists
    BY DEF Lists
  <1>. QED  BY <1>1, MeansAt DEF Read

\* A value, when t[a] is the first and t[b] the last of its characters.
LEMMA ValueAt ==
  ASSUME NEW t, Len(t) \in Nat, NEW i \in 1 .. Len(t) + 1, NEW j \in 0 .. Len(t),
         NEW a \in i .. j, t[a] \notin Space, Blank(t, i, a - 1),
         NEW b \in i .. j, t[b] \notin Space, Blank(t, b + 1, j), NEW w
  PROVE  w \in Means(t)[<<"value", i, j>>] <=> IsValues(t, Means(t), a, b, w)
  <1>1. ~Blank(t, i, j) /\ First(t, i, j) = a /\ Last(t, i, j) = b
    BY FirstIs, LastIs
  <1>2. Means(t)[<<"value", i, j>>] = Read(t, Means(t), "value", i, j)
    BY MeansAt
  <1>3. Read(t, Means(t), "value", i, j) = Values(t, Means(t), a, b)
    BY <1>1 DEF Read
  <1>. QED  BY <1>2, <1>3, InValues

\* A list that is not blank.
LEMMA ArrayAt ==
  ASSUME NEW t, Len(t) \in Nat, NEW i \in 1 .. Len(t) + 1, NEW j \in 0 .. Len(t), ~Blank(t, i, j)
  PROVE  Means(t)[<<"array", i, j>>] = Items(t, Means(t), "array", <<>>, i, j)
  BY MeansAt DEF Read, Lists

LEMMA ObjectAt ==
  ASSUME NEW t, Len(t) \in Nat, NEW i \in 1 .. Len(t) + 1, NEW j \in 0 .. Len(t), ~Blank(t, i, j)
  PROVE  Means(t)[<<"object", i, j>>] = Members(t, Means(t), i, j)
  BY MeansAt DEF Read, Lists
-----------------------------------------------------------------------------
\* Sequences of any values have a set of elements in common.
LEMMA Common ==
  ASSUME NEW r, IsSequence(r), NEW s, IsSequence(s), NEW v
  PROVE  \E S : r \in Seq(S) /\ s \in Seq(S) /\ v \in S
  <1> DEFINE R == {r[i] : i \in DOMAIN r}
             T == {s[i] : i \in DOMAIN s}
             S == R \cup T \cup {v}
  <1>1. r \in Seq(R) /\ s \in Seq(T)
    BY DEF IsSequence
  <1>2. R \subseteq S /\ T \subseteq S /\ v \in S
    OBVIOUS
  <1>. HIDE DEF R, T, S
  <1>. QED  BY <1>1, <1>2, SeqMonotonic

\* What a list has so far.
Made(list, made) ==
  IF list = "array" THEN IsSequence(made) ELSE made = [k \in DOMAIN made |-> made[k]]

\* With what is to come.
Merged(list, made, rest) ==
  IF list = "array" THEN made \o rest
  ELSE [k \in DOMAIN made \cup DOMAIN rest |-> IF k \in DOMAIN made THEN made[k] ELSE rest[k]]

AddedTo(list, key, made, v) ==
  IF list = "array" THEN Append(made, v)
  ELSE [k \in DOMAIN made \cup {key} |-> IF k \in DOMAIN made THEN made[k] ELSE v]

\* A call begins with a list of its kind, and adding keeps it one.
LEMMA MadeEmpty == ASSUME NEW list PROVE Made(list, <<>>)
  <1>1. IsSequence(<<>>)
    BY EmptySeq DEF IsSequence
  <1>2. <<>> = [k \in DOMAIN <<>> |-> <<>>[k]]
    OBVIOUS
  <1>. QED  BY <1>1, <1>2 DEF Made

LEMMA MadeJoined ==
  ASSUME NEW list \in Lists, NEW key, NEW v, NEW rest, Made(list, rest)
  PROVE  Made(list, Joined(list, key, v, rest))
  <1>1. CASE list = "array"
    <2>1. IsSequence(rest)
      BY <1>1 DEF Made
    <2>2. PICK S : rest \in Seq(S) /\ v \in S
      BY <2>1, Common
    <2>3. <<v>> \o rest \in Seq(S)
      BY <2>2, ConcatProperties
    <2>. QED  BY <1>1, <2>3, SequenceIntro DEF Made, Joined
  <1>2. CASE list # "array"
    BY <1>2 DEF Made, Joined
  <1>. QED  BY <1>1, <1>2

LEMMA MadeAdded ==
  ASSUME NEW list \in Lists, NEW key, NEW v, NEW made, Made(list, made)
  PROVE  Made(list, AddedTo(list, key, made, v))
  <1>1. CASE list = "array"
    <2>1. IsSequence(made)
      BY <1>1 DEF Made
    <2>2. PICK S : made \in Seq(S) /\ v \in S
      BY <2>1, Common
    <2>3. Append(made, v) \in Seq(S)
      BY <2>2, AppendProperties
    <2>. QED  BY <1>1, <2>3, SequenceIntro DEF Made, AddedTo
  <1>2. CASE list # "array"
    BY <1>2 DEF Made, AddedTo
  <1>. QED  BY <1>1, <1>2

\* What is made and what is to come, when one of them is empty, ...
LEMMA MergedEmpty ==
  ASSUME NEW list \in Lists, NEW made, Made(list, made)
  PROVE  Merged(list, made, <<>>) = made
  <1>1. CASE list = "array"
    BY <1>1, ConcatEmptySeq DEF Made, Merged, IsSequence
  <1>2. CASE list # "array"
    BY <1>2 DEF Made, Merged
  <1>. QED  BY <1>1, <1>2

LEMMA MergedFirst ==
  ASSUME NEW list \in Lists, NEW rest, Made(list, rest)
  PROVE  Merged(list, <<>>, rest) = rest
  <1>1. CASE list = "array"
    BY <1>1, ConcatEmptySeq DEF Made, Merged, IsSequence
  <1>2. CASE list # "array"
    <2>1. DOMAIN <<>> = {}
      OBVIOUS
    <2>. QED  BY <1>2, <2>1 DEF Made, Merged
  <1>. QED  BY <1>1, <1>2

\* ... and when the next of what is to come is added to what is made.
LEMMA MergedAdded ==
  ASSUME NEW list \in Lists, NEW key, NEW v, NEW made, Made(list, made), NEW rest, Made(list, rest)
  PROVE  Merged(list, made, Joined(list, key, v, rest))
           = Merged(list, AddedTo(list, key, made, v), rest)
  <1>1. CASE list = "array"
    <2>1. IsSequence(made) /\ IsSequence(rest)
      BY <1>1 DEF Made
    <2>2. PICK S : made \in Seq(S) /\ rest \in Seq(S) /\ v \in S
      BY <2>1, Common
    <2>3. <<v>> \in Seq(S) /\ Append(made, v) = made \o <<v>>
      BY <2>2, AppendIsConcat
    <2>4. made \o (<<v>> \o rest) = (made \o <<v>>) \o rest
      BY <2>2, <2>3, ConcatAssociative
    <2>. QED  BY <1>1, <2>3, <2>4 DEF Merged, Joined, AddedTo
  <1>2. CASE list # "array"
    <2> DEFINE j == Joined(list, key, v, rest)
               a == AddedTo(list, key, made, v)
    <2>1. /\ DOMAIN j = {key} \cup DOMAIN rest
          /\ \A k \in DOMAIN j : j[k] = IF k = key THEN v ELSE rest[k]
      BY <1>2 DEF Joined
    <2>2. /\ DOMAIN a = DOMAIN made \cup {key}
          /\ \A k \in DOMAIN a : a[k] = IF k \in DOMAIN made THEN made[k] ELSE v
      BY <1>2 DEF AddedTo
    <2>. HIDE DEF j, a
    <2>3. DOMAIN made \cup DOMAIN j = DOMAIN a \cup DOMAIN rest
      BY <2>1, <2>2
    <2>4. \A k \in DOMAIN made \cup DOMAIN j :
            (IF k \in DOMAIN made THEN made[k] ELSE j[k]) = (IF k \in DOMAIN a THEN a[k] ELSE rest[k])
      BY <2>1, <2>2
    <2>5. Merged(list, made, j) = Merged(list, a, rest)
      BY <1>2, <2>3, <2>4 DEF Merged
    <2>. QED  BY <2>5 DEF j, a
  <1>. QED  BY <1>1, <1>2

\* The grammar makes lists of this kind.
LEMMA ListsMade ==
  ASSUME NEW t, Len(t) \in Nat, NEW list \in Lists, NEW i \in 1 .. Len(t) + 1, NEW j \in 0 .. Len(t),
         NEW rest \in Means(t)[<<list, i, j>>]
  PROVE  Made(list, rest)
  <1> DEFINE P(n) == \A f \in Lists, k \in 1 .. Len(t) + 1, l \in 0 .. Len(t) :
                       l - k < n => \A r \in Means(t)[<<f, k, l>>] : Made(f, r)
             T == {n \in Nat : P(n)}
  <1>1. ASSUME NEW n \in Nat, NEW f \in Lists, NEW k \in 1 .. Len(t) + 1, NEW l \in 0 .. Len(t),
               \A m \in k .. l : \A r \in Means(t)[<<f, m + 1, l>>] : Made(f, r),
               NEW key, NEW r \in Items(t, Means(t), f, key, k, l)
        PROVE  Made(f, r)
    <2>1. IsItems(t, Means(t), f, key, k, l, r)
      BY InItems
    <2>2. \/ \E v : r = Joined(f, key, v, <<>>)
          \/ \E v : \E m \in k .. l : \E q \in Means(t)[<<f, m + 1, l>>] : r = Joined(f, key, v, q)
      BY <2>1, Zenon DEF IsItems
    <2>. QED  BY <1>1, <2>2, MadeEmpty, MadeJoined, Zenon
  <1>2. ASSUME NEW n \in Nat, NEW f \in Lists, NEW k \in 1 .. Len(t) + 1, NEW l \in 0 .. Len(t),
               \A m \in k .. l : \A r \in Means(t)[<<f, m + 1, l>>] : Made(f, r),
               NEW r \in Means(t)[<<f, k, l>>]
        PROVE  Made(f, r)
    <2>1. CASE Blank(t, k, l)
      <3>1. Means(t)[<<f, k, l>>] = {<<>>}
        BY <2>1, ListBlank
      <3>. QED  BY <1>2, <3>1, MadeEmpty
    <2>2. CASE ~Blank(t, k, l) /\ f = "array"
      BY <1>1, <1>2, <2>2, ArrayAt
    <2>3. CASE ~Blank(t, k, l) /\ f = "object"
      <3>1. IsMembers(t, Means(t), k, l, r)
        BY <1>2, <2>3, ObjectAt, InMembers
      <3>2. PICK c, key : c \in k .. l /\ r \in Items(t, Means(t), "object", key, c + 1, l)
        BY <3>1, Zenon DEF IsMembers
      <3>3. IsItems(t, Means(t), "object", key, c + 1, l, r)
        BY <3>2, InItems
      <3>4. \E v, q : r = Joined("object", key, v, q)
        BY <3>3, Zenon DEF IsItems
      <3>. QED  BY <2>3, <3>4 DEF Made, Joined
    <2>. QED  BY <2>1, <2>2, <2>3 DEF Lists
  <1>3. 0 \in T
    <2>1. ASSUME NEW f \in Lists, NEW k \in 1 .. Len(t) + 1, NEW l \in 0 .. Len(t), l - k < 0
          PROVE  \A r \in Means(t)[<<f, k, l>>] : Made(f, r)
      <3>1. k .. l = {}
        BY <2>1
      <3>. QED  BY <1>2, <3>1
    <2>. QED  BY <2>1
  <1>4. ASSUME NEW n \in Nat, n \in T  PROVE n + 1 \in T
    <2>1. ASSUME NEW f \in Lists, NEW k \in 1 .. Len(t) + 1, NEW l \in 0 .. Len(t), l - k < n + 1
          PROVE  \A r \in Means(t)[<<f, k, l>>] : Made(f, r)
      <3>1. ASSUME NEW m \in k .. l, NEW r \in Means(t)[<<f, m + 1, l>>]  PROVE Made(f, r)
        <4>1. PICK p \in 1 .. Len(t) + 1 : p = m + 1
          OBVIOUS
        <4>2. l - p < n
          BY <2>1, <4>1
        <4>. QED  BY <1>4, <3>1, <4>1, <4>2
      <3>. QED  BY <1>2, <3>1
    <2>. QED  BY <2>1
  <1>5. PICK n \in Nat : n = Len(t) + 1
    OBVIOUS
  <1>6. n \in T
    <2>. HIDE DEF T
    <2>. QED  BY <1>3, <1>4, SetInduction
  <1>. QED  BY <1>5, <1>6
-----------------------------------------------------------------------------
(* The strings that the grammar spells. *)

\* The equation of Spelt.
Spells(t, b, From, i) ==
  IF i >= b THEN {<<>> : k \in {i} \cap {b}}
  ELSE IF t[i] = "\"" THEN {}
  ELSE IF t[i] # "\\" THEN {<<t[i]>> \o rest : rest \in From[i + 1]}
  ELSE IF t[i + 1] \in Escapable
         THEN {<<Unescaped(t[i + 1])>> \o rest : rest \in From[i + 2]}
         ELSE {}

\* There is such a function, so Spelt is one.
LEMMA SpeltDef ==
  ASSUME NEW t, NEW b \in Nat
  PROVE  Spelt(t, b) = [i \in 1 .. b + 1 |-> Spells(t, b, Spelt(t, b), i)]
  <1> DEFINE D == 1 .. b + 1
             Eq(g, i) == g[i] = Spells(t, b, g, i)
             Upto(g, n) == /\ g = [i \in D |-> g[i]]
                           /\ \A i \in D : b + 1 - i < n => Eq(g, i)
             T == {n \in Nat : \E g : Upto(g, n)}
  <1>1. 0 \in T
    <2>1. Upto([i \in D |-> 0], 0)
      OBVIOUS
    <2>. HIDE DEF Upto
    <2>. QED  BY <2>1
  <1>2. ASSUME NEW n \in Nat, n \in T  PROVE n + 1 \in T
    <2>1. PICK g : Upto(g, n)
      BY <1>2
    <2> DEFINE h == [i \in D |-> Spells(t, b, g, i)]
    <2>2. \A i \in D : b + 1 - i < n => g[i] = h[i]
      BY <2>1
    <2>3. ASSUME NEW i \in D, b + 1 - i < n + 1  PROVE Eq(h, i)
      <3>1. i < b => g[i + 1] = h[i + 1] /\ g[i + 2] = h[i + 2]
        <4>1. i < b => i + 1 \in D /\ i + 2 \in D /\ b + 1 - (i + 1) < n /\ b + 1 - (i + 2) < n
          BY <2>3
        <4>. HIDE DEF h, D
        <4>. QED  BY <2>2, <4>1
      <3>2. Spells(t, b, g, i) = Spells(t, b, h, i)
        <4>1. CASE i >= b
          BY <4>1 DEF Spells
        <4>2. CASE ~(i >= b)
          <5>1. g[i + 1] = h[i + 1] /\ g[i + 2] = h[i + 2]
            BY <3>1, <4>2
          <5>. HIDE DEF h
          <5>. QED  BY <5>1, Zenon DEF Spells
        <4>. QED  BY <4>1, <4>2
      <3>. QED  BY <3>2
    <2>4. h = [i \in D |-> h[i]]
      OBVIOUS
    <2>5. Upto(h, n + 1)
      <3>. HIDE DEF Eq, h
      <3>. QED  BY <2>3, <2>4
    <2>. HIDE DEF Upto, h
    <2>. QED  BY <2>5
  <1>3. PICK n \in Nat : n = b + 1
    OBVIOUS
  <1>4. n \in T
    <2>. HIDE DEF T
    <2>. QED  BY <1>1, <1>2, SetInduction
  <1>5. PICK g : Upto(g, n)
    BY <1>4
  <1>6. \A i \in D : Eq(g, i)
    <2>1. \A i \in D : b + 1 - i < n
      BY <1>3
    <2>. HIDE DEF Eq
    <2>. QED  BY <1>5, <2>1
  <1>7. g = [i \in 1 .. b + 1 |-> Spells(t, b, g, i)]
    BY <1>5, <1>6
  <1>8. \E f : f = [i \in 1 .. b + 1 |-> Spells(t, b, f, i)]
    BY <1>7
  <1>. QED  BY <1>8, Zenon DEF Spelt, Spells

\* What is spelt from one place on.
LEMMA SpeltAt ==
  ASSUME NEW t, NEW b \in Nat, NEW i \in 1 .. b + 1
  PROVE  Spelt(t, b)[i] = Spells(t, b, Spelt(t, b), i)
  <1>1. PICK f : f = Spelt(t, b)
    OBVIOUS
  <1>2. f = [k \in 1 .. b + 1 |-> Spells(t, b, f, k)]
    BY <1>1, SpeltDef
  <1>3. f[i] = Spells(t, b, f, i)
    BY <1>2
  <1>. QED  BY <1>1, <1>3

\* A character before a sequence.
LEMMA Preceded ==
  ASSUME NEW c, NEW r, IsSequence(r)
  PROVE  IsSequence(<<c>> \o r)
  <1>1. PICK S : r \in Seq(S) /\ c \in S
    BY Common
  <1>2. <<c>> \o r \in Seq(S)
    BY <1>1, ConcatProperties
  <1>. QED  BY <1>2, SequenceIntro

\* s, c and r in a row.
LEMMA InARow ==
  ASSUME NEW s, IsSequence(s), NEW c, NEW r, IsSequence(r)
  PROVE  s \o (<<c>> \o r) = Append(s, c) \o r
  <1>1. PICK S : s \in Seq(S) /\ r \in Seq(S) /\ c \in S
    BY Common
  <1>2. <<c>> \in Seq(S) /\ Append(s, c) = s \o <<c>>
    BY <1>1, AppendIsConcat
  <1>3. s \o (<<c>> \o r) = (s \o <<c>>) \o r
    BY <1>1, <1>2, ConcatAssociative
  <1>. QED  BY <1>2, <1>3

\* What is spelt is a sequence.
LEMMA SpeltType ==
  ASSUME NEW t, NEW b \in Nat, NEW i \in 1 .. b + 1, NEW r \in Spelt(t, b)[i]
  PROVE  IsSequence(r)
  <1> DEFINE P(k) == \A q \in Spelt(t, b)[k] : IsSequence(q)
             T == {n \in Nat : \A k \in 1 .. b + 1 : b + 1 - k < n => P(k)}
  <1>1. 0 \in T
    OBVIOUS
  <1>2. ASSUME NEW n \in Nat, n \in T  PROVE n + 1 \in T
    <2>1. ASSUME NEW k \in 1 .. b + 1, b + 1 - k < n + 1  PROVE P(k)
      <3>1. Spelt(t, b)[k] = Spells(t, b, Spelt(t, b), k)
        BY SpeltAt
      <3>2. CASE k >= b
        <4>1. IsSequence(<<>>)
          BY EmptySeq DEF IsSequence
        <4>. QED  BY <3>1, <3>2, <4>1 DEF Spells
      <3>3. CASE ~(k >= b)
        <4>1. k + 1 \in 1 .. b + 1 /\ k + 2 \in 1 .. b + 1 /\ b + 1 - (k + 1) < n /\ b + 1 - (k + 2) < n
          BY <2>1, <3>3
        <4>2. P(k + 1) /\ P(k + 2)
          <5>. HIDE DEF P
          <5>. QED  BY <1>2, <4>1
        <4>3. ASSUME NEW q \in Spelt(t, b)[k]
              PROVE  \/ \E rest \in Spelt(t, b)[k + 1] : q = <<t[k]>> \o rest
                     \/ \E rest \in Spelt(t, b)[k + 2] : q = <<Unescaped(t[k + 1])>> \o rest
          BY <3>1, <3>3, <4>3 DEF Spells
        <4>4. ASSUME NEW q \in Spelt(t, b)[k]  PROVE IsSequence(q)
          <5>1. CASE \E rest \in Spelt(t, b)[k + 1] : q = <<t[k]>> \o rest
            <6>1. PICK rest \in Spelt(t, b)[k + 1] : q = <<t[k]>> \o rest
              BY <5>1
            <6>2. IsSequence(rest)
              BY <4>2
            <6>. QED  BY <6>1, <6>2, Preceded
          <5>2. CASE \E rest \in Spelt(t, b)[k + 2] : q = <<Unescaped(t[k + 1])>> \o rest
            <6>1. PICK rest \in Spelt(t, b)[k + 2] : q = <<Unescaped(t[k + 1])>> \o rest
              BY <5>2
            <6>2. IsSequence(rest)
              BY <4>2
            <6>. QED  BY <6>1, <6>2, Preceded
          <5>3. \/ \E rest \in Spelt(t, b)[k + 1] : q = <<t[k]>> \o rest
                \/ \E rest \in Spelt(t, b)[k + 2] : q = <<Unescaped(t[k + 1])>> \o rest
            BY <4>3, <4>4
          <5>. QED  BY <5>1, <5>2, <5>3
        <4>. QED  BY <4>4
      <3>. QED  BY <3>2, <3>3
    <2>. HIDE DEF P
    <2>. QED  BY <2>1
  <1>3. PICK n \in Nat : n = b + 1
    OBVIOUS
  <1>4. n \in T
    <2>. HIDE DEF T
    <2>. QED  BY <1>1, <1>2, SetInduction
  <1>5. b + 1 - i < n
    BY <1>3
  <1>6. P(i)
    <2>. HIDE DEF P
    <2>. QED  BY <1>4, <1>5
  <1>. QED  BY <1>6
-----------------------------------------------------------------------------
(* What std::from_chars reads of a numeral. *)

\* What the loop of a number takes.
NumberChars == Digit \cup {"-", "+", "e", "E", "."}

\* An exponent is made of the characters that the loop of a number takes.
LEMMA ExponentChars ==
  ASSUME NEW s, Len(s) \in Nat, NEW i \in 1 .. Len(s) + 1, Exponent(s, i)
  PROVE  \A k \in i .. Len(s) : s[k] \in NumberChars
  <1>1. CASE i = Len(s) + 1
    BY <1>1
  <1>2. CASE s[i] \in {"e", "E"} /\ DigitsIn(s, i + 1, Len(s))
    BY <1>2 DEF DigitsIn, NumberChars
  <1>3. CASE s[i] \in {"e", "E"} /\ s[i + 1] \in {"+", "-"} /\ DigitsIn(s, i + 2, Len(s))
    <2>1. \A k \in i .. Len(s) : k = i \/ k = i + 1 \/ k \in i + 2 .. Len(s)
      OBVIOUS
    <2>. QED  BY <1>3, <2>1 DEF DigitsIn, NumberChars
  <1>. QED  BY <1>1, <1>2, <1>3 DEF Exponent

\* So is a numeral, which can also be read whole.
LEMMA NumeralFacts ==
  ASSUME NEW s, Len(s) \in Nat, s # <<>> => Len(s) # 0, Numeral(s)
  PROVE  /\ Len(s) # 0 /\ s[1] \in Digit \cup {"-"}
         /\ \A k \in 1 .. Len(s) : s[k] \in NumberChars
         /\ Readable(s)
  <1>1. Unsigned(s) \in {1, 2} /\ (Unsigned(s) = 2 => s # <<>> /\ s[1] = "-")
    BY DEF Unsigned
  <1>2. PICK u \in {1, 2} : u = Unsigned(s)
    BY <1>1
  <1>3. PICK i \in u .. Len(s), j \in u .. Len(s) :
          /\ DigitsIn(s, u, i)
          /\ j = i \/ (DigitsIn(s, i + 2, j) /\ s[i + 1] = ".")
          /\ Exponent(s, j + 1)
    BY <1>2, Zenon DEF Numeral
  <1>4. s[u] \in Digit /\ Len(s) # 0
    BY <1>3 DEF DigitsIn
  <1>5. s[1] \in Digit \cup {"-"}
    BY <1>1, <1>2, <1>4
  <1>6. \A k \in u .. j : \/ s[k] \in Digit
                          \/ j # i /\ k = i + 1 /\ s[k] = "."
    <2>1. \A k \in u .. j : k \in u .. i \/ k = i + 1 \/ k \in i + 2 .. j
      OBVIOUS
    <2>2. \A k \in u .. i : s[k] \in Digit
      BY <1>3 DEF DigitsIn
    <2>3. j # i => \A k \in i + 2 .. j : s[k] \in Digit
      BY <1>3 DEF DigitsIn
    <2>4. j # i => s[i + 1] = "."
      BY <1>3
    <2>5. j = i => \A k \in u .. j : k \in u .. i
      OBVIOUS
    <2>. QED  BY <2>1, <2>2, <2>3, <2>4, <2>5
  <1>7. \A k \in j + 1 .. Len(s) : s[k] \in NumberChars
    BY <1>3, ExponentChars
  <1>8. \A k \in 1 .. Len(s) : s[k] \in NumberChars
    <2>1. \A k \in 1 .. Len(s) : k = 1 \/ k \in u .. j \/ k \in j + 1 .. Len(s)
      OBVIOUS
    <2>. QED  BY <1>5, <1>6, <1>7, <2>1 DEF NumberChars
  <1>9. Readable(s)
    <2>1. \A k \in u .. j : s[k] \in Digit \cup {"."}
      BY <1>6
    <2>2. \E k \in u .. j : s[k] \in Digit
      BY <1>3, <1>4 DEF DigitsIn
    <2>3. \A k, l \in u .. j : s[k] = "." /\ s[l] = "." => k = l
      <3>1. "." \notin Digit
        BY DEF Digit
      <3>. QED  BY <1>6, <3>1
    <2>. QED  BY <1>2, <1>3, <2>1, <2>2, <2>3, Zenon DEF Readable
  <1>. QED  BY <1>4, <1>5, <1>8, <1>9

\* from_chars reads a numeral to its end.
LEMMA NumeralRead ==
  ASSUME NEW s \in Seq(STRING), Numeral(s)
  PROVE  FromChars(s) = s /\ s # <<>>
  <1>1. Len(s) \in Nat /\ (s # <<>> => Len(s) # 0) /\ SubSeq(s, 1, Len(s)) = s /\ Len(<<>>) = 0
    BY LenProperties, EmptySeq, SubSeqFull
  <1>2. Readable(s) /\ Len(s) # 0
    BY <1>1, NumeralFacts
  <1> DEFINE Reads(n) == n = 0 \/ Readable(SubSeq(s, 1, n))
             P(n) == Reads(n) /\ \A m \in n + 1 .. Len(s) : ~Reads(m)
  <1>3. Reads(Len(s))
    BY <1>1, <1>2
  <1>4. FromChars(s) = SubSeq(s, 1, CHOOSE n \in 0 .. Len(s) : P(n))
    BY DEF FromChars
  <1>. HIDE DEF Reads
  <1>5. P(Len(s)) /\ \A n \in 0 .. Len(s) : P(n) => n = Len(s)
    <2>1. PICK l \in Nat : l = Len(s)
      BY <1>1
    <2>2. l + 1 .. l = {} /\ Reads(l)
      BY <1>3, <2>1
    <2>3. \A n \in 0 .. l : n # l => l \in n + 1 .. l
      BY <2>1
    <2>4. P(l) /\ \A n \in 0 .. l : P(n) => n = l
      BY <2>1, <2>2, <2>3
    <2>. QED  BY <2>1, <2>4
  <1>6. (CHOOSE n \in 0 .. Len(s) : P(n)) = Len(s)
    <2>1. Len(s) \in 0 .. Len(s)
      BY <1>1
    <2>. HIDE DEF P
    <2>. QED  BY <1>5, <2>1
  <1>. QED  BY <1>1, <1>2, <1>4, <1>6

\* What it reads whole is something it can read.
LEMMA ReadWhole ==
  ASSUME NEW s \in Seq(STRING), FromChars(s) = s, s # <<>>
  PROVE  Readable(s)
  <1> DEFINE l == Len(s)
             Reads(n) == n = 0 \/ Readable(SubSeq(s, 1, n))
             P(n) == Reads(n) /\ \A m \in n + 1 .. l : ~Reads(m)
             S == {d \in Nat : d <= l /\ Reads(l - d)}
  <1>1. l \in Nat /\ l # 0 /\ SubSeq(s, 1, l) = s
    BY LenProperties, EmptySeq, SubSeqFull
  <1>2. FromChars(s) = SubSeq(s, 1, CHOOSE n \in 0 .. l : P(n))
    BY DEF FromChars
  <1>. HIDE DEF l, Reads
  <1>3. \E n \in 0 .. l : P(n)
    <2>1. l \in S
      <3>1. Reads(l - l)
        BY <1>1 DEF Reads
      <3>. QED  BY <1>1, <3>1
    <2>2. PICK d \in S : \A e \in S : d <= e
      <3>1. S \subseteq Nat /\ S # {}
        BY <2>1
      <3>. HIDE DEF S
      <3>. QED  BY <3>1, Least
    <2>3. ASSUME NEW m \in l - d + 1 .. l, Reads(m)  PROVE FALSE
      <3>1. l - m \in Nat /\ l - m <= l /\ l - (l - m) = m /\ l - m < d
        BY <1>1, <2>2
      <3>2. l - m \in S
        BY <2>3, <3>1
      <3>. QED  BY <2>2, <3>1, <3>2
    <2>4. l - d \in 0 .. l /\ Reads(l - d)
      BY <1>1, <2>2
    <2>. QED  BY <2>3, <2>4
  <1>4. PICK n \in 0 .. l : P(n) /\ FromChars(s) = SubSeq(s, 1, n)
    <2> DEFINE c == CHOOSE n \in 0 .. l : P(n)
    <2>1. c \in 0 .. l /\ P(c)
      <3>. HIDE DEF P
      <3>. QED  BY <1>3
    <2>. HIDE DEF P
    <2>. QED  BY <1>2, <2>1
  <1>5. n = l
    <2>1. Len(SubSeq(s, 1, n)) = n
      BY <1>1, SubSeqProperties, LenProperties DEF l
    <2>. QED  BY <1>4, <2>1 DEF l
  <1>. QED  BY <1>1, <1>4, <1>5 DEF Reads

\* There is no point in an exponent.
LEMMA ExponentPoint ==
  ASSUME NEW s, Len(s) \in Nat, NEW i \in 1 .. Len(s) + 1, Exponent(s, i)
  PROVE  \A k \in i .. Len(s) : s[k] # "."
  <1>1. CASE i = Len(s) + 1
    BY <1>1
  <1>2. CASE s[i] \in {"e", "E"} /\ DigitsIn(s, i + 1, Len(s))
    BY <1>2 DEF DigitsIn, Digit
  <1>3. CASE s[i] \in {"e", "E"} /\ s[i + 1] \in {"+", "-"} /\ DigitsIn(s, i + 2, Len(s))
    <2>1. \A k \in i .. Len(s) : k = i \/ k = i + 1 \/ k \in i + 2 .. Len(s)
      OBVIOUS
    <2>. QED  BY <1>3, <2>1 DEF DigitsIn, Digit
  <1>. QED  BY <1>1, <1>2, <1>3 DEF Exponent

\* A numeral has neither of the two that JSON does not know.
LEMMA NumeralStrict ==
  ASSUME NEW s \in Seq(STRING), Numeral(s)
  PROVE  ~LeadingZero(s) /\ ~BarePoint(s)
  <1>1. Len(s) \in Nat /\ Unsigned(s) \in {1, 2} /\ (Unsigned(s) = 2 => s[1] = "-")
    BY LenProperties DEF Unsigned
  <1>2. PICK u \in {1, 2} : u = Unsigned(s)
    BY <1>1
  <1>3. PICK i \in u .. Len(s), j \in u .. Len(s) :
          /\ DigitsIn(s, u, i) /\ (s[u] = "0" => i = u)
          /\ j = i \/ (DigitsIn(s, i + 2, j) /\ s[i + 1] = ".")
          /\ Exponent(s, j + 1)
    BY <1>2, Zenon DEF Numeral
  <1>4. \A k \in u .. i : s[k] \in Digit
    BY <1>3 DEF DigitsIn
  <1>5. "." \notin Digit /\ "-" # "." /\ \A c \in {"e", "E"} : c \notin Digit
    BY DEF Digit
  <1>6. ~LeadingZero(s)
    <2>. SUFFICES ASSUME u < Len(s), s[u] = "0", s[u + 1] \in Digit  PROVE FALSE
      BY <1>2 DEF LeadingZero
    <2>1. i = u
      BY <1>3
    <2>2. CASE j = i
      BY <1>1, <1>3, <1>5, <2>1, <2>2 DEF Exponent
    <2>3. CASE s[i + 1] = "."
      BY <1>5, <2>1, <2>3
    <2>. QED  BY <1>3, <2>2, <2>3
  <1>7. ASSUME NEW k \in 1 .. Len(s), s[k] = "."
        PROVE  k \in 2 .. Len(s) - 1 /\ s[k - 1] \in Digit /\ s[k + 1] \in Digit
    <2>1. k \notin j + 1 .. Len(s)
      BY <1>1, <1>3, <1>7, ExponentPoint
    <2>2. k \notin u .. i
      BY <1>4, <1>5, <1>7
    <2>3. k >= u
      BY <1>1, <1>2, <1>5, <1>7
    <2>4. k \in i + 1 .. j /\ j # i
      BY <1>1, <2>1, <2>2, <2>3
    <2>5. i + 2 <= j /\ \A m \in i + 2 .. j : s[m] \in Digit
      BY <1>3, <2>4 DEF DigitsIn
    <2>6. k = i + 1
      BY <1>5, <1>7, <2>4, <2>5
    <2>. QED  BY <1>1, <1>4, <2>5, <2>6
  <1>8. ~BarePoint(s)
    BY <1>7 DEF BarePoint
  <1>. QED  BY <1>6, <1>8

\* What from_chars reads whole is a numeral, but for these two.
LEMMA WholeIsNumeral ==
  ASSUME NEW s \in Seq(STRING), FromChars(s) = s, s # <<>>, ~LeadingZero(s), ~BarePoint(s)
  PROVE  Numeral(s)
  <1>1. Len(s) \in Nat /\ Unsigned(s) \in {1, 2} /\ (Unsigned(s) = 2 => s[1] = "-")
    BY LenProperties DEF Unsigned
  <1>2. PICK u \in {1, 2} : u = Unsigned(s)
    BY <1>1
  <1>3. PICK i \in u .. Len(s) :
          /\ \A k \in u .. i : s[k] \in Digit \cup {"."}
          /\ \A k, l \in u .. i : s[k] = "." /\ s[l] = "." => k = l
          /\ Exponent(s, i + 1)
    BY <1>2, ReadWhole, Zenon DEF Readable
  <1>4. "." \notin Digit /\ "-" \notin Digit /\ \A c \in {"e", "E"} : c \notin Digit
    BY DEF Digit
  <1>5. u < Len(s) /\ s[u] = "0" => s[u + 1] \notin Digit
    BY <1>2 DEF LeadingZero
  <1>6. CASE \A k \in u .. i : s[k] \in Digit
    <2>1. DigitsIn(s, u, i)
      BY <1>1, <1>6 DEF DigitsIn
    <2>2. s[u] = "0" => i = u
      BY <1>1, <1>5, <1>6
    <2>. QED  BY <1>2, <1>3, <2>1, <2>2, Zenon DEF Numeral
  <1>7. ASSUME NEW k \in u .. i, s[k] \notin Digit  PROVE Numeral(s)
    <2>1. s[k] = "." /\ k \in 1 .. Len(s)
      BY <1>1, <1>3, <1>7
    <2>2. k \in 2 .. Len(s) - 1 /\ s[k - 1] \in Digit /\ s[k + 1] \in Digit
      BY <2>1 DEF BarePoint
    <2>3. k # u
      BY <1>1, <1>2, <1>4, <2>2
    <2>4. k < i
      BY <1>1, <1>3, <1>4, <2>2 DEF Exponent
    <2>5. \A m \in u .. i : m # k => s[m] \in Digit
      BY <1>3, <2>1
    <2>6. DigitsIn(s, u, k - 1) /\ DigitsIn(s, k + 1, i)
      BY <1>1, <2>2, <2>3, <2>4, <2>5 DEF DigitsIn
    <2>7. s[u] = "0" => k - 1 = u
      BY <1>1, <1>5, <2>2, <2>3, <2>5
    <2>8. PICK h \in u .. Len(s) : h = k - 1 /\ k + 1 = h + 2 /\ k = h + 1
      BY <1>1, <2>2, <2>3
    <2>9. /\ DigitsIn(s, u, h) /\ (s[u] = "0" => h = u)
          /\ DigitsIn(s, h + 2, i) /\ s[h + 1] = "."
      BY <2>1, <2>6, <2>7, <2>8
    <2>. QED  BY <1>2, <1>3, <2>8, <2>9, Zenon DEF Numeral
  <1>. QED  BY <1>6, <1>7
-----------------------------------------------------------------------------
\* The elements of Scalars.
LEMMA InScalars ==
  ASSUME NEW s, NEW w
  PROVE  w \in Scalars(s) <=>
           \/ s = True /\ w = [Boolean |-> TRUE]
           \/ s = False /\ w = [Boolean |-> FALSE]
           \/ s = Null /\ w = [Null |-> TRUE]
           \/ Numeral(s) /\ w = [Number |-> s]
  BY DEF Scalars, True, False, Null
-----------------------------------------------------------------------------
(* A value that begins at a known place. *)

\* A part of a text.
LEMMA Part ==
  ASSUME NEW t \in Seq(STRING), NEW a \in 1 .. Len(t), NEW b \in a .. Len(t)
  PROVE  LET s == SubSeq(t, a, b)
         IN  /\ s \in Seq(STRING) /\ Len(s) = b - a + 1 /\ s # <<>>
             /\ s[1] = t[a] /\ \A k \in a .. b : t[k] = s[k - a + 1]
  <1>1. \A i \in a .. b : t[i] \in STRING
    BY LenProperties, ElementOfSeq
  <1>2. a \in Int /\ b \in Int
    BY LenProperties
  <1> DEFINE s == SubSeq(t, a, b)
  <1>3. /\ s \in Seq(STRING) /\ Len(s) = (IF a <= b THEN b - a + 1 ELSE 0)
        /\ \A i \in 1 .. b - a + 1 : s[i] = t[a + i - 1]
    BY <1>1, <1>2, SubSeqProperties
  <1>. HIDE DEF s
  <1>4. Len(s) = b - a + 1 /\ s[1] = t[a]
    BY <1>3
  <1>5. \A k \in a .. b : t[k] = s[k - a + 1]
    BY <1>3
  <1>6. s # <<>>
    BY <1>4, EmptySeq
  <1>. QED  BY <1>3, <1>4, <1>5, <1>6 DEF s

\* What a value can be, by its first character.
IsString(t, a, b, w) ==
  t[a] = "\"" /\ a < b /\ t[b] = "\"" /\ \E q \in Spelt(t, b)[a + 1] : w = [String |-> q]

IsList(t, M, a, b, w) ==
  \E list \in Lists :
    /\ a < b /\ t[a] = Left[list] /\ t[b] = Right[list]
    /\ \E made \in M[<<list, a + 1, b - 1>>] : w = Container(list, made)

IsWord(t, a, b, w) ==
  \/ SubSeq(t, a, b) = True /\ t[a] = "t" /\ w = [Boolean |-> TRUE]
  \/ SubSeq(t, a, b) = False /\ t[a] = "f" /\ w = [Boolean |-> FALSE]
  \/ SubSeq(t, a, b) = Null /\ t[a] = "n" /\ w = [Null |-> TRUE]

IsNumber(t, a, b, w) ==
  /\ Numeral(SubSeq(t, a, b)) /\ w = [Number |-> SubSeq(t, a, b)]
  /\ t[a] \in Digit \cup {"-"} /\ \A k \in a .. b : t[k] \in NumberChars

\* The first character tells what a value can be.
LEMMA ByFirst ==
  ASSUME NEW t \in Seq(STRING), NEW a \in 1 .. Len(t), NEW b \in a .. Len(t), NEW M, NEW w,
         IsValues(t, M, a, b, w)
  PROVE  IsString(t, a, b, w) \/ IsList(t, M, a, b, w) \/ IsWord(t, a, b, w) \/ IsNumber(t, a, b, w)
  <1> DEFINE s == SubSeq(t, a, b)
  <1>1. /\ s \in Seq(STRING) /\ Len(s) = b - a + 1 /\ s # <<>>
        /\ s[1] = t[a] /\ \A k \in a .. b : t[k] = s[k - a + 1]
    BY Part
  <1>. HIDE DEF s
  <1>2. CASE w \in Scalars(s)
    <2>1. \/ s = True /\ w = [Boolean |-> TRUE]
          \/ s = False /\ w = [Boolean |-> FALSE]
          \/ s = Null /\ w = [Null |-> TRUE]
          \/ Numeral(s) /\ w = [Number |-> s]
      BY <1>2, InScalars
    <2>2. True[1] = "t" /\ False[1] = "f" /\ Null[1] = "n"
      BY DEF True, False, Null
    <2>3. CASE Numeral(s)
      <3>1. Len(s) \in Nat /\ Len(s) # 0
        BY <1>1, LenProperties
      <3>2. s[1] \in Digit \cup {"-"} /\ \A k \in 1 .. Len(s) : s[k] \in NumberChars
        BY <2>3, <3>1, NumeralFacts
      <3>3. \A k \in a .. b : k - a + 1 \in 1 .. Len(s)
        BY <1>1, LenProperties
      <3>4. \A k \in a .. b : t[k] \in NumberChars
        BY <1>1, <3>2, <3>3
      <3>5. w = [Number |-> s] \/ IsWord(t, a, b, w)
        BY <1>1, <2>1, <2>2 DEF s, IsWord
      <3>. QED  BY <1>1, <2>3, <3>2, <3>4, <3>5 DEF s, IsNumber
    <2>. QED  BY <1>1, <2>1, <2>2, <2>3 DEF s, IsWord
  <1>3. CASE \E q \in Quoted(t, a, b) : w = [String |-> q]
    <2>1. IsString(t, a, b, w)
      BY <1>3 DEF Quoted, IsString
    <2>. QED  BY <2>1
  <1>. QED  BY <1>2, <1>3, Zenon DEF IsValues, IsList, s

\* The same for any value that begins in b with its first character at h.
LEMMA ValueFrom ==
  ASSUME NEW t, Len(t) \in Nat, NEW b \in 1 .. Len(t) + 1, NEW h \in b .. Len(t),
         t[h] \notin Space, Blank(t, b, h - 1), NEW e \in 0 .. Len(t), NEW w
  PROVE  w \in Means(t)[<<"value", b, e>>] <=>
           \E l \in h .. e : t[l] \notin Space /\ Blank(t, l + 1, e) /\ IsValues(t, Means(t), h, l, w)
  <1> DEFINE In == w \in Means(t)[<<"value", b, e>>]
             Is(m) == t[m] \notin Space /\ Blank(t, m + 1, e) /\ IsValues(t, Means(t), h, m, w)
  <1>. SUFFICES In <=> \E m \in h .. e : Is(m)
    OBVIOUS
  <1>1. CASE e < h
    <2>1. Blank(t, b, e)
      BY <1>1 DEF Blank
    <2>2. Means(t)[<<"value", b, e>>] = {}
      BY <2>1, ValueBlank
    <2>. QED  BY <1>1, <2>2
  <1>2. CASE h <= e
    <2>1. h \in b .. e
      BY <1>2
    <2>2. ~Blank(t, b, e)
      BY <2>1 DEF Blank
    <2>3. PICK l \in b .. e : l = Last(t, b, e) /\ t[l] \notin Space /\ Blank(t, l + 1, e)
      BY <2>2, LastExists
    <2>4. l >= h
      BY <2>1, <2>3 DEF Blank
    <2>5. \A m \in h .. e : t[m] \notin Space /\ Blank(t, m + 1, e) => m = l
      <3>1. ASSUME NEW m \in h .. e, t[m] \notin Space, Blank(t, m + 1, e)  PROVE m = l
        <4>1. m \in b .. e
          OBVIOUS
        <4>. QED  BY <2>3, <3>1, <4>1, LastIs
      <3>. QED  BY <3>1
    <2>6. w \in Means(t)[<<"value", b, e>>] <=> IsValues(t, Means(t), h, l, w)
      BY <2>1, <2>3, ValueAt
    <2>7. l \in h .. e
      BY <2>3, <2>4
    <2>8. (\A m \in h .. e : Is(m) => m = l) /\ (In <=> Is(l))
      BY <2>3, <2>5, <2>6
    <2>. HIDE DEF Is, In
    <2>9. In => \E m \in h .. e : Is(m)
      BY <2>7, <2>8
    <2>10. (\E m \in h .. e : Is(m)) => In
      BY <2>8
    <2>. QED  BY <2>9, <2>10
  <1>. HIDE DEF In, Is
  <1>. QED  BY <1>1, <1>2
-----------------------------------------------------------------------------
(* How much of a value has been read: the states of the innermost call. *)

\* Where a value may end: at the end of the text, or before what separates it.
Sep(t, e) == e = Len(t) \/ t[e + 1] \in {",", "]", "}"}

\* No value begins at b.
Dead(t, b) == \A e \in 0 .. Len(t) : Sep(t, e) => Means(t)[<<"value", b, e>>] = {}

\* The value that begins at b is v, and ends at p.
Returned(t, b, p, v) ==
  \A e \in 0 .. Len(t) : Sep(t, e) =>
    \A w : w \in Means(t)[<<"value", b, e>>] <=> p <= e /\ Blank(t, p + 1, e) /\ w = v

\* The value that begins at b is a string, s and what follows after p.
InString(t, b, s, p) ==
  \A e \in 0 .. Len(t) : Sep(t, e) =>
    \A w : w \in Means(t)[<<"value", b, e>>] <=>
             \E q \in p + 1 .. e :
               /\ t[q] = "\"" /\ Blank(t, q + 1, e)
               /\ \E r \in Spelt(t, q)[p + 1] : w = [String |-> s \o r]

\* The value that begins at b is a list, made and what follows: if it ends at
\* E, one of R[E].
Waits(t, b, list, made, R) ==
  \A e \in 0 .. Len(t) : Sep(t, e) =>
    \A w : w \in Means(t)[<<"value", b, e>>] <=>
             \E E \in 1 .. e :
               /\ t[E] = Right[list] /\ Blank(t, E + 1, e)
               /\ \E rest \in R[E] : w = Container(list, Merged(list, made, rest))

\* What follows where the loop is at c, or a value is expected there, ...
AtLoop(t, list, c) ==
  [E \in 1 .. Len(t) |-> IF c <= E THEN Means(t)[<<list, c, E - 1>>] ELSE {}]

AtValue(t, list, key, c) ==
  [E \in 1 .. Len(t) |-> IF c <= E THEN Items(t, Means(t), list, key, c, E - 1) ELSE {}]

\* ... or the colon after p, or a key that begins with s.
AtColon(t, key, p) ==
  [E \in 1 .. Len(t) |->
     UNION {Items(t, Means(t), "object", key, c + 1, E - 1) :
            c \in {c \in p + 1 .. E - 1 : t[c] = ":" /\ Blank(t, p + 1, c - 1)}}]

AtKey(t, s, p) ==
  [E \in 1 .. Len(t) |->
     UNION {UNION {AtColon(t, s \o r, q)[E] : r \in Spelt(t, q)[p + 1]} :
            q \in {q \in p + 1 .. E - 1 : t[q] = "\""}}]

\* The elements of AtColon and AtKey, without the unions.
LEMMA InColon ==
  ASSUME NEW t, NEW key, NEW p, NEW E \in 1 .. Len(t), NEW m
  PROVE  m \in AtColon(t, key, p)[E] <=>
           \E c \in p + 1 .. E - 1 : /\ t[c] = ":" /\ Blank(t, p + 1, c - 1)
                                     /\ m \in Items(t, Means(t), "object", key, c + 1, E - 1)
  BY DEF AtColon

LEMMA InKey ==
  ASSUME NEW t, NEW s, NEW p, NEW E \in 1 .. Len(t), NEW m
  PROVE  m \in AtKey(t, s, p)[E] <=>
           \E q \in p + 1 .. E - 1 : /\ t[q] = "\""
                                     /\ \E r \in Spelt(t, q)[p + 1] : m \in AtColon(t, s \o r, q)[E]
  <1> DEFINE B(q) == UNION {AtColon(t, s \o r, q)[E] : r \in Spelt(t, q)[p + 1]}
             S == {q \in p + 1 .. E - 1 : t[q] = "\""}
  <1>1. m \in AtKey(t, s, p)[E] <=> m \in UNION {B(q) : q \in S}
    BY DEF AtKey
  <1>2. m \in UNION {B(q) : q \in S} <=> \E q \in p + 1 .. E - 1 : t[q] = "\"" /\ m \in B(q)
    <2>. HIDE DEF B
    <2>. QED  OBVIOUS
  <1>3. ASSUME NEW q
        PROVE  m \in B(q) <=> \E r \in Spelt(t, q)[p + 1] : m \in AtColon(t, s \o r, q)[E]
    OBVIOUS
  <1>. HIDE DEF B, S
  <1>. QED  BY <1>1, <1>2, <1>3, Zenon

\* The brackets of a list.
LEMMA RightIs ==
  ASSUME NEW list \in Lists
  PROVE  /\ Right[list] \in {"]", "}"} /\ Left[list] \in {"[", "{"}
         /\ Right[list] \notin Space /\ Left[list] \notin Space
         /\ (list = "array" => Right[list] = "]" /\ Left[list] = "[")
         /\ (list = "object" => Right[list] = "}" /\ Left[list] = "{")
         /\ list = "array" \/ list = "object"
  <1>1. list = "array" \/ list = "object"
    BY DEF Lists
  <1>2. Right["array"] = "]" /\ Left["array"] = "["
    BY DEF Right, Left
  <1>3. Right["object"] = "}" /\ Left["object"] = "{"
    BY DEF Right, Left
  <1>. QED  BY <1>1, <1>2, <1>3 DEF Space
-----------------------------------------------------------------------------
(* From one mode to the next. *)

\* What is waited for may be told in another way.
LEMMA WaitsSame ==
  ASSUME NEW t, NEW b, NEW list, NEW made, NEW R, NEW Q, Waits(t, b, list, made, R),
         Len(t) \in Nat, \A E \in 1 .. Len(t) : t[E] = Right[list] => R[E] = Q[E]
  PROVE  Waits(t, b, list, made, Q)
  <1>1. \A e \in 0 .. Len(t) : \A E \in 1 .. e : E \in 1 .. Len(t)
    OBVIOUS
  <1>2. ASSUME NEW e \in 0 .. Len(t), Sep(t, e), NEW w
        PROVE  w \in Means(t)[<<"value", b, e>>] <=>
             \E E \in 1 .. e :
               /\ t[E] = Right[list] /\ Blank(t, E + 1, e)
               /\ \E rest \in Q[E] : w = Container(list, Merged(list, made, rest))
    <2>1. w \in Means(t)[<<"value", b, e>>] <=>
             \E E \in 1 .. e :
               /\ t[E] = Right[list] /\ Blank(t, E + 1, e)
               /\ \E rest \in R[E] : w = Container(list, Merged(list, made, rest))
      BY <1>2, Zenon DEF Waits
    <2>2. \A E \in 1 .. e : t[E] = Right[list] => R[E] = Q[E]
      BY <1>1
    <2>. QED  BY <2>1, <2>2, Zenon
  <1>. QED  BY <1>2, Zenon DEF Waits

\* A value, and then the rest.
LEMMA WaitsMore ==
  ASSUME NEW t, NEW b, NEW list \in Lists, NEW key, NEW made, NEW v, NEW R, NEW Q,
         Waits(t, b, list, made, R), Len(t) \in Nat, Made(list, made),
         \A E \in 1 .. Len(t) : t[E] = Right[list] =>
           /\ \A m : m \in R[E] <=> \E rest \in Q[E] : m = Joined(list, key, v, rest)
           /\ \A rest \in Q[E] : Made(list, rest)
  PROVE  Waits(t, b, list, AddedTo(list, key, made, v), Q)
  <1>1. \A e \in 0 .. Len(t) : \A E \in 1 .. e : E \in 1 .. Len(t)
    OBVIOUS
  <1> DEFINE A(w, E) == \E rest \in R[E] : w = Container(list, Merged(list, made, rest))
             B(w, E) == \E rest \in Q[E] :
                          w = Container(list, Merged(list, AddedTo(list, key, made, v), rest))
  <1>2. ASSUME NEW E \in 1 .. Len(t), t[E] = Right[list], NEW w  PROVE A(w, E) <=> B(w, E)
    <2>1. \A m : m \in R[E] <=> \E rest \in Q[E] : m = Joined(list, key, v, rest)
      BY <1>2
    <2>2. \A rest \in Q[E] : Merged(list, made, Joined(list, key, v, rest))
                               = Merged(list, AddedTo(list, key, made, v), rest)
      BY <1>2, MergedAdded
    <2>3. A(w, E) <=> \E rest \in Q[E] : w = Container(list, Merged(list, made, Joined(list, key, v, rest)))
      BY <2>1
    <2>. QED  BY <2>2, <2>3
  <1>3. ASSUME NEW e \in 0 .. Len(t), Sep(t, e), NEW w
        PROVE  w \in Means(t)[<<"value", b, e>>] <=>
             \E E \in 1 .. e : t[E] = Right[list] /\ Blank(t, E + 1, e) /\ B(w, E)
    <2>1. w \in Means(t)[<<"value", b, e>>] <=>
             \E E \in 1 .. e : t[E] = Right[list] /\ Blank(t, E + 1, e) /\ A(w, E)
      BY <1>3, Zenon DEF Waits
    <2>. HIDE DEF A, B
    <2>. QED  BY <1>1, <1>2, <2>1, Zenon
  <1>. QED  BY <1>3, Zenon DEF Waits

\* What waits for nothing has no value.
LEMMA WaitsNever ==
  ASSUME NEW t, NEW b, NEW list, NEW made, NEW R, Waits(t, b, list, made, R), Len(t) \in Nat,
         \A E \in 1 .. Len(t) : t[E] = Right[list] => R[E] = {}
  PROVE  Dead(t, b)
  <1>1. \A e \in 0 .. Len(t) : \A E \in 1 .. e : E \in 1 .. Len(t)
    OBVIOUS
  <1>2. ASSUME NEW e \in 0 .. Len(t), Sep(t, e), NEW w  PROVE w \notin Means(t)[<<"value", b, e>>]
    <2>1. w \in Means(t)[<<"value", b, e>>] <=>
             \E E \in 1 .. e :
               /\ t[E] = Right[list] /\ Blank(t, E + 1, e)
               /\ \E rest \in R[E] : w = Container(list, Merged(list, made, rest))
      BY <1>2, Zenon DEF Waits
    <2>2. \A E \in 1 .. e : t[E] = Right[list] => R[E] = {}
      BY <1>1
    <2>. QED  BY <2>1, <2>2
  <1>. QED  BY <1>2 DEF Dead

\* The place before k.
LEMMA Before ==
  ASSUME NEW n \in Nat, NEW k \in 1 .. n
  PROVE  \E e \in 0 .. n : e = k - 1 /\ e + 1 = k
  OBVIOUS

\* Where the value of a list may end.
LEMMA SepBefore ==
  ASSUME NEW t, Len(t) \in Nat, NEW k \in 1 .. Len(t), t[k] \in {",", "]", "}"}
  PROVE  k - 1 \in 0 .. Len(t) /\ Sep(t, k - 1)
  <1>1. PICK e \in 0 .. Len(t) : e = k - 1 /\ e + 1 = k
    BY Before
  <1>2. t[e + 1] = t[k]
    BY <1>1, Zenon
  <1>3. e = Len(t) \/ t[e + 1] \in {",", "]", "}"}
    BY <1>2, Zenon
  <1>. QED  BY <1>1, <1>3, Zenon DEF Sep

\* Nor has a list a value, if one that it needs is none.
LEMMA DeadBelow ==
  ASSUME NEW t, NEW b, NEW list \in Lists, NEW made, NEW key, NEW c \in 1 .. Len(t) + 1,
         Waits(t, b, list, made, AtValue(t, list, key, c)), Len(t) \in Nat, Dead(t, c)
  PROVE  Dead(t, b)
  <1>1. ASSUME NEW E \in 1 .. Len(t), t[E] = Right[list], NEW m \in AtValue(t, list, key, c)[E]
        PROVE  FALSE
    <2>1. c <= E /\ m \in Items(t, Means(t), list, key, c, E - 1)
      BY <1>1 DEF AtValue
    <2>2. IsItems(t, Means(t), list, key, c, E - 1, m)
      BY <2>1, InItems
    <2>3. E - 1 \in 0 .. Len(t) /\ Sep(t, E - 1)
      BY <1>1, SepBefore, RightIs
    <2>4. Means(t)[<<"value", c, E - 1>>] = {}
      BY <2>3 DEF Dead
    <2>5. ASSUME NEW k \in c .. E - 1, t[k] = ","  PROVE Means(t)[<<"value", c, k - 1>>] = {}
      <3>1. k - 1 \in 0 .. Len(t) /\ Sep(t, k - 1)
        <4>1. k \in 1 .. Len(t)
          OBVIOUS
        <4>. QED  BY <2>5, <4>1, SepBefore
      <3>. QED  BY <3>1 DEF Dead
    <2>. QED  BY <2>2, <2>4, <2>5 DEF IsItems
  <1>2. \A E \in 1 .. Len(t) : t[E] = Right[list] => AtValue(t, list, key, c)[E] = {}
    BY <1>1
  <1>. QED  BY <1>2, WaitsNever
-----------------------------------------------------------------------------
(* Where a value or a list must begin. *)

\* Characters that a proof has to name.
Comma == ","
Colon == ":"
Quote == "\""
Enders == {",", ":", "]", "}"}

\* There is one first character.
LEMMA SameFirst ==
  ASSUME NEW t, NEW p \in Int, NEW h \in Int, NEW k \in Int, p <= h, p <= k,
         Blank(t, p, h - 1), Blank(t, p, k - 1), t[h] \notin Space, t[k] \notin Space
  PROVE  h = k
  <1>1. ~(h < k) /\ ~(k < h)
    BY DEF Blank
  <1>. QED  BY <1>1

\* Where nothing but blanks is left, or the first character cannot begin a
\* value, no value begins.
LEMMA DeadAtEnd ==
  ASSUME NEW t, Len(t) \in Nat, NEW b \in 1 .. Len(t) + 1, Blank(t, b, Len(t))
  PROVE  Dead(t, b)
  <1>1. ASSUME NEW e \in 0 .. Len(t)  PROVE Means(t)[<<"value", b, e>>] = {}
    <2>1. Blank(t, b, e)
      BY DEF Blank
    <2>. QED  BY <2>1, ValueBlank
  <1>. QED  BY <1>1 DEF Dead

\* Neither a value nor a list begins with what separates values.
LEMMA NoValue ==
  ASSUME NEW t \in Seq(STRING), Len(t) \in Nat, NEW i \in 1 .. Len(t) + 1,
         NEW h \in i .. Len(t), Blank(t, i, h - 1),
         t[h] \in Enders, NEW e \in 0 .. Len(t)
  PROVE  Means(t)[<<"value", i, e>>] = {}
  <1>0. Len(t) \in Nat
    BY LenProperties
  <1>1. t[h] \notin Space /\ t[h] \notin Digit
    BY DEF Space, Digit, Enders
  <1>2. ASSUME NEW w \in Means(t)[<<"value", i, e>>]  PROVE FALSE
    <2>1. PICK l \in h .. e : IsValues(t, Means(t), h, l, w)
      BY <1>0, <1>1, ValueFrom
    <2>2. h \in 1 .. Len(t) /\ l \in h .. Len(t)
      BY <1>0
    <2>3. \/ t[h] = "\""
          \/ \E list \in Lists : t[h] = Left[list]
          \/ t[h] \in {"t", "f", "n"} \/ t[h] \in Digit \cup {"-"}
      BY <2>1, <2>2, ByFirst DEF IsString, IsList, IsWord, IsNumber
    <2>4. t[h] \in {"\"", "[", "{", "t", "f", "n", "-"}
      BY <1>1, <2>3, RightIs
    <2>. QED  BY <2>4 DEF Enders
  <1>. QED  BY <1>2

\* A closing bracket, or anything but a quote, begins no list.
LEMMA NoArray ==
  ASSUME NEW t \in Seq(STRING), Len(t) \in Nat, NEW i \in 1 .. Len(t) + 1,
         NEW h \in i .. Len(t), Blank(t, i, h - 1),
         t[h] \in Enders, NEW e \in h .. Len(t)
  PROVE  Means(t)[<<"array", i, e>>] = {}
  <1>0. Len(t) \in Nat /\ e \in 0 .. Len(t)
    BY LenProperties
  <1>1. ~Blank(t, i, e)
    <2>1. h \in i .. e
      BY <1>0
    <2>2. t[h] \notin Space
      BY DEF Space, Enders
    <2>. QED  BY <2>1, <2>2 DEF Blank
  <1>2. ASSUME NEW w \in Means(t)[<<"array", i, e>>]  PROVE FALSE
    <2>1. IsItems(t, Means(t), "array", <<>>, i, e, w)
      BY <1>0, <1>1, <1>2, ArrayAt, InItems
    <2>2. Means(t)[<<"value", i, e>>] = {}
      BY <1>0, NoValue
    <2>3. ASSUME NEW k \in i .. e  PROVE Means(t)[<<"value", i, k - 1>>] = {}
      <3>1. k - 1 \in 0 .. Len(t)
        BY <1>0
      <3>. QED  BY <3>1, NoValue
    <2>. QED  BY <2>1, <2>2, <2>3, Zenon DEF IsItems
  <1>. QED  BY <1>2

LEMMA NoObject ==
  ASSUME NEW t \in Seq(STRING), Len(t) \in Nat, NEW i \in 1 .. Len(t) + 1,
         NEW h \in i .. Len(t), Blank(t, i, h - 1),
         t[h] \notin Space, t[h] # Quote, NEW e \in h .. Len(t)
  PROVE  Means(t)[<<"object", i, e>>] = {}
  <1>0. Len(t) \in Nat /\ e \in 0 .. Len(t)
    BY LenProperties
  <1>1. ~Blank(t, i, e)
    <2>1. h \in i .. e
      BY <1>0
    <2>. QED  BY <2>1 DEF Blank
  <1>2. ASSUME NEW w \in Means(t)[<<"object", i, e>>]  PROVE FALSE
    <2>1. IsMembers(t, Means(t), i, e, w)
      BY <1>0, <1>1, <1>2, ObjectAt, InMembers
    <2>2. PICK c \in i .. e : /\ ~Blank(t, i, c - 1)
                              /\ \E key : key \in Quoted(t, First(t, i, c - 1), Last(t, i, c - 1))
      BY <2>1, Zenon DEF IsMembers
    <2>3. h <= c - 1
      BY <1>0, <2>2 DEF Blank
    <2>4. PICK j \in Nat : j = c - 1
      BY <1>0
    <2>5. First(t, i, j) = h
      <3>1. i \in Nat /\ h \in i .. j
        BY <1>0, <2>3, <2>4
      <3>. QED  BY <2>4, <3>1, FirstIs
    <2>. QED  BY <2>2, <2>4, <2>5 DEF Quoted, Quote
  <1>. QED  BY <1>2

\* The closing bracket ends its list.
LEMMA CloserFirst ==
  ASSUME NEW t \in Seq(STRING), Len(t) \in Nat, NEW list \in Lists, NEW i \in 1 .. Len(t) + 1,
         NEW h \in i .. Len(t),
         Blank(t, i, h - 1), t[h] = Right[list], NEW E \in 1 .. Len(t), t[E] = Right[list]
  PROVE  AtLoop(t, list, i)[E] = IF E = h THEN {<<>>} ELSE {}
  <1>0. Len(t) \in Nat
    BY LenProperties
  <1>1. t[h] \in Enders /\ t[h] # Quote /\ t[h] \notin Space /\ t[E] \notin Space
    BY RightIs DEF Enders, Quote
  <1>2. AtLoop(t, list, i)[E] = IF i <= E THEN Means(t)[<<list, i, E - 1>>] ELSE {}
    BY DEF AtLoop
  <1>3. CASE E < h
    <2>1. ~(i <= E)
      BY <1>0, <1>1, <1>3 DEF Blank
    <2>. QED  BY <1>0, <1>2, <1>3, <2>1
  <1>4. CASE E = h
    <2>1. E - 1 \in 0 .. Len(t) /\ i <= E
      BY <1>0, <1>4
    <2>. QED  BY <1>0, <1>2, <1>4, <2>1, ListBlank
  <1>5. CASE E > h
    <2>1. E - 1 \in h .. Len(t) /\ i <= E
      BY <1>0, <1>5
    <2>2. Means(t)[<<list, i, E - 1>>] = {}
      <3>2. CASE list = "array"
        BY <1>1, <2>1, <3>2, NoArray
      <3>3. CASE list = "object"
        BY <1>1, <2>1, <3>3, NoObject
      <3>. QED  BY <3>2, <3>3 DEF Lists
    <2>. QED  BY <1>0, <1>2, <1>5, <2>1, <2>2
  <1>. QED  BY <1>0, <1>3, <1>4, <1>5
-----------------------------------------------------------------------------
(* A list goes on behind a comma, a key behind a colon. *)

\* After the value v, the list goes on behind the comma, ...
LEMMA AfterComma ==
  ASSUME NEW t \in Seq(STRING), Len(t) \in Nat, NEW list \in Lists, NEW key, NEW c \in 1 .. Len(t) + 1,
         NEW p \in c .. Len(t), NEW v, Returned(t, c, p, v),
         NEW h \in p + 1 .. Len(t), Blank(t, p + 1, h - 1), t[h] = Comma,
         NEW E \in 1 .. Len(t), t[E] = Right[list], NEW m
  PROVE  m \in AtValue(t, list, key, c)[E] <=>
           \E rest \in AtLoop(t, list, h + 1)[E] : m = Joined(list, key, v, rest)
  <1>1. t[h] \notin Space /\ t[E] \notin Space /\ t[E] # Comma
    BY RightIs DEF Space, Comma
  <1>2. PICK d \in 0 .. Len(t) : d = E - 1
    OBVIOUS
  <1>3. Sep(t, d)
    BY <1>2, SepBefore, RightIs
  <1>4. \A w : w \in Means(t)[<<"value", c, d>>] <=> p <= d /\ Blank(t, p + 1, d) /\ w = v
    BY <1>3 DEF Returned
  <1>5. ~(p <= d /\ Blank(t, p + 1, d))
    <2>1. ASSUME p <= d, Blank(t, p + 1, d)  PROVE FALSE
      <3>1. p + 1 <= E /\ p + 1 <= h /\ p + 1 \in Int
        BY <1>2, <2>1
      <3>2. E = h
        BY <1>1, <1>2, <2>1, <3>1, SameFirst
      <3>. QED  BY <1>1, <3>2
    <2>. QED  BY <2>1
  <1>6. ASSUME NEW k \in c .. d, t[k] = Comma
        PROVE  \A w : w \in Means(t)[<<"value", c, k - 1>>] <=> k = h /\ w = v
    <2>1. PICK j \in 0 .. Len(t) : j = k - 1
      BY <1>2
    <2>2. Sep(t, j) /\ k \in 1 .. Len(t)
      <3>1. k \in 1 .. Len(t)
        BY <1>2
      <3>2. t[k] \in {",", "]", "}"}
        BY <1>6 DEF Comma
      <3>. QED  BY <2>1, <3>1, <3>2, SepBefore
    <2>3. \A w : w \in Means(t)[<<"value", c, j>>] <=> p <= j /\ Blank(t, p + 1, j) /\ w = v
      BY <2>2 DEF Returned
    <2>4. p <= j /\ Blank(t, p + 1, j) <=> k = h
      <3>1. ASSUME p <= j, Blank(t, p + 1, j)  PROVE k = h
        <4>1. p + 1 <= k /\ p + 1 <= h /\ p + 1 \in Int /\ t[k] \notin Space
          BY <1>1, <1>6, <2>1, <3>1
        <4>. QED  BY <1>1, <2>1, <3>1, <4>1, SameFirst
      <3>2. k = h => p <= j /\ Blank(t, p + 1, j)
        BY <2>1
      <3>. QED  BY <3>1, <3>2
    <2>. QED  BY <2>1, <2>3, <2>4
  <1> DEFINE After == \E rest \in Means(t)[<<list, h + 1, d>>] : m = Joined(list, key, v, rest)
  <1>7. IsItems(t, Means(t), list, key, c, d, m) <=> h \in c .. d /\ After
    <2>1. Means(t)[<<"value", c, d>>] = {}
      BY <1>4, <1>5
    <2>2. \A k \in c .. d : t[k] = Comma <=> t[k] = ","
      BY DEF Comma
    <2>3. IsItems(t, Means(t), list, key, c, d, m) <=>
            \E k \in c .. d :
              /\ t[k] = Comma
              /\ \E w \in Means(t)[<<"value", c, k - 1>>], rest \in Means(t)[<<list, k + 1, d>>] :
                   m = Joined(list, key, w, rest)
      BY <2>1, <2>2, Zenon DEF IsItems
    <2>. QED  BY <1>6, <2>3, Zenon
  <1>8. AtValue(t, list, key, c)[E] = IF c <= E THEN Items(t, Means(t), list, key, c, d) ELSE {}
    BY <1>2 DEF AtValue
  <1>9. AtLoop(t, list, h + 1)[E] = IF h + 1 <= E THEN Means(t)[<<list, h + 1, d>>] ELSE {}
    BY <1>2 DEF AtLoop
  <1>10. h \in c .. d <=> h + 1 <= E
    BY <1>2
  <1>11. h + 1 <= E => c <= E
    OBVIOUS
  <1>12. m \in AtValue(t, list, key, c)[E] <=> c <= E /\ IsItems(t, Means(t), list, key, c, d, m)
    BY <1>8, InItems
  <1>13. (\E rest \in AtLoop(t, list, h + 1)[E] : m = Joined(list, key, v, rest)) <=> h + 1 <= E /\ After
    BY <1>9
  <1>. HIDE DEF After
  <1>. QED  BY <1>7, <1>10, <1>11, <1>12, <1>13

\* ... unless there is none: then it ends, or does not.
LEMMA AfterLast ==
  ASSUME NEW t \in Seq(STRING), Len(t) \in Nat, NEW list \in Lists, NEW key, NEW c \in 1 .. Len(t) + 1,
         NEW p \in c .. Len(t), NEW v, Returned(t, c, p, v),
         \A h \in p + 1 .. Len(t) : Blank(t, p + 1, h - 1) => t[h] # Comma,
         NEW E \in 1 .. Len(t), t[E] = Right[list], NEW m
  PROVE  m \in AtValue(t, list, key, c)[E] <=>
           p < E /\ Blank(t, p + 1, E - 1) /\ m = Joined(list, key, v, <<>>)
  <1>2. PICK d \in 0 .. Len(t) : d = E - 1
    OBVIOUS
  <1>3. Sep(t, d)
    BY <1>2, SepBefore, RightIs
  <1>4. \A w : w \in Means(t)[<<"value", c, d>>] <=> p <= d /\ Blank(t, p + 1, d) /\ w = v
    BY <1>3 DEF Returned
  <1>5. ASSUME NEW k \in c .. d, t[k] = Comma
        PROVE  Means(t)[<<"value", c, k - 1>>] = {}
    <2>1. PICK j \in 0 .. Len(t) : j = k - 1
      BY <1>2
    <2>2. Sep(t, j)
      <3>1. k \in 1 .. Len(t)
        BY <1>2
      <3>2. t[k] \in {",", "]", "}"}
        BY <1>5 DEF Comma
      <3>. QED  BY <2>1, <3>1, <3>2, SepBefore
    <2>3. \A w : w \in Means(t)[<<"value", c, j>>] <=> p <= j /\ Blank(t, p + 1, j) /\ w = v
      BY <2>2 DEF Returned
    <2>4. ~(p <= j /\ Blank(t, p + 1, j))
      <3>1. p <= j => k \in p + 1 .. Len(t)
        BY <1>2, <2>1
      <3>. QED  BY <1>5, <2>1, <3>1
    <2>. QED  BY <2>1, <2>3, <2>4
  <1>6. IsItems(t, Means(t), list, key, c, d, m) <=>
          p <= d /\ Blank(t, p + 1, d) /\ m = Joined(list, key, v, <<>>)
    <2>2. \A k \in c .. d : t[k] = "," => Means(t)[<<"value", c, k - 1>>] = {}
      BY <1>5 DEF Comma
    <2>3. IsItems(t, Means(t), list, key, c, d, m) <=>
            \E w \in Means(t)[<<"value", c, d>>] : m = Joined(list, key, w, <<>>)
      BY <2>2, Zenon DEF IsItems
    <2>. QED  BY <1>4, <2>3, Zenon
  <1>7. AtValue(t, list, key, c)[E] = IF c <= E THEN Items(t, Means(t), list, key, c, d) ELSE {}
    BY <1>2 DEF AtValue
  <1>8. m \in AtValue(t, list, key, c)[E] <=> c <= E /\ IsItems(t, Means(t), list, key, c, d, m)
    BY <1>7, InItems
  <1>9. (p <= d <=> p < E) /\ (p < E => c <= E)
    BY <1>2
  <1>. QED  BY <1>2, <1>6, <1>8, <1>9

\* The loop of an array waits for a value.
LEMMA LoopArray ==
  ASSUME NEW t \in Seq(STRING), Len(t) \in Nat, NEW key, NEW c \in 1 .. Len(t) + 1,
         NEW h \in c .. Len(t), Blank(t, c, h - 1), t[h] \notin Space, t[h] # Right["array"],
         NEW E \in 1 .. Len(t), t[E] = Right["array"]
  PROVE  AtLoop(t, "array", c)[E] = AtValue(t, "array", key, c)[E]
  <1>1. t[E] \notin Space /\ "array" \in Lists
    <2>1. "array" \in Lists
      BY DEF Lists
    <2>. QED  BY <2>1, RightIs
  <1>2. PICK d \in 0 .. Len(t) : d = E - 1
    OBVIOUS
  <1>3. AtLoop(t, "array", c)[E] = IF c <= E THEN Means(t)[<<"array", c, d>>] ELSE {}
    BY <1>2 DEF AtLoop
  <1>4. AtValue(t, "array", key, c)[E] = IF c <= E THEN Items(t, Means(t), "array", key, c, d) ELSE {}
    BY <1>2 DEF AtValue
  <1>5. ASSUME c <= E  PROVE Means(t)[<<"array", c, d>>] = Items(t, Means(t), "array", key, c, d)
    <2>1. ~Blank(t, c, d)
      <3>1. ASSUME Blank(t, c, d)  PROVE FALSE
        <4>1. c <= h /\ c \in Int /\ E \in Int /\ h \in Int /\ E - 1 = d
          BY <1>2
        <4>2. E = h
          BY <1>1, <1>5, <3>1, <4>1, SameFirst, Zenon
        <4>. QED  BY <4>2
      <3>. QED  BY <3>1
    <2>2. Means(t)[<<"array", c, d>>] = Items(t, Means(t), "array", <<>>, c, d)
      BY <2>1, ArrayAt
    <2>3. \A v, rest : Joined("array", <<>>, v, rest) = Joined("array", key, v, rest)
      BY DEF Joined
    <2>4. ASSUME NEW w
          PROVE  IsItems(t, Means(t), "array", <<>>, c, d, w) <=> IsItems(t, Means(t), "array", key, c, d, w)
      BY <2>3, Zenon DEF IsItems
    <2>5. \A w : w \in Items(t, Means(t), "array", <<>>, c, d) <=> w \in Items(t, Means(t), "array", key, c, d)
      BY <2>4, InItems
    <2>. QED  BY <2>2, <2>5
  <1>. QED  BY <1>3, <1>4, <1>5

\* The loop of an object waits for a key.
LEMMA LoopObject ==
  ASSUME NEW t \in Seq(STRING), Len(t) \in Nat, NEW c \in 1 .. Len(t) + 1,
         NEW h \in c .. Len(t), Blank(t, c, h - 1), t[h] = Quote,
         NEW E \in 1 .. Len(t), t[E] = Right["object"]
  PROVE  AtLoop(t, "object", c)[E] = AtKey(t, <<>>, h)[E]
  <1>1. t[E] \notin Space /\ t[h] \notin Space /\ t[E] # Quote
    <2>1. "object" \in Lists
      BY DEF Lists
    <2>2. t[E] \in {"]", "}"}
      BY <2>1, RightIs
    <2>. QED  BY <2>2 DEF Quote, Space
  <1>2. PICK d \in 0 .. Len(t) : d = E - 1
    OBVIOUS
  <1>3. AtLoop(t, "object", c)[E] = IF c <= E THEN Means(t)[<<"object", c, d>>] ELSE {}
    BY <1>2 DEF AtLoop
  <1> DEFINE Pair(q, k, key, w) == /\ t[q] = "\"" /\ key \in Spelt(t, q)[h + 1]
                                   /\ t[k] = ":" /\ Blank(t, q + 1, k - 1)
                                   /\ w \in Items(t, Means(t), "object", key, k + 1, d)
             Pairs(w) == \E q \in h + 1 .. d : \E k \in q + 1 .. d : \E key : Pair(q, k, key, w)
  <1>4. ASSUME NEW w  PROVE w \in AtKey(t, <<>>, h)[E] <=> Pairs(w)
    <2>1. w \in AtKey(t, <<>>, h)[E] <=>
            \E q \in h + 1 .. d : t[q] = "\"" /\ \E r \in Spelt(t, q)[h + 1] : w \in AtColon(t, <<>> \o r, q)[E]
      BY <1>2, InKey
    <2>2. ASSUME NEW q \in h + 1 .. d, NEW r \in Spelt(t, q)[h + 1]
          PROVE  w \in AtColon(t, <<>> \o r, q)[E] <=>
                   \E k \in q + 1 .. d : /\ t[k] = ":" /\ Blank(t, q + 1, k - 1)
                                         /\ w \in Items(t, Means(t), "object", r, k + 1, d)
      <3>1. q \in Nat /\ h + 1 \in 1 .. q + 1
        OBVIOUS
      <3>2. IsSequence(r)
        BY <3>1, SpeltType
      <3>3. <<>> \o r = r
        BY <3>2, ConcatEmptySeq DEF IsSequence
      <3>4. w \in AtColon(t, r, q)[E] <=>
                   \E k \in q + 1 .. d : /\ t[k] = ":" /\ Blank(t, q + 1, k - 1)
                                         /\ w \in Items(t, Means(t), "object", r, k + 1, d)
        BY <1>2, InColon
      <3>. QED  BY <3>3, <3>4
    <2>. QED  BY <2>1, <2>2, Zenon
  <1>5. ASSUME c <= E, NEW w  PROVE w \in Means(t)[<<"object", c, d>>] <=> Pairs(w)
    <2>1. h <= d /\ ~Blank(t, c, d)
      <3>1. ASSUME Blank(t, c, d)  PROVE FALSE
        <4>1. c <= h /\ c \in Int
          OBVIOUS
        <4>2. E = h
          BY <1>1, <1>2, <1>5, <3>1, <4>1, SameFirst
        <4>. QED  BY <1>1, <4>2
      <3>2. h > d => Blank(t, c, d)
        BY DEF Blank
      <3>. QED  BY <3>1, <3>2
    <2>2. w \in Means(t)[<<"object", c, d>>] <=> IsMembers(t, Means(t), c, d, w)
      BY <2>1, ObjectAt, InMembers
    <2> DEFINE KeyAt(k) == Quoted(t, First(t, c, k - 1), Last(t, c, k - 1))
    <2>3. ASSUME NEW k \in c .. d, ~Blank(t, c, k - 1), NEW key \in KeyAt(k)
          PROVE  \E q \in h + 1 .. d : /\ t[q] = "\"" /\ key \in Spelt(t, q)[h + 1]
                                       /\ k \in q + 1 .. d /\ Blank(t, q + 1, k - 1)
      <3>1. PICK j \in Nat : j = k - 1
        BY <1>2
      <3>2. h \in c .. j /\ c \in Nat
        <4>1. h <= j
          BY <2>3, <3>1 DEF Blank
        <4>. QED  BY <4>1
      <3>3. First(t, c, j) = h
        BY <1>1, <3>2, FirstIs
      <3>4. PICK q \in c .. j : q = Last(t, c, j) /\ Blank(t, q + 1, j)
        BY <2>3, <3>1, <3>2, LastExists
      <3>5. h < q /\ t[q] = "\"" /\ key \in Spelt(t, q)[h + 1]
        BY <2>3, <3>1, <3>3, <3>4 DEF Quoted
      <3>6. q \in h + 1 .. d /\ k \in q + 1 .. d
        <4>1. h < q
          BY <3>5
        <4>. QED  BY <3>1, <3>4, <4>1
      <3>. QED  BY <3>1, <3>4, <3>5, <3>6, Zenon
    <2>4. ASSUME NEW q \in h + 1 .. d, NEW k \in q + 1 .. d, t[q] = Quote, Blank(t, q + 1, k - 1),
                 NEW key \in Spelt(t, q)[h + 1]
          PROVE  k \in c .. d /\ ~Blank(t, c, k - 1) /\ key \in KeyAt(k)
      <3>1. PICK j \in Nat : j = k - 1 /\ q \in c .. j /\ h \in c .. j
        OBVIOUS
      <3>2. t[q] \notin Space
        BY <2>4 DEF Space, Quote
      <3>3. ~Blank(t, c, j) /\ First(t, c, j) = h
        <4>1. c \in Nat
          OBVIOUS
        <4>. QED  BY <1>1, <3>1, <4>1, FirstIs
      <3>4. Last(t, c, j) = q
        BY <2>4, <3>1, <3>2, LastIs
      <3>5. k \in c .. d /\ h < q
        OBVIOUS
      <3>. QED  BY <2>4, <3>1, <3>3, <3>4, <3>5 DEF Quoted, Quote
    <2>. HIDE DEF KeyAt
    <2>5. IsMembers(t, Means(t), c, d, w) <=>
            \E k \in c .. d : /\ t[k] = ":" /\ ~Blank(t, c, k - 1)
                              /\ \E key \in KeyAt(k) : w \in Items(t, Means(t), "object", key, k + 1, d)
      BY Zenon DEF IsMembers, KeyAt
    <2>. QED  BY <2>2, <2>3, <2>4, <2>5, Zenon DEF Quote
  <1>6. ASSUME ~(c <= E), NEW w  PROVE ~Pairs(w)
    <2>1. h + 1 .. d = {}
      BY <1>2, <1>6
    <2>. HIDE DEF Pair
    <2>. QED  BY <2>1
  <1>. HIDE DEF Pairs
  <1>7. \A w : w \in AtLoop(t, "object", c)[E] <=> w \in AtKey(t, <<>>, h)[E]
    BY <1>3, <1>4, <1>5, <1>6
  <1>. QED  BY <1>7

\* Behind the colon, a value.
LEMMA ColonValue ==
  ASSUME NEW t \in Seq(STRING), Len(t) \in Nat, NEW key, NEW p \in 0 .. Len(t),
         NEW h \in p + 1 .. Len(t), Blank(t, p + 1, h - 1), t[h] = Colon,
         NEW E \in 1 .. Len(t)
  PROVE  AtColon(t, key, p)[E] = AtValue(t, "object", key, h + 1)[E]
  <1>1. \A k \in p + 1 .. E - 1 : t[k] = ":" /\ Blank(t, p + 1, k - 1) <=> k = h
    <2>1. t[h] \notin Space /\ t[h] = ":"
      BY DEF Colon, Space
    <2>2. ASSUME NEW k \in p + 1 .. E - 1, t[k] = Colon, Blank(t, p + 1, k - 1)  PROVE k = h
      <3>1. p + 1 <= k /\ p + 1 <= h /\ p + 1 \in Int
        OBVIOUS
      <3>2. t[k] \notin Space
        BY <2>2 DEF Colon, Space
      <3>. QED  BY <2>1, <2>2, <3>1, <3>2, SameFirst
    <2>. QED  BY <2>1, <2>2, Zenon DEF Colon
  <1>2. AtValue(t, "object", key, h + 1)[E] = IF h + 1 <= E THEN Items(t, Means(t), "object", key, h + 1, E - 1) ELSE {}
    BY DEF AtValue
  <1>3. h \in p + 1 .. E - 1 <=> h + 1 <= E
    OBVIOUS
  <1>4. ASSUME NEW m  PROVE m \in AtColon(t, key, p)[E] <=> m \in AtValue(t, "object", key, h + 1)[E]
    <2>1. m \in AtColon(t, key, p)[E] <=>
           \E k \in p + 1 .. E - 1 : /\ t[k] = ":" /\ Blank(t, p + 1, k - 1)
                                     /\ m \in Items(t, Means(t), "object", key, k + 1, E - 1)
      BY InColon
    <2>2. m \in AtColon(t, key, p)[E] <=>
             h \in p + 1 .. E - 1 /\ m \in Items(t, Means(t), "object", key, h + 1, E - 1)
      BY <1>1, <2>1, Zenon
    <2>. QED  BY <1>2, <1>3, <2>2
  <1>. QED  BY <1>4

\* Without a colon, there is nothing behind it.
LEMMA NoColon ==
  ASSUME NEW t, NEW key, NEW p, NEW E \in 1 .. Len(t), Len(t) \in Nat,
         \A h \in p + 1 .. Len(t) : Blank(t, p + 1, h - 1) => t[h] # Colon
  PROVE  AtColon(t, key, p)[E] = {}
  <1>1. ASSUME NEW m \in AtColon(t, key, p)[E]  PROVE FALSE
    <2>1. PICK k \in p + 1 .. E - 1 : t[k] = ":" /\ Blank(t, p + 1, k - 1)
      BY <1>1, InColon
    <2>2. k \in p + 1 .. Len(t)
      OBVIOUS
    <2>. QED  BY <2>1, <2>2 DEF Colon
  <1>. QED  BY <1>1
-----------------------------------------------------------------------------
(* A string grows by what one round of the loop of parse_string reads. *)

Backslash == "\\"

\* A character of a string, or two that stand for one: x is read from n.
OneMore(t, p, n, x) ==
  \/ n = 1 /\ t[p + 1] \notin {Quote, Backslash} /\ x = t[p + 1]
  \/ n = 2 /\ t[p + 1] = Backslash /\ t[p + 2] \in Escapable /\ x = Unescaped(t[p + 2])

\* x, and what can be read from i on.
Preceding(t, x, q, i, r) == \E rest \in Spelt(t, q)[i] : r = <<x>> \o rest

\* What is spelt from p on, when one more is read, ...
LEMMA SpeltMore ==
  ASSUME NEW t, NEW p \in Nat, NEW q \in Nat, q > p, t[q] = Quote,
         NEW n \in {1, 2}, NEW x, OneMore(t, p, n, x), NEW r
  PROVE  r \in Spelt(t, q)[p + 1] <=> q > p + n /\ Preceding(t, x, q, p + n + 1, r)
  <1>0. /\ n = 1 => t[p + 1] \notin {Quote, Backslash} /\ x = t[p + 1]
        /\ n = 2 => t[p + 1] = Backslash /\ t[p + 2] \in Escapable /\ x = Unescaped(t[p + 2])
    BY DEF OneMore
  <1>1. PICK i \in 1 .. q : i = p + 1 /\ i + 1 = p + 2 /\ i + 2 = p + 3
    OBVIOUS
  <1>2. Spelt(t, q)[i] = Spells(t, q, Spelt(t, q), i)
    BY SpeltAt
  <1>3. i < q
    <2>1. t[i] # Quote
      BY <1>1 DEF OneMore, Quote, Backslash
    <2>2. i # q
      BY <2>1
    <2>. QED  BY <2>2
  <1>4. Quote = "\"" /\ Backslash = "\\" /\ "\"" # "\\"
    BY DEF Quote, Backslash
  <1>5. CASE n = 1
    <2>1. t[i] # "\"" /\ t[i] # "\\" /\ x = t[i]
      <3>1. t[i] # Quote /\ t[i] # Backslash /\ x = t[i]
        BY <1>0, <1>1, <1>5
      <3>. QED  BY <1>4, <3>1, Zenon
    <2>2. ~(i >= q)
      BY <1>3
    <2>3. Spelt(t, q)[i] = {<<x>> \o rest : rest \in Spelt(t, q)[i + 1]}
      BY <1>2, <2>1, <2>2, Zenon DEF Spells
    <2>4. p + n + 1 = i + 1 /\ q > p + n
      BY <1>1, <1>3, <1>5
    <2>5. r \in Spelt(t, q)[i] <=> \E rest \in Spelt(t, q)[i + 1] : r = <<x>> \o rest
      BY <2>3
    <2>. QED  BY <1>1, <2>4, <2>5 DEF Preceding
  <1>6. CASE n = 2
    <2>1. t[i] = "\\" /\ t[i + 1] \in Escapable /\ x = Unescaped(t[i + 1])
      <3>1. t[i] = Backslash /\ t[i + 1] \in Escapable /\ x = Unescaped(t[i + 1])
        BY <1>0, <1>1, <1>6
      <3>. QED  BY <1>4, <3>1, Zenon
    <2>2. ~(i >= q)
      BY <1>3
    <2>3. Spelt(t, q)[i] = {<<x>> \o rest : rest \in Spelt(t, q)[i + 2]}
      <3>1. t[i] # "\""
        BY <1>4, <2>1
      <3>. QED  BY <1>2, <2>1, <2>2, <3>1, Zenon DEF Spells
    <2>4. p + n + 1 = i + 2 /\ (q > p + n <=> q # i + 1)
      BY <1>1, <1>3, <1>6
    <2>5. q = i + 1 => Spelt(t, q)[i + 2] = {}
      <3>1. ASSUME q = i + 1  PROVE Spelt(t, q)[i + 2] = {}
        <4>1. i + 2 \in 1 .. q + 1 /\ i + 2 >= q /\ {i + 2} \cap {q} = {}
          BY <3>1
        <4>2. Spelt(t, q)[i + 2] = Spells(t, q, Spelt(t, q), i + 2)
          BY <4>1, SpeltAt
        <4>. QED  BY <4>1, <4>2 DEF Spells
      <3>. QED  BY <3>1
    <2>6. r \in Spelt(t, q)[i] <=> \E rest \in Spelt(t, q)[i + 2] : r = <<x>> \o rest
      BY <2>3
    <2>7. r \in Spelt(t, q)[i] <=> q > p + n /\ \E rest \in Spelt(t, q)[i + 2] : r = <<x>> \o rest
      <3>1. CASE q = i + 1
        BY <2>4, <2>5, <2>6, <3>1
      <3>2. CASE q # i + 1
        BY <2>4, <2>6, <3>2
      <3>. QED  BY <3>1, <3>2
    <2>. QED  BY <1>1, <2>4, <2>7 DEF Preceding
  <1>. QED  BY <1>5, <1>6

\* ... when what stands there cannot be, ...
LEMMA SpeltNoMore ==
  ASSUME NEW t, Len(t) \in Nat, NEW p \in Nat, NEW q \in p + 1 .. Len(t), t[q] = Quote,
         t[p + 1] = Backslash, ~(p + 2 <= Len(t) /\ t[p + 2] \in Escapable)
  PROVE  Spelt(t, q)[p + 1] = {}
  <1>1. PICK i \in 1 .. q : i = p + 1 /\ i + 1 = p + 2
    OBVIOUS
  <1>2. Spelt(t, q)[i] = Spells(t, q, Spelt(t, q), i)
    BY SpeltAt
  <1>3. Quote = "\"" /\ Backslash = "\\" /\ "\"" # "\\"
    BY DEF Quote, Backslash
  <1>4. i # q
    BY <1>1, <1>3
  <1>5. t[i] = "\\" /\ t[i] # "\"" /\ t[i + 1] \notin Escapable /\ ~(i >= q)
    <2>1. i < q /\ p + 2 <= Len(t)
      BY <1>1, <1>4
    <2>2. ~(i >= q)
      BY <2>1
    <2>. QED  BY <1>1, <1>3, <2>1, <2>2
  <1>. QED  BY <1>1, <1>2, <1>5, Zenon DEF Spells

\* ... and when the quote stands there.
LEMMA SpeltEnd ==
  ASSUME NEW t, NEW p \in Nat, t[p + 1] = Quote, NEW q \in Nat, q > p
  PROVE  Spelt(t, q)[p + 1] = IF q = p + 1 THEN {<<>>} ELSE {}
  <1>1. PICK i \in 1 .. q : i = p + 1
    OBVIOUS
  <1>2. Spelt(t, q)[i] = Spells(t, q, Spelt(t, q), i)
    BY SpeltAt
  <1>3. CASE q = i
    <2>1. i >= q /\ {i} \cap {q} = {q}
      BY <1>3
    <2>2. {<<>> : k \in {q}} = {<<>>}
      OBVIOUS
    <2>. QED  BY <1>1, <1>2, <1>3, <2>1, <2>2 DEF Spells
  <1>4. CASE q # i
    <2>1. ~(i >= q)
      BY <1>4
    <2>2. t[i] = "\""
      BY <1>1 DEF Quote
    <2>. QED  BY <1>1, <1>2, <1>4, <2>1, <2>2 DEF Spells
  <1>. QED  BY <1>3, <1>4

\* What can be read behind s.
Whole(t, s, p, q, y) == \E r \in Spelt(t, q)[p + 1] : y = s \o r

\* So the whole of a string stays what it is when one more is read.
LEMMA WholeMore ==
  ASSUME NEW t, NEW p \in Nat, NEW s, IsSequence(s), NEW q \in Nat, q > p, t[q] = Quote,
         NEW n \in {1, 2}, NEW x, OneMore(t, p, n, x), NEW y
  PROVE  Whole(t, s, p, q, y) <=> q > p + n /\ Whole(t, Append(s, x), p + n, q, y)
  <1>1. ASSUME NEW r
        PROVE  r \in Spelt(t, q)[p + 1] <=> q > p + n /\ Preceding(t, x, q, p + n + 1, r)
    BY SpeltMore
  <1>2. ASSUME q > p + n, NEW rest \in Spelt(t, q)[p + n + 1]
        PROVE  s \o (<<x>> \o rest) = Append(s, x) \o rest
    <2>1. PICK i \in 1 .. q + 1 : i = p + n + 1
      BY <1>2
    <2>2. IsSequence(rest)
      BY <1>2, <2>1, SpeltType
    <2>. QED  BY <2>2, InARow
  <1>3. ASSUME Whole(t, s, p, q, y)  PROVE q > p + n /\ Whole(t, Append(s, x), p + n, q, y)
    <2>1. PICK r \in Spelt(t, q)[p + 1] : y = s \o r
      BY <1>3, Zenon DEF Whole
    <2>2. PICK rest \in Spelt(t, q)[p + n + 1] : q > p + n /\ r = <<x>> \o rest
      BY <1>1, <2>1, Zenon DEF Preceding
    <2>3. y = Append(s, x) \o rest
      BY <1>2, <2>1, <2>2, Zenon
    <2>. QED  BY <2>2, <2>3, Zenon DEF Whole
  <1>4. ASSUME q > p + n, Whole(t, Append(s, x), p + n, q, y)  PROVE Whole(t, s, p, q, y)
    <2>1. PICK rest \in Spelt(t, q)[p + n + 1] : y = Append(s, x) \o rest
      BY <1>4, Zenon DEF Whole
    <2>2. <<x>> \o rest \in Spelt(t, q)[p + 1]
      BY <1>1, <1>4, <2>1, Zenon DEF Preceding
    <2>3. y = s \o (<<x>> \o rest)
      BY <1>2, <1>4, <2>1, Zenon
    <2>. QED  BY <2>2, <2>3, Zenon DEF Whole
  <1>. QED  BY <1>3, <1>4, Zenon

\* One more character of a key, and its end.
LEMMA InWhole ==
  ASSUME NEW t, NEW p, NEW s, NEW E \in 1 .. Len(t), NEW m
  PROVE  m \in AtKey(t, s, p)[E] <=>
           \E q \in p + 1 .. E - 1 :
             t[q] = "\"" /\ \E y : Whole(t, s, p, q, y) /\ m \in AtColon(t, y, q)[E]
  <1>1. m \in AtKey(t, s, p)[E] <=>
           \E q \in p + 1 .. E - 1 : /\ t[q] = "\""
                                     /\ \E r \in Spelt(t, q)[p + 1] : m \in AtColon(t, s \o r, q)[E]
    BY InKey
  <1>2. ASSUME NEW q
        PROVE  (\E r \in Spelt(t, q)[p + 1] : m \in AtColon(t, s \o r, q)[E])
                 <=> \E y : Whole(t, s, p, q, y) /\ m \in AtColon(t, y, q)[E]
    BY Zenon DEF Whole
  <1>. QED  BY <1>1, <1>2, Zenon

\* What follows a key, when one more is read of it, ...
LEMMA KeyMore ==
  ASSUME NEW t, Len(t) \in Nat, NEW p \in Nat, NEW s, IsSequence(s),
         NEW n \in {1, 2}, NEW x, OneMore(t, p, n, x), NEW E \in 1 .. Len(t)
  PROVE  AtKey(t, s, p)[E] = AtKey(t, Append(s, x), p + n)[E]
  <1>1. ASSUME NEW y, NEW q \in p + 1 .. E - 1, t[q] = Quote
        PROVE  Whole(t, s, p, q, y) <=> q > p + n /\ Whole(t, Append(s, x), p + n, q, y)
    <2>1. q \in Nat /\ q > p
      OBVIOUS
    <2>. QED  BY <1>1, <2>1, WholeMore
  <1>2. \A q \in p + 1 .. E - 1 : q > p + n => q \in p + n + 1 .. E - 1
    OBVIOUS
  <1>3. \A q \in p + n + 1 .. E - 1 : q > p + n /\ q \in p + 1 .. E - 1
    OBVIOUS
  <1>4. ASSUME NEW m
        PROVE  m \in AtKey(t, s, p)[E] <=> m \in AtKey(t, Append(s, x), p + n)[E]
    <2>1. m \in AtKey(t, s, p)[E] <=>
            \E q \in p + 1 .. E - 1 : t[q] = "\"" /\ \E y : Whole(t, s, p, q, y) /\ m \in AtColon(t, y, q)[E]
      BY InWhole
    <2>2. m \in AtKey(t, Append(s, x), p + n)[E] <=>
            \E q \in p + n + 1 .. E - 1 :
              t[q] = "\"" /\ \E y : Whole(t, Append(s, x), p + n, q, y) /\ m \in AtColon(t, y, q)[E]
      BY InWhole
    <2>. QED  BY <1>1, <1>2, <1>3, <2>1, <2>2, Zenon DEF Quote
  <1>. QED  BY <1>4

\* ... and when its quote is read.
LEMMA KeyEnd ==
  ASSUME NEW t, Len(t) \in Nat, NEW p \in Nat, NEW s, IsSequence(s), t[p + 1] = Quote,
         NEW E \in 1 .. Len(t)
  PROVE  AtKey(t, s, p)[E] = AtColon(t, s, p + 1)[E]
  <1>1. ASSUME NEW m  PROVE m \in AtKey(t, s, p)[E] <=> m \in AtColon(t, s, p + 1)[E]
    <2>1. m \in AtKey(t, s, p)[E] <=>
            \E q \in p + 1 .. E - 1 : /\ t[q] = "\""
                                      /\ \E r \in Spelt(t, q)[p + 1] : m \in AtColon(t, s \o r, q)[E]
      BY InKey, Zenon
    <2>2. s \o <<>> = s
      BY ConcatEmptySeq DEF IsSequence
    <2>3. ASSUME NEW q \in p + 1 .. E - 1
          PROVE  Spelt(t, q)[p + 1] = IF q = p + 1 THEN {<<>>} ELSE {}
      <3>1. q \in Nat /\ q > p
        OBVIOUS
      <3>. QED  BY <3>1, SpeltEnd
    <2>4. m \in AtKey(t, s, p)[E] <=> p + 1 \in p + 1 .. E - 1 /\ m \in AtColon(t, s, p + 1)[E]
      <3>1. t[p + 1] = "\""
        BY DEF Quote
      <3>2. ASSUME NEW q \in p + 1 .. E - 1
            PROVE  (\E r \in Spelt(t, q)[p + 1] : m \in AtColon(t, s \o r, q)[E])
                     <=> q = p + 1 /\ m \in AtColon(t, s, q)[E]
        <4>1. CASE q = p + 1
          BY <2>2, <2>3, <4>1, Zenon
        <4>2. CASE q # p + 1
          <5>1. Spelt(t, q)[p + 1] = {}
            BY <2>3, <4>2
          <5>. QED  BY <4>2, <5>1
        <4>. QED  BY <4>1, <4>2
      <3>. QED  BY <2>1, <3>1, <3>2, Zenon
    <2>5. ASSUME m \in AtColon(t, s, p + 1)[E]  PROVE p + 1 \in p + 1 .. E - 1
      <3>1. \E c \in p + 1 + 1 .. E - 1 : TRUE
        BY <2>5, InColon
      <3>. QED  BY <3>1
    <2>. QED  BY <2>4, <2>5
  <1>. QED  BY <1>1

\* A key that does not end.
LEMMA KeyNever ==
  ASSUME NEW t, Len(t) \in Nat, NEW p \in Nat, NEW s, NEW E \in 1 .. Len(t),
         \A q \in p + 1 .. Len(t) : t[q] = Quote => Spelt(t, q)[p + 1] = {}
  PROVE  AtKey(t, s, p)[E] = {}
  <1>1. ASSUME NEW m \in AtKey(t, s, p)[E]  PROVE FALSE
    <2>1. PICK q \in p + 1 .. E - 1 : t[q] = "\"" /\ Spelt(t, q)[p + 1] # {}
      BY <1>1, InKey
    <2>2. q \in p + 1 .. Len(t)
      OBVIOUS
    <2>. QED  BY <2>1, <2>2 DEF Quote
  <1>. QED  BY <1>1
-----------------------------------------------------------------------------
(* The same for a value. *)

\* One more is read of a string, ...
LEMMA StringMore ==
  ASSUME NEW t, Len(t) \in Nat, NEW b, NEW p \in Nat, NEW s, IsSequence(s),
         NEW n \in {1, 2}, NEW x, OneMore(t, p, n, x), InString(t, b, s, p)
  PROVE  InString(t, b, Append(s, x), p + n)
  <1>1. ASSUME NEW e \in 0 .. Len(t), Sep(t, e), NEW w
        PROVE  w \in Means(t)[<<"value", b, e>>] <=>
             \E q \in p + n + 1 .. e :
               /\ t[q] = "\"" /\ Blank(t, q + 1, e)
               /\ \E r \in Spelt(t, q)[p + n + 1] : w = [String |-> Append(s, x) \o r]
    <2>1. w \in Means(t)[<<"value", b, e>>] <=>
             \E q \in p + 1 .. e :
               /\ t[q] = "\"" /\ Blank(t, q + 1, e)
               /\ \E r \in Spelt(t, q)[p + 1] : w = [String |-> s \o r]
      BY <1>1, Zenon DEF InString
    <2>2. w \in Means(t)[<<"value", b, e>>] <=>
             \E q \in p + 1 .. e :
               /\ t[q] = "\"" /\ Blank(t, q + 1, e)
               /\ \E y : Whole(t, s, p, q, y) /\ w = [String |-> y]
      BY <2>1, Zenon DEF Whole
    <2>3. ASSUME NEW y, NEW q \in p + 1 .. e, t[q] = Quote
          PROVE  Whole(t, s, p, q, y) <=> q > p + n /\ Whole(t, Append(s, x), p + n, q, y)
      <3>1. q \in Nat /\ q > p
        OBVIOUS
      <3>. QED  BY <2>3, <3>1, WholeMore
    <2>4. \A q \in p + 1 .. e : q > p + n => q \in p + n + 1 .. e
      OBVIOUS
    <2>5. \A q \in p + n + 1 .. e : q > p + n /\ q \in p + 1 .. e
      OBVIOUS
    <2>6. w \in Means(t)[<<"value", b, e>>] <=>
             \E q \in p + n + 1 .. e :
               /\ t[q] = "\"" /\ Blank(t, q + 1, e)
               /\ \E y : Whole(t, Append(s, x), p + n, q, y) /\ w = [String |-> y]
      BY <2>2, <2>3, <2>4, <2>5, Zenon DEF Quote
    <2>. QED  BY <2>6, Zenon DEF Whole
  <1>. QED  BY <1>1, Zenon DEF InString

\* ... or its quote, ...
LEMMA StringEnd ==
  ASSUME NEW t, Len(t) \in Nat, NEW b, NEW p \in Nat, NEW s, IsSequence(s), t[p + 1] = Quote,
         InString(t, b, s, p)
  PROVE  Returned(t, b, p + 1, [String |-> s])
  <1>1. ASSUME NEW e \in 0 .. Len(t), Sep(t, e), NEW w
        PROVE  w \in Means(t)[<<"value", b, e>>] <=>
                 p + 1 <= e /\ Blank(t, p + 1 + 1, e) /\ w = [String |-> s]
    <2>1. w \in Means(t)[<<"value", b, e>>] <=>
             \E q \in p + 1 .. e :
               /\ t[q] = "\"" /\ Blank(t, q + 1, e)
               /\ \E r \in Spelt(t, q)[p + 1] : w = [String |-> s \o r]
      BY <1>1, Zenon DEF InString
    <2>2. s \o <<>> = s /\ t[p + 1] = "\""
      BY ConcatEmptySeq DEF IsSequence, Quote
    <2>3. ASSUME NEW q \in p + 1 .. e
          PROVE  (\E r \in Spelt(t, q)[p + 1] : w = [String |-> s \o r]) <=> q = p + 1 /\ w = [String |-> s]
      <3>1. q \in Nat /\ q > p
        OBVIOUS
      <3>2. Spelt(t, q)[p + 1] = IF q = p + 1 THEN {<<>>} ELSE {}
        BY <3>1, SpeltEnd
      <3>. QED  BY <2>2, <3>2
    <2>4. w \in Means(t)[<<"value", b, e>>] <=>
            p + 1 \in p + 1 .. e /\ Blank(t, p + 1 + 1, e) /\ w = [String |-> s]
      BY <2>1, <2>2, <2>3, Zenon
    <2>. QED  BY <2>4
  <1>. QED  BY <1>1, Zenon DEF Returned

\* ... or it has no end.
LEMMA StringNever ==
  ASSUME NEW t, Len(t) \in Nat, NEW b, NEW p \in Nat, NEW s, InString(t, b, s, p),
         \A q \in p + 1 .. Len(t) : t[q] = Quote => Spelt(t, q)[p + 1] = {}
  PROVE  Dead(t, b)
  <1>1. ASSUME NEW e \in 0 .. Len(t), Sep(t, e), NEW w \in Means(t)[<<"value", b, e>>]  PROVE FALSE
    <2>1. PICK q \in p + 1 .. e : t[q] = "\"" /\ Spelt(t, q)[p + 1] # {}
      BY <1>1 DEF InString
    <2>2. q \in p + 1 .. Len(t)
      OBVIOUS
    <2>. QED  BY <2>1, <2>2 DEF Quote
  <1>. QED  BY <1>1 DEF Dead
-----------------------------------------------------------------------------
(* A value begins with its first character. *)

\* A container begins with its bracket.
LEMMA ListBegins ==
  ASSUME NEW t \in Seq(STRING), Len(t) \in Nat, NEW list \in Lists, NEW b \in 1 .. Len(t) + 1,
         NEW h \in b .. Len(t), Blank(t, b, h - 1), t[h] = Left[list]
  PROVE  Waits(t, b, list, <<>>, AtLoop(t, list, h + 1))
  <1>1. t[h] \notin Space /\ \A l : t[l] = Right[list] => t[l] \notin Space
    BY RightIs
  <1>2. ASSUME NEW l \in h .. Len(t), NEW w
        PROVE  IsValues(t, Means(t), h, l, w) <=>
                 /\ h < l /\ t[l] = Right[list]
                 /\ \E made \in Means(t)[<<list, h + 1, l - 1>>] : w = Container(list, made)
    <2>1. ASSUME IsValues(t, Means(t), h, l, w)
          PROVE  /\ h < l /\ t[l] = Right[list]
                 /\ \E made \in Means(t)[<<list, h + 1, l - 1>>] : w = Container(list, made)
      <3>1. \/ t[h] = "\"" \/ t[h] = "t" \/ t[h] = "f" \/ t[h] = "n" \/ t[h] \in Digit \cup {"-"}
            \/ \E f \in Lists :
                 /\ h < l /\ t[h] = Left[f] /\ t[l] = Right[f]
                 /\ \E made \in Means(t)[<<f, h + 1, l - 1>>] : w = Container(f, made)
        <4>1. h \in 1 .. Len(t) /\ l \in h .. Len(t)
          OBVIOUS
        <4>2. \/ IsString(t, h, l, w) \/ IsList(t, Means(t), h, l, w)
              \/ IsWord(t, h, l, w) \/ IsNumber(t, h, l, w)
          BY <2>1, <4>1, ByFirst
        <4>. QED  BY <4>2, Zenon DEF IsString, IsList, IsWord, IsNumber
      <3>2. t[h] \notin {"\"", "t", "f", "n", "-"} /\ t[h] \notin Digit
        <4>1. t[h] \in {"[", "{"}
          BY RightIs
        <4>. QED  BY <4>1 DEF Digit
      <3>3. \A f \in Lists : Left[f] = Left[list] => f = list
        BY RightIs
      <3>. QED  BY <3>1, <3>2, <3>3, Zenon
    <2>2. ASSUME h < l, t[l] = Right[list],
                 \E made \in Means(t)[<<list, h + 1, l - 1>>] : w = Container(list, made)
          PROVE  IsValues(t, Means(t), h, l, w)
      BY <2>2, Zenon DEF IsValues
    <2>. QED  BY <2>1, <2>2, Zenon
  <1>3. ASSUME NEW e \in 0 .. Len(t), Sep(t, e), NEW w
        PROVE  w \in Means(t)[<<"value", b, e>>] <=>
             \E E \in 1 .. e :
               /\ t[E] = Right[list] /\ Blank(t, E + 1, e)
               /\ \E rest \in AtLoop(t, list, h + 1)[E] : w = Container(list, Merged(list, <<>>, rest))
    <2>1. w \in Means(t)[<<"value", b, e>>] <=>
           \E l \in h .. e : t[l] \notin Space /\ Blank(t, l + 1, e) /\ IsValues(t, Means(t), h, l, w)
      BY <1>1, ValueFrom
    <2>2. ASSUME NEW l \in 1 .. e, t[l] = Right[list]
          PROVE  (\E rest \in AtLoop(t, list, h + 1)[l] : w = Container(list, Merged(list, <<>>, rest)))
                   <=> h < l /\ \E made \in Means(t)[<<list, h + 1, l - 1>>] : w = Container(list, made)
      <3>1. AtLoop(t, list, h + 1)[l] = IF h + 1 <= l THEN Means(t)[<<list, h + 1, l - 1>>] ELSE {}
        <4>1. l \in 1 .. Len(t)
          OBVIOUS
        <4>. QED  BY <4>1 DEF AtLoop
      <3>2. CASE h < l
        <4>1. AtLoop(t, list, h + 1)[l] = Means(t)[<<list, h + 1, l - 1>>]
          BY <3>1, <3>2
        <4>2. ASSUME NEW rest \in Means(t)[<<list, h + 1, l - 1>>]
              PROVE  Merged(list, <<>>, rest) = rest
          <5>1. h + 1 \in 1 .. Len(t) + 1 /\ l - 1 \in 0 .. Len(t)
            BY <3>2
          <5>2. Made(list, rest)
            BY <4>2, <5>1, ListsMade
          <5>. QED  BY <5>2, MergedFirst
        <4>. QED  BY <3>2, <4>1, <4>2, Zenon
      <3>3. CASE ~(h < l)
        <4>1. ~(h + 1 <= l)
          BY <3>3
        <4>. QED  BY <3>1, <3>3, <4>1
      <3>. QED  BY <3>2, <3>3
    <2>3. \A l \in h .. e : l \in h .. Len(t) /\ l \in 1 .. e
      OBVIOUS
    <2>4. \A l \in 1 .. e : h < l => l \in h .. e
      OBVIOUS
    <2>5. \A l \in h .. e : l \in h .. Len(t)
      BY <2>3
    <2> DEFINE Has(l) == \E rest \in AtLoop(t, list, h + 1)[l] : w = Container(list, Merged(list, <<>>, rest))
               Was(l) == \E made \in Means(t)[<<list, h + 1, l - 1>>] : w = Container(list, made)
    <2>6. \A l \in h .. e : IsValues(t, Means(t), h, l, w) <=> h < l /\ t[l] = Right[list] /\ Was(l)
      BY <1>2, <2>5
    <2>7. \A l \in 1 .. e : t[l] = Right[list] => (Has(l) <=> h < l /\ Was(l))
      BY <2>2
    <2>. HIDE DEF Has, Was
    <2>8. w \in Means(t)[<<"value", b, e>>] <=>
            \E E \in 1 .. e : t[E] = Right[list] /\ Blank(t, E + 1, e) /\ Has(E)
      BY <1>1, <2>1, <2>3, <2>4, <2>6, <2>7, Zenon
    <2>. QED  BY <2>8 DEF Has
  <1>. QED  BY <1>3, Zenon DEF Waits

\* A string begins with its quote.
LEMMA StringBegins ==
  ASSUME NEW t \in Seq(STRING), Len(t) \in Nat, NEW b \in 1 .. Len(t) + 1,
         NEW h \in b .. Len(t), Blank(t, b, h - 1), t[h] = Quote
  PROVE  InString(t, b, <<>>, h)
  <1>1. t[h] \notin Space /\ t[h] = "\"" /\ \A l : t[l] = "\"" => t[l] \notin Space
    BY DEF Space, Quote
  <1>2. ASSUME NEW l \in h .. Len(t), NEW w
        PROVE  IsValues(t, Means(t), h, l, w) <=>
                 h < l /\ t[l] = "\"" /\ \E q \in Spelt(t, l)[h + 1] : w = [String |-> q]
    <2>1. ASSUME IsValues(t, Means(t), h, l, w)
          PROVE  h < l /\ t[l] = "\"" /\ \E q \in Spelt(t, l)[h + 1] : w = [String |-> q]
      <3>1. \/ h < l /\ t[l] = "\"" /\ \E q \in Spelt(t, l)[h + 1] : w = [String |-> q]
            \/ t[h] = "t" \/ t[h] = "f" \/ t[h] = "n" \/ t[h] \in Digit \cup {"-"}
            \/ \E f \in Lists : t[h] = Left[f]
        <4>1. h \in 1 .. Len(t) /\ l \in h .. Len(t)
          OBVIOUS
        <4>2. \/ IsString(t, h, l, w) \/ IsList(t, Means(t), h, l, w)
              \/ IsWord(t, h, l, w) \/ IsNumber(t, h, l, w)
          BY <2>1, <4>1, ByFirst
        <4>. QED  BY <4>2, Zenon DEF IsString, IsList, IsWord, IsNumber
      <3>2. t[h] \notin {"t", "f", "n", "-"} /\ t[h] \notin Digit /\ \A f \in Lists : t[h] # Left[f]
        <4>1. \A f \in Lists : Left[f] \in {"[", "{"}
          BY RightIs
        <4>. QED  BY <4>1 DEF Digit, Quote
      <3>. QED  BY <3>1, <3>2, Zenon
    <2>2. ASSUME h < l, t[l] = "\"", \E q \in Spelt(t, l)[h + 1] : w = [String |-> q]
          PROVE  IsValues(t, Means(t), h, l, w)
      <3>1. Quoted(t, h, l) = Spelt(t, l)[h + 1]
        BY <1>1, <2>2, Zenon DEF Quoted
      <3>. QED  BY <2>2, <3>1, Zenon DEF IsValues
    <2>. QED  BY <2>1, <2>2, Zenon
  <1>3. ASSUME NEW e \in 0 .. Len(t), Sep(t, e), NEW w
        PROVE  w \in Means(t)[<<"value", b, e>>] <=>
             \E q \in h + 1 .. e :
               /\ t[q] = "\"" /\ Blank(t, q + 1, e)
               /\ \E r \in Spelt(t, q)[h + 1] : w = [String |-> <<>> \o r]
    <2>1. w \in Means(t)[<<"value", b, e>>] <=>
           \E l \in h .. e : t[l] \notin Space /\ Blank(t, l + 1, e) /\ IsValues(t, Means(t), h, l, w)
      BY <1>1, ValueFrom
    <2>2. ASSUME NEW q \in h + 1 .. e, NEW r \in Spelt(t, q)[h + 1]
          PROVE  <<>> \o r = r
      <3>1. q \in Nat /\ h + 1 \in 1 .. q + 1
        OBVIOUS
      <3>2. IsSequence(r)
        BY <3>1, SpeltType
      <3>. QED  BY <3>2, ConcatEmptySeq DEF IsSequence
    <2>3. \A l \in h .. e : l \in h .. Len(t) /\ (h < l => l \in h + 1 .. e)
      OBVIOUS
    <2>4. \A l \in h + 1 .. e : h < l /\ l \in h .. e
      OBVIOUS
    <2>5. \A l \in h .. e : l \in h .. Len(t)
      BY <2>3
    <2> DEFINE Was(l) == \E r \in Spelt(t, l)[h + 1] : w = [String |-> r]
               Has(l) == \E r \in Spelt(t, l)[h + 1] : w = [String |-> <<>> \o r]
    <2>6. \A l \in h .. e : IsValues(t, Means(t), h, l, w) <=> h < l /\ t[l] = "\"" /\ Was(l)
      BY <1>2, <2>5, Zenon
    <2>7. \A l \in h + 1 .. e : Has(l) <=> Was(l)
      BY <2>2
    <2>. HIDE DEF Has, Was
    <2>8. w \in Means(t)[<<"value", b, e>>] <=>
            \E q \in h + 1 .. e : t[q] = "\"" /\ Blank(t, q + 1, e) /\ Has(q)
      BY <1>1, <2>1, <2>3, <2>4, <2>6, <2>7, Zenon
    <2>. QED  BY <2>8 DEF Has
  <1>. QED  BY <1>3, Zenon DEF InString

\* A word ends with its last letter.
LEMMA WordBegins ==
  ASSUME NEW t \in Seq(STRING), Len(t) \in Nat, NEW b \in 1 .. Len(t) + 1,
         NEW h \in b .. Len(t), Blank(t, b, h - 1),
         NEW text \in {True, False, Null}, NEW z \in h .. Len(t), SubSeq(t, h, z) = text
  PROVE  Returned(t, b, z, IF text = Null THEN [Null |-> TRUE] ELSE [Boolean |-> text = True])
  <1> DEFINE v == IF text = Null THEN [Null |-> TRUE] ELSE [Boolean |-> text = True]
  <1>1. /\ text[1] \in {"t", "f", "n"} /\ text[Len(text)] \notin Space /\ Len(text) \in Nat
        /\ text = True => text[1] = "t"
        /\ text = False => text[1] = "f"
        /\ text = Null => text[1] = "n"
    <2>1. /\ True[1] = "t" /\ Len(True) \in Nat /\ True[Len(True)] \notin Space
          /\ False[1] = "f" /\ Len(False) \in Nat /\ False[Len(False)] \notin Space
          /\ Null[1] = "n" /\ Len(Null) \in Nat /\ Null[Len(Null)] \notin Space
          /\ True # False /\ True # Null /\ False # Null
      BY DEF True, False, Null, Space
    <2>2. CASE text = True
      BY <2>1, <2>2, Zenon
    <2>3. CASE text = False
      BY <2>1, <2>3, Zenon
    <2>4. CASE text = Null
      BY <2>1, <2>4, Zenon
    <2>. QED  BY <2>2, <2>3, <2>4
  <1>2. Len(text) = z - h + 1 /\ t[h] = text[1] /\ t[z] = text[Len(text)]
    <2>1. h \in 1 .. Len(t)
      OBVIOUS
    <2>2. \A k \in h .. z : t[k] = SubSeq(t, h, z)[k - h + 1]
      BY <2>1, Part
    <2>3. Len(SubSeq(t, h, z)) = z - h + 1 /\ SubSeq(t, h, z)[1] = t[h]
      BY <2>1, Part
    <2>4. z \in h .. z
      OBVIOUS
    <2>. QED  BY <2>2, <2>3, <2>4
  <1>3. t[h] \in {"t", "f", "n"} /\ t[h] \notin Space /\ t[z] \notin Space
    BY <1>1, <1>2 DEF Space
  <1>4. ASSUME NEW l \in h .. Len(t), NEW w
        PROVE  IsValues(t, Means(t), h, l, w) <=> l = z /\ w = v
    <2>0. h \in 1 .. Len(t) /\ l \in h .. Len(t)
      OBVIOUS
    <2>1. ASSUME IsValues(t, Means(t), h, l, w)  PROVE l = z /\ w = v
      <3>1. \/ t[h] = "\"" \/ t[h] \in Digit \cup {"-"} \/ \E f \in Lists : t[h] = Left[f]
            \/ SubSeq(t, h, l) = True /\ t[h] = "t" /\ w = [Boolean |-> TRUE]
            \/ SubSeq(t, h, l) = False /\ t[h] = "f" /\ w = [Boolean |-> FALSE]
            \/ SubSeq(t, h, l) = Null /\ t[h] = "n" /\ w = [Null |-> TRUE]
        <4>1. \/ IsString(t, h, l, w) \/ IsList(t, Means(t), h, l, w)
              \/ IsWord(t, h, l, w) \/ IsNumber(t, h, l, w)
          BY <2>0, <2>1, ByFirst
        <4>. QED  BY <4>1, Zenon DEF IsString, IsList, IsWord, IsNumber
      <3>2. t[h] # "\"" /\ t[h] \notin Digit \cup {"-"} /\ \A f \in Lists : t[h] # Left[f]
        <4>1. \A f \in Lists : Left[f] \in {"[", "{"}
          BY RightIs
        <4>. QED  BY <1>3, <4>1 DEF Digit
      <3>3. SubSeq(t, h, l) = text /\ w = v
        <4>1. True # Null /\ False # Null /\ True # False
          BY DEF True, False, Null
        <4>2. \/ SubSeq(t, h, l) = True /\ text = True /\ w = [Boolean |-> TRUE]
              \/ SubSeq(t, h, l) = False /\ text = False /\ w = [Boolean |-> FALSE]
              \/ SubSeq(t, h, l) = Null /\ text = Null /\ w = [Null |-> TRUE]
          BY <1>1, <1>2, <3>1, <3>2
        <4>. QED  BY <4>1, <4>2
      <3>4. Len(SubSeq(t, h, l)) = l - h + 1
        BY <2>0, Part
      <3>5. l - h + 1 = z - h + 1
        BY <1>2, <3>3, <3>4
      <3>6. l = z
        BY <3>5
      <3>. QED  BY <3>3, <3>6
    <2>2. ASSUME l = z, w = v  PROVE IsValues(t, Means(t), h, l, w)
      <3>1. w \in Scalars(text)
        <4>1. True # Null /\ False # Null /\ True # False
          BY DEF True, False, Null
        <4>2. CASE text = True
          BY <2>2, <4>1, <4>2, InScalars
        <4>3. CASE text = False
          BY <2>2, <4>1, <4>3, InScalars
        <4>4. CASE text = Null
          BY <2>2, <4>1, <4>4, InScalars
        <4>. QED  BY <4>2, <4>3, <4>4
      <3>. QED  BY <2>2, <3>1 DEF IsValues
    <2>. QED  BY <2>1, <2>2
  <1>. HIDE DEF v
  <1>5. ASSUME NEW e \in 0 .. Len(t), NEW w
        PROVE  w \in Means(t)[<<"value", b, e>>] <=> z <= e /\ Blank(t, z + 1, e) /\ w = v
    <2>1. w \in Means(t)[<<"value", b, e>>] <=>
           \E l \in h .. e : t[l] \notin Space /\ Blank(t, l + 1, e) /\ IsValues(t, Means(t), h, l, w)
      BY <1>3, ValueFrom
    <2>2. \A l \in h .. e : l \in h .. Len(t)
      OBVIOUS
    <2>3. z \in h .. e <=> z <= e
      OBVIOUS
    <2>4. \A l \in h .. e : IsValues(t, Means(t), h, l, w) <=> l = z /\ w = v
      BY <1>4, <2>2, Zenon
    <2>. QED  BY <1>3, <2>1, <2>3, <2>4, Zenon
  <1>. QED  BY <1>5, Zenon DEF Returned, v

\* A number takes all characters that a number can have.
LEMMA NumberBegins ==
  ASSUME NEW t \in Seq(STRING), Len(t) \in Nat, NEW b \in 1 .. Len(t) + 1,
         NEW h \in b .. Len(t), Blank(t, b, h - 1), t[h] \in Digit \cup {"-"},
         NEW z \in h .. Len(t), \A k \in h .. z : t[k] \in NumberChars,
         z < Len(t) => t[z + 1] \notin NumberChars
  PROVE  /\ Numeral(SubSeq(t, h, z)) => Returned(t, b, z, [Number |-> SubSeq(t, h, z)])
         /\ ~Numeral(SubSeq(t, h, z)) => Dead(t, b)
  <1>1. \A k : t[k] \in NumberChars => t[k] \notin Space /\ t[k] \notin {",", "]", "}"}
    <2>1. \A c \in NumberChars : c \notin Space /\ c \notin {",", "]", "}"}
      BY DEF NumberChars, Digit, Space
    <2>. QED  BY <2>1
  <1>2. h \in 1 .. Len(t) /\ t[h] \notin Space /\ t[z] \notin Space
    <2>1. h \in 1 .. Len(t) /\ h \in h .. z /\ z \in h .. z
      OBVIOUS
    <2>. QED  BY <1>1, <2>1
  <1>3. ASSUME NEW e \in 0 .. Len(t), Sep(t, e), NEW l \in h .. e, Blank(t, l + 1, e), NEW w
        PROVE  IsValues(t, Means(t), h, l, w) <=>
                 l = z /\ Numeral(SubSeq(t, h, z)) /\ w = [Number |-> SubSeq(t, h, z)]
    <2>0. h \in 1 .. Len(t) /\ l \in h .. Len(t)
      OBVIOUS
    <2>1. ASSUME IsValues(t, Means(t), h, l, w)
          PROVE  l = z /\ Numeral(SubSeq(t, h, z)) /\ w = [Number |-> SubSeq(t, h, z)]
      <3>1. \/ t[h] = "\"" \/ t[h] = "t" \/ t[h] = "f" \/ t[h] = "n"
            \/ \E f \in Lists : t[h] = Left[f]
            \/ /\ Numeral(SubSeq(t, h, l)) /\ w = [Number |-> SubSeq(t, h, l)]
               /\ \A k \in h .. l : t[k] \in NumberChars
        <4>1. \/ IsString(t, h, l, w) \/ IsList(t, Means(t), h, l, w)
              \/ IsWord(t, h, l, w) \/ IsNumber(t, h, l, w)
          BY <2>0, <2>1, ByFirst
        <4>. QED  BY <4>1, Zenon DEF IsString, IsList, IsWord, IsNumber
      <3>2. t[h] \notin {"\"", "t", "f", "n"} /\ \A f \in Lists : t[h] # Left[f]
        <4>1. \A f \in Lists : Left[f] \in {"[", "{"}
          BY RightIs
        <4>. QED  BY <4>1 DEF Digit
      <3>3. /\ Numeral(SubSeq(t, h, l)) /\ w = [Number |-> SubSeq(t, h, l)]
            /\ \A k \in h .. l : t[k] \in NumberChars
        BY <3>1, <3>2, Zenon
      <3>4. ~(z < l)
        <4>1. z < l => z + 1 \in h .. l /\ z < Len(t)
          BY <2>0
        <4>. QED  BY <3>3, <4>1
      <3>5. ~(l < z)
        <4>1. ASSUME l < z  PROVE FALSE
          <5>1. l + 1 \in h .. z
            BY <2>0, <4>1
          <5>2. t[l + 1] \notin Space
            BY <1>1, <5>1
          <5>3. l = e
            <6>1. l < e => l + 1 \in l + 1 .. e
              BY <2>0
            <6>2. ~(l < e)
              BY <1>3, <5>2, <6>1 DEF Blank
            <6>. QED  BY <2>0, <6>2
          <5>4. e # Len(t)
            BY <2>0, <4>1, <5>3
          <5>5. t[l + 1] \in {",", "]", "}"}
            BY <1>3, <5>3, <5>4 DEF Sep
          <5>. QED  BY <1>1, <5>1, <5>5
        <4>. QED  BY <4>1
      <3>6. l = z
        BY <2>0, <3>4, <3>5
      <3>. QED  BY <3>3, <3>6
    <2>2. ASSUME l = z, Numeral(SubSeq(t, h, z)), w = [Number |-> SubSeq(t, h, z)]
          PROVE  IsValues(t, Means(t), h, l, w)
      <3>1. w \in Scalars(SubSeq(t, h, z))
        BY <2>2, InScalars
      <3>. QED  BY <2>2, <3>1 DEF IsValues
    <2>. QED  BY <2>1, <2>2
  <1>4. ASSUME NEW e \in 0 .. Len(t), Sep(t, e), NEW w
        PROVE  w \in Means(t)[<<"value", b, e>>] <=>
                 /\ z <= e /\ Blank(t, z + 1, e)
                 /\ Numeral(SubSeq(t, h, z)) /\ w = [Number |-> SubSeq(t, h, z)]
    <2>1. w \in Means(t)[<<"value", b, e>>] <=>
           \E l \in h .. e : t[l] \notin Space /\ Blank(t, l + 1, e) /\ IsValues(t, Means(t), h, l, w)
      BY <1>2, ValueFrom
    <2>2. z \in h .. e <=> z <= e
      OBVIOUS
    <2>. QED  BY <1>2, <1>3, <1>4, <2>1, <2>2, Zenon
  <1>5. ASSUME Numeral(SubSeq(t, h, z))  PROVE Returned(t, b, z, [Number |-> SubSeq(t, h, z)])
    <2> DEFINE v == [Number |-> SubSeq(t, h, z)]
    <2>1. \A e \in 0 .. Len(t) : Sep(t, e) =>
            \A w : w \in Means(t)[<<"value", b, e>>] <=> z <= e /\ Blank(t, z + 1, e) /\ w = v
      BY <1>4, <1>5
    <2>. HIDE DEF v
    <2>2. Returned(t, b, z, v)
      BY <2>1, Zenon DEF Returned
    <2>. QED  BY <2>2 DEF v
  <1>6. ASSUME ~Numeral(SubSeq(t, h, z))  PROVE Dead(t, b)
    BY <1>4, <1>6 DEF Dead
  <1>. QED  BY <1>5, <1>6

\* Anything else is not a value.
LEMMA NothingBegins ==
  ASSUME NEW t \in Seq(STRING), Len(t) \in Nat, NEW b \in 1 .. Len(t) + 1,
         NEW h \in b .. Len(t), Blank(t, b, h - 1), t[h] \notin Space,
         t[h] # Quote, \A list \in Lists : t[h] # Left[list], t[h] \notin Digit \cup {"-"},
         \A l \in h .. Len(t) : SubSeq(t, h, l) \notin {True, False, Null}
  PROVE  Dead(t, b)
  <1>1. ASSUME NEW e \in 0 .. Len(t), NEW w \in Means(t)[<<"value", b, e>>]  PROVE FALSE
    <2>1. PICK l \in h .. e : IsValues(t, Means(t), h, l, w)
      BY <1>1, ValueFrom
    <2>2. h \in 1 .. Len(t) /\ l \in h .. Len(t)
      OBVIOUS
    <2>3. t[h] # "\"" /\ SubSeq(t, h, l) \notin {True, False, Null}
      BY <2>2 DEF Quote
    <2>4. \/ IsString(t, h, l, w) \/ IsList(t, Means(t), h, l, w)
          \/ IsWord(t, h, l, w) \/ IsNumber(t, h, l, w)
      BY <2>1, <2>2, ByFirst
    <2>. QED  BY <2>3, <2>4, Zenon DEF IsString, IsList, IsWord, IsNumber
  <1>. QED  BY <1>1 DEF Dead
-----------------------------------------------------------------------------
(* A list goes on with what follows the blanks. *)

\* h is the first place from i on that is not blank.
Follows(t, i, h) == h \in i .. Len(t) /\ t[h] \notin Space /\ Blank(t, i, h - 1)

\* There is one such place.
LEMMA OneFollows ==
  ASSUME NEW t, Len(t) \in Nat, NEW i \in 1 .. Len(t) + 1, NEW h, Follows(t, i, h),
         NEW k \in i .. Len(t), Blank(t, i, k - 1), t[k] \notin Space
  PROVE  k = h
  <1>1. h \in i .. Len(t) /\ t[h] \notin Space /\ Blank(t, i, h - 1)
    BY DEF Follows
  <1>2. i <= k /\ i <= h /\ i \in Int /\ h \in Int
    BY <1>1
  <1>. QED  BY <1>1, <1>2, SameFirst

\* Blanks behind blanks.
LEMMA BlankFrom ==
  ASSUME NEW t, NEW b \in Nat, NEW p \in Nat, b <= p + 1, Blank(t, b, p), NEW q \in Int, Blank(t, p + 1, q)
  PROVE  Blank(t, b, q)
  BY DEF Blank

\* The loop of a list whose value has returned.
LEMMA GoesOn ==
  ASSUME NEW t \in Seq(STRING), Len(t) \in Nat, NEW b, NEW list \in Lists, NEW made, NEW key,
         Made(list, made), NEW c \in 1 .. Len(t) + 1, Waits(t, b, list, made, AtValue(t, list, key, c)),
         NEW p \in c .. Len(t), NEW v, Returned(t, c, p, v),
         NEW h, Follows(t, p + 1, h), t[h] = Comma
  PROVE  Waits(t, b, list, AddedTo(list, key, made, v), AtLoop(t, list, h + 1))
  <1>1. h \in p + 1 .. Len(t) /\ Blank(t, p + 1, h - 1)
    BY DEF Follows
  <1>2. ASSUME NEW E \in 1 .. Len(t), t[E] = Right[list]
        PROVE  /\ \A m : m \in AtValue(t, list, key, c)[E] <=>
                    \E rest \in AtLoop(t, list, h + 1)[E] : m = Joined(list, key, v, rest)
               /\ \A rest \in AtLoop(t, list, h + 1)[E] : Made(list, rest)
    <2>1. \A m : m \in AtValue(t, list, key, c)[E] <=>
                    \E rest \in AtLoop(t, list, h + 1)[E] : m = Joined(list, key, v, rest)
      BY <1>1, <1>2, AfterComma
    <2>2. ASSUME NEW rest \in AtLoop(t, list, h + 1)[E]  PROVE Made(list, rest)
      <3>1. AtLoop(t, list, h + 1)[E] = IF h + 1 <= E THEN Means(t)[<<list, h + 1, E - 1>>] ELSE {}
        BY DEF AtLoop
      <3>2. rest \in Means(t)[<<list, h + 1, E - 1>>]
        BY <2>2, <3>1
      <3>3. h + 1 \in 1 .. Len(t) + 1 /\ E - 1 \in 0 .. Len(t)
        BY <1>1
      <3>. QED  BY <3>2, <3>3, ListsMade
    <2>. QED  BY <2>1, <2>2
  <1>. QED  BY <1>2, WaitsMore

\* If another character follows, no comma does.
LEMMA NoComma ==
  ASSUME NEW t, Len(t) \in Nat, NEW i \in 1 .. Len(t) + 1,
         Blank(t, i, Len(t)) \/ \E h : Follows(t, i, h) /\ t[h] # Comma
  PROVE  \A h \in i .. Len(t) : Blank(t, i, h - 1) => t[h] # Comma
  <1>1. Comma \notin Space
    BY DEF Comma, Space
  <1>2. CASE Blank(t, i, Len(t))
    BY <1>1, <1>2 DEF Blank
  <1>3. CASE \E h : Follows(t, i, h) /\ t[h] # Comma
    BY <1>1, <1>3, OneFollows
  <1>. QED  BY <1>2, <1>3

\* The same when the bracket follows.
LEMMA GoesToEnd ==
  ASSUME NEW t \in Seq(STRING), Len(t) \in Nat, NEW b, NEW list \in Lists, NEW made, NEW key,
         Made(list, made), NEW c \in 1 .. Len(t) + 1, Waits(t, b, list, made, AtValue(t, list, key, c)),
         NEW p \in c .. Len(t), NEW v, Returned(t, c, p, v),
         NEW h, Follows(t, p + 1, h), t[h] = Right[list]
  PROVE  Waits(t, b, list, AddedTo(list, key, made, v), AtLoop(t, list, h))
  <1>1. h \in p + 1 .. Len(t) /\ Blank(t, p + 1, h - 1) /\ p + 1 \in 1 .. Len(t) + 1
    BY DEF Follows
  <1>2. \A k \in p + 1 .. Len(t) : Blank(t, p + 1, k - 1) => t[k] # Comma
    <2>1. t[h] # Comma
      BY RightIs DEF Comma
    <2>. QED  BY <1>1, <2>1, NoComma
  <1>3. ASSUME NEW E \in 1 .. Len(t), t[E] = Right[list]
        PROVE  /\ \A m : m \in AtValue(t, list, key, c)[E] <=>
                    \E rest \in AtLoop(t, list, h)[E] : m = Joined(list, key, v, rest)
               /\ \A rest \in AtLoop(t, list, h)[E] : Made(list, rest)
    <2>1. AtLoop(t, list, h)[E] = IF E = h THEN {<<>>} ELSE {}
      <3>1. h \in 1 .. Len(t) + 1 /\ h \in h .. Len(t) /\ Blank(t, h, h - 1)
        BY <1>1 DEF Blank
      <3>. QED  BY <1>3, <3>1, CloserFirst
    <2>2. p < E /\ Blank(t, p + 1, E - 1) <=> E = h
      <3>1. ASSUME p < E, Blank(t, p + 1, E - 1)  PROVE E = h
        <4>1. E \in p + 1 .. Len(t)
          BY <3>1
        <4>2. t[E] \notin Space
          BY <1>3, RightIs
        <4>. QED  BY <1>1, <3>1, <4>1, <4>2, OneFollows, Zenon
      <3>2. E = h => p < E /\ Blank(t, p + 1, E - 1)
        BY <1>1
      <3>. QED  BY <3>1, <3>2
    <2>3. \A m : m \in AtValue(t, list, key, c)[E] <=>
                   p < E /\ Blank(t, p + 1, E - 1) /\ m = Joined(list, key, v, <<>>)
      BY <1>2, <1>3, AfterLast
    <2>. QED  BY <2>1, <2>2, <2>3, MadeEmpty
  <1>. QED  BY <1>3, WaitsMore

\* A value must be followed by a comma or by the bracket of its list.
LEMMA NothingFits ==
  ASSUME NEW t \in Seq(STRING), Len(t) \in Nat, NEW b, NEW list \in Lists, NEW made, NEW key,
         NEW c \in 1 .. Len(t) + 1, Waits(t, b, list, made, AtValue(t, list, key, c)),
         NEW p \in c .. Len(t), NEW v, Returned(t, c, p, v),
         \A k \in p + 1 .. Len(t) : Blank(t, p + 1, k - 1) => t[k] # Comma,
         \A k \in p + 1 .. Len(t) : Blank(t, p + 1, k - 1) => t[k] # Right[list]
  PROVE  Dead(t, b)
  <1>1. ASSUME NEW E \in 1 .. Len(t), t[E] = Right[list]
        PROVE  AtValue(t, list, key, c)[E] = {}
    <2>1. ~(p < E /\ Blank(t, p + 1, E - 1))
      <3>1. p < E => E \in p + 1 .. Len(t)
        OBVIOUS
      <3>. QED  BY <1>1, <3>1
    <2>2. \A m : m \in AtValue(t, list, key, c)[E] <=>
                   p < E /\ Blank(t, p + 1, E - 1) /\ m = Joined(list, key, v, <<>>)
      BY <1>1, AfterLast
    <2>. QED  BY <2>1, <2>2
  <1>. QED  BY <1>1, WaitsNever

LEMMA GoesNowhere ==
  ASSUME NEW t \in Seq(STRING), Len(t) \in Nat, NEW b, NEW list \in Lists, NEW made, NEW key,
         NEW c \in 1 .. Len(t) + 1, Waits(t, b, list, made, AtValue(t, list, key, c)),
         NEW p \in c .. Len(t), NEW v, Returned(t, c, p, v),
         \/ Blank(t, p + 1, Len(t))
         \/ \E h : Follows(t, p + 1, h) /\ t[h] # Comma /\ t[h] # Right[list]
  PROVE  Dead(t, b)
  <1>1. p + 1 \in 1 .. Len(t) + 1
    OBVIOUS
  <1>2. \A k \in p + 1 .. Len(t) : Blank(t, p + 1, k - 1) => t[k] # Comma
    BY <1>1, NoComma
  <1>3. \A k \in p + 1 .. Len(t) : Blank(t, p + 1, k - 1) => t[k] # Right[list]
    <2>1. Right[list] \notin Space
      BY RightIs
    <2>2. CASE Blank(t, p + 1, Len(t))
      BY <2>1, <2>2 DEF Blank
    <2>3. CASE \E h : Follows(t, p + 1, h) /\ t[h] # Comma /\ t[h] # Right[list]
      BY <1>1, <2>1, <2>3, OneFollows
    <2>. QED  BY <2>2, <2>3
  <1>. QED  BY <1>2, <1>3, NothingFits

\* A list whose loop is at its bracket, at its end, or at what cannot be there.
LEMMA ListEnds ==
  ASSUME NEW t \in Seq(STRING), Len(t) \in Nat, NEW b, NEW list \in Lists, NEW made, Made(list, made),
         NEW c \in 1 .. Len(t) + 1, Waits(t, b, list, made, AtLoop(t, list, c)),
         NEW h, Follows(t, c, h), t[h] = Right[list]
  PROVE  Returned(t, b, h, Container(list, made))
  <1>1. h \in c .. Len(t) /\ Blank(t, c, h - 1)
    BY DEF Follows
  <1>2. ASSUME NEW E \in 1 .. Len(t), t[E] = Right[list]
        PROVE  AtLoop(t, list, c)[E] = IF E = h THEN {<<>>} ELSE {}
    BY <1>1, <1>2, CloserFirst
  <1>3. Merged(list, made, <<>>) = made
    BY MergedEmpty
  <1>4. ASSUME NEW e \in 0 .. Len(t), Sep(t, e), NEW w
        PROVE  w \in Means(t)[<<"value", b, e>>] <=>
                 h <= e /\ Blank(t, h + 1, e) /\ w = Container(list, made)
    <2>1. w \in Means(t)[<<"value", b, e>>] <=>
             \E E \in 1 .. e :
               /\ t[E] = Right[list] /\ Blank(t, E + 1, e)
               /\ \E rest \in AtLoop(t, list, c)[E] : w = Container(list, Merged(list, made, rest))
      BY <1>4, Zenon DEF Waits
    <2>2. \A E \in 1 .. e : E \in 1 .. Len(t)
      OBVIOUS
    <2>3. ASSUME NEW E \in 1 .. e, t[E] = Right[list]
          PROVE  (\E rest \in AtLoop(t, list, c)[E] : w = Container(list, Merged(list, made, rest)))
                   <=> E = h /\ w = Container(list, made)
      <3>1. AtLoop(t, list, c)[E] = IF E = h THEN {<<>>} ELSE {}
        BY <1>2, <2>2, <2>3
      <3>. QED  BY <1>3, <3>1
    <2>4. h \in 1 .. e <=> h <= e
      BY <1>1
    <2>. QED  BY <2>1, <2>3, <2>4, Zenon
  <1>. QED  BY <1>4, Zenon DEF Returned

\* The text ends within a list.
LEMMA LoopStuck ==
  ASSUME NEW t \in Seq(STRING), Len(t) \in Nat, NEW b, NEW list \in Lists, NEW made,
         NEW c \in 1 .. Len(t) + 1, Waits(t, b, list, made, AtLoop(t, list, c)), Blank(t, c, Len(t))
  PROVE  Dead(t, b)
  <1>1. ASSUME NEW E \in 1 .. Len(t), t[E] = Right[list]  PROVE AtLoop(t, list, c)[E] = {}
    <2>1. ~(c <= E)
      <3>1. t[E] \notin Space
        BY <1>1, RightIs
      <3>. QED  BY <3>1 DEF Blank
    <2>. QED  BY <2>1 DEF AtLoop
  <1>. QED  BY <1>1, WaitsNever

\* A member begins with a quote.
LEMMA KeyMissing ==
  ASSUME NEW t \in Seq(STRING), Len(t) \in Nat, NEW b, NEW made,
         NEW c \in 1 .. Len(t) + 1, Waits(t, b, "object", made, AtLoop(t, "object", c)),
         NEW h, Follows(t, c, h), t[h] # Right["object"], t[h] # Quote
  PROVE  Dead(t, b)
  <1>0. "object" \in Lists
    BY DEF Lists
  <1>1. h \in c .. Len(t) /\ Blank(t, c, h - 1) /\ t[h] \notin Space
    BY Zenon DEF Follows
  <1>2. ASSUME NEW E \in 1 .. Len(t), t[E] = Right["object"]  PROVE AtLoop(t, "object", c)[E] = {}
    <2>0. t[E] \notin Space
      BY <1>0, <1>2, RightIs
    <2>1. PICK d \in 0 .. Len(t) : d = E - 1
      OBVIOUS
    <2>2. AtLoop(t, "object", c)[E] = IF c <= E THEN Means(t)[<<"object", c, d>>] ELSE {}
      BY <2>1 DEF AtLoop
    <2>3. CASE d \in h .. Len(t)
      <3>1. Means(t)[<<"object", c, d>>] = {}
        BY <1>1, <2>3, NoObject
      <3>. QED  BY <2>2, <3>1
    <2>4. CASE ~(d \in h .. Len(t))
      <3>1. E <= h /\ E # h
        <4>1. E # h
          BY <1>2
        <4>2. E <= h
          BY <1>1, <2>1, <2>4
        <4>. QED  BY <4>1, <4>2
      <3>2. ~(c <= E)
        <4>1. c <= E => E \in c .. h - 1
          BY <1>1, <3>1
        <4>. QED  BY <1>1, <2>0, <4>1 DEF Blank
      <3>. QED  BY <2>2, <3>2
    <2>. QED  BY <2>3, <2>4
  <1>. QED  BY <1>0, <1>2, WaitsNever

\* A list whose loop goes on.
LEMMA ArrayGoesOn ==
  ASSUME NEW t \in Seq(STRING), Len(t) \in Nat, NEW b, NEW made, NEW key,
         NEW c \in 1 .. Len(t) + 1, Waits(t, b, "array", made, AtLoop(t, "array", c)),
         NEW h, Follows(t, c, h), t[h] # Right["array"]
  PROVE  Waits(t, b, "array", made, AtValue(t, "array", key, c))
  <1>1. h \in c .. Len(t) /\ Blank(t, c, h - 1) /\ t[h] \notin Space
    BY Zenon DEF Follows
  <1>2. \A E \in 1 .. Len(t) :
          t[E] = Right["array"] => AtLoop(t, "array", c)[E] = AtValue(t, "array", key, c)[E]
    BY <1>1, LoopArray
  <1>. QED  BY <1>2, WaitsSame

LEMMA ObjectGoesOn ==
  ASSUME NEW t \in Seq(STRING), Len(t) \in Nat, NEW b, NEW made,
         NEW c \in 1 .. Len(t) + 1, Waits(t, b, "object", made, AtLoop(t, "object", c)),
         NEW h, Follows(t, c, h), t[h] = Quote
  PROVE  Waits(t, b, "object", made, AtKey(t, <<>>, h))
  <1>1. h \in c .. Len(t) /\ Blank(t, c, h - 1)
    BY Zenon DEF Follows
  <1>2. \A E \in 1 .. Len(t) :
          t[E] = Right["object"] => AtLoop(t, "object", c)[E] = AtKey(t, <<>>, h)[E]
    BY <1>1, LoopObject
  <1>. QED  BY <1>2, WaitsSame
-----------------------------------------------------------------------------
(* A key. *)

\* The same of an object that waits for its key, or for a colon.
LEMMA KeyGrows ==
  ASSUME NEW t, Len(t) \in Nat, NEW b, NEW list, NEW made, NEW p \in Nat, NEW s, IsSequence(s),
         Waits(t, b, list, made, AtKey(t, s, p)), NEW n \in {1, 2}, NEW x, OneMore(t, p, n, x)
  PROVE  Waits(t, b, list, made, AtKey(t, Append(s, x), p + n))
  <1>1. \A E \in 1 .. Len(t) : AtKey(t, s, p)[E] = AtKey(t, Append(s, x), p + n)[E]
    BY KeyMore
  <1>. QED  BY <1>1, WaitsSame

LEMMA KeyEnds ==
  ASSUME NEW t, Len(t) \in Nat, NEW b, NEW list, NEW made, NEW p \in Nat, NEW s, IsSequence(s),
         Waits(t, b, list, made, AtKey(t, s, p)), t[p + 1] = Quote
  PROVE  Waits(t, b, list, made, AtColon(t, s, p + 1))
  <1>1. \A E \in 1 .. Len(t) : AtKey(t, s, p)[E] = AtColon(t, s, p + 1)[E]
    BY KeyEnd
  <1>. QED  BY <1>1, WaitsSame

\* What stands behind p cannot be the rest of a string.
Unended(t, p) == \/ p >= Len(t)
                 \/ t[p + 1] = Backslash /\ ~(p + 2 <= Len(t) /\ t[p + 2] \in Escapable)

\* Then nothing is spelt, and neither a key nor a string ends.
LEMMA UnendedSpelt ==
  ASSUME NEW t, Len(t) \in Nat, NEW p \in Nat, Unended(t, p),
         NEW q \in p + 1 .. Len(t), t[q] = Quote
  PROVE  Spelt(t, q)[p + 1] = {}
  <1>1. ~(p >= Len(t))
    OBVIOUS
  <1>. QED  BY <1>1, SpeltNoMore DEF Unended

LEMMA KeyStuck ==
  ASSUME NEW t, Len(t) \in Nat, NEW b, NEW list, NEW made, NEW p \in Nat, NEW s,
         Waits(t, b, list, made, AtKey(t, s, p)), Unended(t, p)
  PROVE  Dead(t, b)
  <1>1. \A E \in 1 .. Len(t) : AtKey(t, s, p)[E] = {}
    BY UnendedSpelt, KeyNever
  <1>. QED  BY <1>1, WaitsNever

LEMMA StringStuck ==
  ASSUME NEW t, Len(t) \in Nat, NEW b, NEW p \in Nat, NEW s, InString(t, b, s, p), Unended(t, p)
  PROVE  Dead(t, b)
  BY UnendedSpelt, StringNever

\* A colon, or something else, behind a key.
LEMMA ColonGoesOn ==
  ASSUME NEW t \in Seq(STRING), Len(t) \in Nat, NEW b, NEW list, NEW made, NEW key,
         NEW p \in 0 .. Len(t),
         Waits(t, b, list, made, AtColon(t, key, p)), NEW h, Follows(t, p + 1, h), t[h] = Colon
  PROVE  Waits(t, b, list, made, AtValue(t, "object", key, h + 1))
  <1>1. h \in p + 1 .. Len(t) /\ Blank(t, p + 1, h - 1)
    BY Zenon DEF Follows
  <1>2. \A E \in 1 .. Len(t) : AtColon(t, key, p)[E] = AtValue(t, "object", key, h + 1)[E]
    BY <1>1, ColonValue
  <1>. QED  BY <1>2, WaitsSame

LEMMA ColonStuck ==
  ASSUME NEW t, Len(t) \in Nat, NEW b, NEW list, NEW made, NEW key, NEW p \in 0 .. Len(t),
         Waits(t, b, list, made, AtColon(t, key, p)),
         Blank(t, p + 1, Len(t)) \/ \E h : Follows(t, p + 1, h) /\ t[h] # Colon
  PROVE  Dead(t, b)
  <1>1. \A k \in p + 1 .. Len(t) : Blank(t, p + 1, k - 1) => t[k] # Colon
    <2>1. Colon \notin Space /\ p + 1 \in 1 .. Len(t) + 1
      BY DEF Colon, Space
    <2>2. CASE Blank(t, p + 1, Len(t))
      BY <2>1, <2>2 DEF Blank
    <2>3. CASE \E h : Follows(t, p + 1, h) /\ t[h] # Colon
      BY <2>1, <2>3, OneFollows
    <2>. QED  BY <2>2, <2>3
  <1>2. \A E \in 1 .. Len(t) : AtColon(t, key, p)[E] = {}
    BY <1>1, NoColon
  <1>. QED  BY <1>2, WaitsNever
-----------------------------------------------------------------------------
\* The first m calls wait for the value that the next one reads.
Chain(t, s, at, made, m) ==
  \A k \in 1 .. m :
    Waits(t, at[k], s[k].fn, made[k], AtValue(t, s[k].fn, s[k].key, at[k + 1]))

\* If the innermost value cannot be, the text has no meaning.
LEMMA DeadAll ==
  ASSUME NEW t, Len(t) \in Nat, NEW s, NEW at \in [Nat -> 1 .. Len(t) + 1], at[1] = 1, NEW made,
         NEW m \in Nat, Chain(t, s, at, made, m), \A k \in 1 .. m : s[k].fn \in Lists,
         Dead(t, at[m + 1])
  PROVE  Meaning(t) = {}
  <1> DEFINE T == {n \in Nat : n <= m => Dead(t, at[m - n + 1])}
  <1>1. 0 \in T
    OBVIOUS
  <1>2. ASSUME NEW n \in Nat, n \in T  PROVE n + 1 \in T
    <2>1. ASSUME n + 1 <= m  PROVE Dead(t, at[m - (n + 1) + 1])
      <3>1. PICK k \in 1 .. m : k = m - n
        BY <2>1
      <3>2. Dead(t, at[k + 1])
        BY <1>2, <2>1, <3>1
      <3>3. Waits(t, at[k], s[k].fn, made[k], AtValue(t, s[k].fn, s[k].key, at[k + 1]))
        BY DEF Chain
      <3>4. at[k + 1] \in 1 .. Len(t) + 1 /\ s[k].fn \in Lists
        <4>1. k + 1 \in Nat
          OBVIOUS
        <4>. QED  BY <4>1
      <3>5. Dead(t, at[k])
        BY <3>2, <3>3, <3>4, DeadBelow
      <3>. QED  BY <3>1, <3>5
    <2>. QED  BY <2>1
  <1>3. m \in T
    <2>. HIDE DEF T
    <2>. QED  BY <1>1, <1>2, SetInduction
  <1>4. m - m + 1 = 1
    OBVIOUS
  <1>5. Dead(t, 1)
    BY <1>3, <1>4
  <1>6. Len(t) \in 0 .. Len(t) /\ Sep(t, Len(t))
    BY DEF Sep
  <1>. QED  BY <1>5, <1>6 DEF Dead, Meaning
-----------------------------------------------------------------------------
\* Where the calls began to read, what they have made, and the value returned:
\* what a parser would have that keeps numbers out of range.
Below == IF pc \in {"value", "string", "return"} THEN Len(stack) ELSE Len(stack) - 1

Inner(at, made, v) ==
  LET n == Len(stack)
  IN  /\ pc = "value" => at[n + 1] <= pos + 1 /\ Blank(json, at[n + 1], pos)
      /\ pc = "string" => at[n + 1] <= pos /\ InString(json, at[n + 1], str, pos)
      /\ pc = "return" => /\ at[n + 1] <= pos /\ Returned(json, at[n + 1], pos, v)
                          /\ ~unset => v = value
      /\ pc \in Lists => Waits(json, at[n], pc, made[n], AtLoop(json, pc, pos + 1))
      /\ pc = "key" => Waits(json, at[n], "object", made[n], AtKey(json, str, pos))
      /\ pc = "colon" => Waits(json, at[n], "object", made[n], AtColon(json, Top.key, pos))

Reads(at, made, v) ==
  /\ at \in [Nat -> 1 .. Len(json) + 1] /\ at[1] = 1
  /\ \A k \in 1 .. Len(stack) :
       at[k] <= pos /\ Made(stack[k].fn, made[k]) /\ (~unset => made[k] = stack[k].made)
  /\ Chain(json, stack, at, made, Below)
  /\ Inner(at, made, v)

\* The text means what the parser has made of it so far and of what follows.
Correct ==
  /\ lax \/ pc = "error" => Meaning(json) = {}
  /\ ~lax /\ pc = "done" => \E v : Meaning(json) = {v} /\ (~unset => v = value)
  /\ ~lax /\ pc \notin {"error", "done"} => IsSequence(str) /\ \E at, made, v : Reads(at, made, v)
-----------------------------------------------------------------------------
(* What skip_whitespace finds, and what the calls wait for. *)

\* The text and the place in it.
LEMMA Text ==
  ASSUME TypeOK
  PROVE  /\ json \in Seq(STRING) /\ Len(json) \in Nat
         /\ pos \in Nat /\ pos \in 0 .. Len(json) /\ pos + 1 \in 1 .. Len(json) + 1
  <1>1. json \in Seq(STRING) /\ pos \in 0 .. Len(json) /\ Len(json) \in Nat
    BY LenProperties DEF TypeOK
  <1>. QED  BY <1>1

\* Here is the last blank, and what the parser sees follows it.
LEMMA HereFollows ==
  ASSUME TypeOK
  PROVE  /\ Here \in pos .. Len(json) /\ Blank(json, pos + 1, Here)
         /\ AtEnd => Here = Len(json)
         /\ ~AtEnd => Here < Len(json) /\ Follows(json, pos + 1, Here + 1)
  <1>1. json \in Seq(STRING) /\ Len(json) \in Nat /\ pos \in 0 .. Len(json)
    BY Text
  <1>2. /\ Here \in pos .. Len(json)
        /\ \A k \in pos + 1 .. Here : json[k] \in Space
        /\ Here < Len(json) => json[Here + 1] \notin Space
    BY <1>1, SkipAllIs DEF Here
  <1>3. Blank(json, pos + 1, Here)
    BY <1>2 DEF Blank
  <1>4. AtEnd => Here = Len(json)
    BY <1>1, <1>2 DEF AtEnd
  <1>5. ASSUME ~AtEnd  PROVE Here < Len(json) /\ Follows(json, pos + 1, Here + 1)
    <2>1. Here < Len(json)
      BY <1>1, <1>2, <1>5 DEF AtEnd
    <2>2. PICK h \in pos + 1 .. Len(json) : h = Here + 1 /\ h - 1 = Here
      BY <1>1, <1>2, <2>1
    <2>3. Follows(json, pos + 1, h)
      BY <1>2, <1>3, <2>1, <2>2 DEF Follows
    <2>. QED  BY <2>1, <2>2, <2>3
  <1>. QED  BY <1>2, <1>3, <1>4, <1>5

\* The parser sees what follows.
LEMMA SeenFollows ==
  ASSUME TypeOK, NEW c, Sees(c)
  PROVE  \E h \in pos + 1 .. Len(json) :
           h = Here + 1 /\ Follows(json, pos + 1, h) /\ json[h] = c
  <1>1. ~AtEnd /\ json[Here + 1] = c
    BY DEF Sees
  <1>2. Here \in pos .. Len(json) /\ Here < Len(json) /\ Follows(json, pos + 1, Here + 1)
    BY <1>1, HereFollows
  <1>3. Here + 1 \in pos + 1 .. Len(json)
    BY <1>2, Text
  <1>. QED  BY <1>1, <1>2, <1>3

\* Nothing but blanks follow, or something else than c.
LEMMA OtherFollows ==
  ASSUME TypeOK
  PROVE  \/ AtEnd /\ Blank(json, pos + 1, Len(json))
         \/ \E h \in pos + 1 .. Len(json) :
              /\ h = Here + 1 /\ Follows(json, pos + 1, h)
              /\ \A c : ~Sees(c) => json[h] # c
  <1>1. CASE AtEnd
    BY <1>1, HereFollows
  <1>2. CASE ~AtEnd
    <2>1. Here \in pos .. Len(json) /\ Here < Len(json) /\ Follows(json, pos + 1, Here + 1)
      BY <1>2, HereFollows
    <2>2. Here + 1 \in pos + 1 .. Len(json)
      BY <2>1, Text
    <2>3. \A c : ~Sees(c) => json[Here + 1] # c
      BY <1>2 DEF Sees
    <2>. QED  BY <2>1, <2>2, <2>3
  <1>. QED  BY <1>1, <1>2

\* The calls that wait for a value.
LEMMA BelowIs ==
  ASSUME IInv, pc \notin {"done", "error"}
  PROVE  /\ Len(stack) \in Nat /\ Below \in Nat /\ Below \in 0 .. Len(stack)
         /\ \A k \in 1 .. Len(stack) : stack[k].fn \in Lists
         /\ pc \in {"value", "string", "return"} => Below = Len(stack)
         /\ pc \in {"object", "array", "key", "colon"} =>
              Below + 1 = Len(stack) /\ Below = Len(stack) - 1 /\ Len(stack) \in 1 .. Len(stack)
  <1>1. IsSequence(stack)
    BY DEF IInv, Place
  <1>2. Len(stack) \in Nat /\ (stack # <<>> => Len(stack) # 0)
    BY <1>1, SequenceFacts
  <1>3. \A k \in 1 .. Len(stack) : stack[k].fn \in Lists
    BY DEF IInv, TypeOK, Lists
  <1>4. CASE pc \in {"value", "string", "return"}
    BY <1>2, <1>3, <1>4 DEF Below
  <1>5. CASE pc \in {"object", "array", "key", "colon"}
    <2>1. stack # <<>> /\ pc \notin {"value", "string", "return"}
      BY <1>5 DEF IInv, Place
    <2>2. Len(stack) # 0 /\ Below = Len(stack) - 1
      BY <1>2, <2>1 DEF Below
    <2>. QED  BY <1>2, <1>3, <2>1, <2>2
  <1>. QED  BY <1>4, <1>5 DEF IInv, TypeOK

\* A parse error is thrown where the text cannot go on.
LEMMA ErrorCorrect ==
  ASSUME IInv, pc \notin {"done", "error"}, NEW at, NEW made, NEW v, Reads(at, made, v),
         Dead(json, at[Below + 1])
  PROVE  Meaning(json) = {}
  <1>1. Below \in Nat /\ \A k \in 1 .. Below : stack[k].fn \in Lists
    BY BelowIs
  <1>2. at \in [Nat -> 1 .. Len(json) + 1] /\ at[1] = 1 /\ Chain(json, stack, at, made, Below)
    BY Zenon DEF Reads
  <1>3. Len(json) \in Nat
    BY Text DEF IInv
  <1>4. PICK m \in Nat : m = Below
    BY <1>1
  <1>5. Chain(json, stack, at, made, m) /\ Dead(json, at[m + 1]) /\ \A k \in 1 .. m : stack[k].fn \in Lists
    BY <1>1, <1>2, <1>4
  <1>. QED  BY <1>2, <1>3, <1>5, DeadAll, Zenon

\* A step that finds out that the text means nothing, ...
LEMMA NoMeaning ==
  ASSUME json' = json, Meaning(json) = {}, pc' # "done",
         lax' \/ pc' = "error"
  PROVE  Correct'
  <1>1. Meaning(json') = {}
    OBVIOUS
  <1>2. pc' = "error" => pc' \in {"error", "done"}
    OBVIOUS
  <1>. QED  BY <1>1, <1>2, Zenon DEF Correct

\* ... and one that reads on.
LEMMA GoodMeaning ==
  ASSUME ~lax', pc' \notin {"error", "done"}, IsSequence(str'), NEW at, NEW made, NEW v, Reads(at, made, v)'
  PROVE  Correct'
  <1>1. pc' # "error" /\ pc' # "done"
    OBVIOUS
  <1>. QED  BY <1>1, Zenon DEF Correct
-----------------------------------------------------------------------------
(* What reads on. *)

LEMMA InnerReturn ==
  ASSUME pc' = "return", json' = json, NEW n, Len(stack') = n, NEW at, NEW made, NEW v,
         at[n + 1] <= pos', Returned(json, at[n + 1], pos', v), ~unset' => v = value'
  PROVE  Inner(at, made, v)'
  BY DEF Inner, Lists

LEMMA InnerString ==
  ASSUME pc' = "string", json' = json, NEW n, Len(stack') = n, NEW at, NEW made, NEW v,
         at[n + 1] <= pos', InString(json, at[n + 1], str', pos')
  PROVE  Inner(at, made, v)'
  BY DEF Inner, Lists

LEMMA InnerValue ==
  ASSUME pc' = "value", json' = json, NEW n, Len(stack') = n, NEW at, NEW made, NEW v,
         at[n + 1] <= pos' + 1, Blank(json, at[n + 1], pos')
  PROVE  Inner(at, made, v)'
  BY DEF Inner, Lists

LEMMA InnerKey ==
  ASSUME pc' = "key", json' = json, NEW n, Len(stack') = n, NEW at, NEW made, NEW v,
         Waits(json, at[n], "object", made[n], AtKey(json, str', pos'))
  PROVE  Inner(at, made, v)'
  BY DEF Inner, Lists

LEMMA InnerColon ==
  ASSUME pc' = "colon", json' = json, NEW n, Len(stack') = n, NEW at, NEW made, NEW v,
         Waits(json, at[n], "object", made[n], AtColon(json, Top.key', pos'))
  PROVE  Inner(at, made, v)'
  BY DEF Inner, Lists

LEMMA InnerLoop ==
  ASSUME NEW list \in Lists, pc' = list, json' = json, NEW n, Len(stack') = n, NEW at, NEW made, NEW v,
         Waits(json, at[n], list, made[n], AtLoop(json, list, pos' + 1))
  PROVE  Inner(at, made, v)'
  <1>1. pc' \notin {"value", "string", "return", "key", "colon"}
    BY DEF Lists
  <1>. QED  BY <1>1 DEF Inner

\* They began before what is read next.
LEMMA StillBefore ==
  ASSUME IInv, NEW at, NEW made, NEW v, Reads(at, made, v), NEW p \in Nat, p >= pos
  PROVE  \A k \in 1 .. Len(stack) : at[k] <= p
  <1>1. pos \in Nat /\ Len(json) \in Nat
    BY Text DEF IInv
  <1>2. ASSUME NEW k \in 1 .. Len(stack)  PROVE at[k] <= p
    <2>1. at[k] <= pos /\ k \in Nat
      BY DEF Reads
    <2>2. PICK b \in 1 .. Len(json) + 1 : b = at[k]
      BY <2>1 DEF Reads
    <2>. QED  BY <1>1, <2>1, <2>2
  <1>. QED  BY <1>2

\* The calls and what they have made are as before.
LEMMA SameCalls ==
  ASSUME IInv, json' = json, stack' = stack, pos' \in Nat, pos' >= pos, unset => unset', NEW at,
         NEW made, NEW v, Reads(at, made, v),
         Below' = Below, NEW w, Inner(at, made, w)'
  PROVE  Reads(at, made, w)'
  <1>1. \A k \in 1 .. Len(stack') :
          at[k] <= pos' /\ Made(stack'[k].fn, made[k]) /\ (~unset' => made[k] = stack'[k].made)
    <2>1. \A k \in 1 .. Len(stack) : at[k] <= pos'
      BY StillBefore
    <2>2. \A k \in 1 .. Len(stack) : Made(stack[k].fn, made[k]) /\ (~unset => made[k] = stack[k].made)
      BY DEF Reads
    <2>. QED  BY <2>1, <2>2
  <1>2. Chain(json', stack', at, made, Below')
    BY DEF Reads
  <1>3. at \in [Nat -> 1 .. Len(json') + 1] /\ at[1] = 1
    BY DEF Reads
  <1>. QED  BY <1>1, <1>2, <1>3, Zenon DEF Reads
-----------------------------------------------------------------------------
(* parse_value and the values without parts *)

\* What follows the blanks follows those before them too.
LEMMA Widen ==
  ASSUME NEW t, NEW b \in Nat, NEW p \in Nat, b <= p + 1, Blank(t, b, p), Len(t) \in Nat
  PROVE  /\ \A h : Follows(t, p + 1, h) => Follows(t, b, h)
         /\ Blank(t, p + 1, Len(t)) => Blank(t, b, Len(t))
  <1>1. ASSUME NEW h, Follows(t, p + 1, h)  PROVE Follows(t, b, h)
    <2>1. h \in p + 1 .. Len(t) /\ t[h] \notin Space /\ Blank(t, p + 1, h - 1)
      BY <1>1, Zenon DEF Follows
    <2>2. h - 1 \in Int /\ h \in b .. Len(t)
      BY <2>1
    <2>3. Blank(t, b, h - 1)
      BY <2>1, <2>2, BlankFrom
    <2>. QED  BY <2>1, <2>2, <2>3, Zenon DEF Follows
  <1>2. Blank(t, p + 1, Len(t)) => Blank(t, b, Len(t))
    BY BlankFrom
  <1>. QED  BY <1>1, <1>2

\* Calls that are left alone wait for what they did.
LEMMA ChainKept ==
  ASSUME NEW t, NEW s, NEW at, NEW made, NEW m \in Nat, Chain(t, s, at, made, m),
         NEW n \in 0 .. m, NEW r, NEW from, NEW done,
         \A k \in 1 .. n : /\ r[k].fn = s[k].fn /\ r[k].key = s[k].key
                           /\ from[k] = at[k] /\ from[k + 1] = at[k + 1] /\ done[k] = made[k]
  PROVE  Chain(t, r, from, done, n)
  <1>1. \A k \in 1 .. n : k \in 1 .. m
    OBVIOUS
  <1>2. ASSUME NEW k \in 1 .. n
        PROVE  Waits(t, from[k], r[k].fn, done[k], AtValue(t, r[k].fn, r[k].key, from[k + 1]))
    <2>1. Waits(t, at[k], s[k].fn, made[k], AtValue(t, s[k].fn, s[k].key, at[k + 1]))
      BY <1>1 DEF Chain
    <2>. QED  BY <2>1
  <1>. QED  BY <1>2 DEF Chain

\* The beginning of the value that is expected.
LEMMA Begins ==
  ASSUME IInv, pc = "value", NEW at, NEW made, NEW v, Reads(at, made, v)
  PROVE  /\ Len(stack) \in Nat /\ Below = Len(stack)
         /\ at[Len(stack) + 1] \in 1 .. Len(json) + 1 /\ at[Len(stack) + 1] <= pos + 1
         /\ \A h : Follows(json, pos + 1, h) => Follows(json, at[Len(stack) + 1], h)
         /\ Blank(json, pos + 1, Len(json)) => Blank(json, at[Len(stack) + 1], Len(json))
         /\ Dead(json, at[Len(stack) + 1]) => Meaning(json) = {}
  <1>1. Len(stack) \in Nat /\ Below = Len(stack) /\ pc \notin {"done", "error"}
    BY BelowIs
  <1>2. PICK n \in Nat : n = Len(stack)
    BY <1>1
  <1>3. pos \in Nat /\ Len(json) \in Nat
    BY Text DEF IInv
  <1>4. at \in [Nat -> 1 .. Len(json) + 1]
    BY Zenon DEF Reads
  <1>5. n + 1 \in Nat
    OBVIOUS
  <1>6. PICK b \in 1 .. Len(json) + 1 : b = at[n + 1]
    BY <1>4, <1>5
  <1>7. b <= pos + 1 /\ Blank(json, b, pos) /\ b \in Nat
    BY <1>2, <1>3, <1>6 DEF Reads, Inner
  <1>8. /\ \A h : Follows(json, pos + 1, h) => Follows(json, b, h)
        /\ Blank(json, pos + 1, Len(json)) => Blank(json, b, Len(json))
    BY <1>3, <1>7, Widen
  <1>9. Dead(json, b) => Meaning(json) = {}
    BY <1>1, <1>2, <1>6, ErrorCorrect
  <1>. QED  BY <1>1, <1>2, <1>6, <1>7, <1>8, <1>9

\* A value that is read at once.
LEMMA ValueRead ==
  ASSUME IInv, pc \in {"value", "string"}, ~lax', IsSequence(str), NEW at, NEW made, NEW v,
         Reads(at, made, v), NEW w, NEW u, NEW z \in Nat, z >= pos, Return(u, z),
         UNCHANGED stack, unset => unset', ~unset' => w = u,
         at[Len(stack) + 1] <= z, Returned(json, at[Len(stack) + 1], z, w)
  PROVE  Correct'
  <1>1. value' = u /\ pos' = z /\ pc' = "return" /\ json' = json /\ str' = str
    BY DEF Return
  <1>2. Inner(at, made, w)'
    BY <1>1, InnerReturn
  <1>3. Below' = Below
    BY <1>1 DEF Below
  <1>4. Reads(at, made, w)'
    BY <1>1, <1>2, <1>3, SameCalls
  <1>5. pc' \notin {"error", "done"} /\ IsSequence(str')
    BY <1>1
  <1>. QED  BY <1>4, <1>5, GoodMeaning

\* true, false or null.
LEMMA LiteralCorrect ==
  ASSUME IInv, pc = "value", ~lax, IsSequence(str), NEW at, NEW made, NEW v, Reads(at, made, v),
         NEW text \in {True, False, Null},
         Literal(text, IF text = Null THEN [Null |-> TRUE] ELSE [Boolean |-> text = True])
  PROVE  Correct'
  <1> DEFINE u == IF text = Null THEN [Null |-> TRUE] ELSE [Boolean |-> text = True]
  <1>. HIDE DEF u
  <1>0. Literal(text, u)
    BY DEF u
  <1>1. /\ Starts(text) /\ Return(u, Here + Len(text)) /\ UNCHANGED <<stack, history>>
    BY <1>0, Zenon DEF Literal
  <1>2. Len(text) \in {4, 5} /\ text[1] \notin Space
    <2>1. text = True \/ text = False \/ text = Null
      OBVIOUS
    <2>2. Len(True) = 4 /\ Len(False) = 5 /\ Len(Null) = 4
      BY DEF True, False, Null
    <2>3. True[1] = "t" /\ False[1] = "f" /\ Null[1] = "n"
      BY DEF True, False, Null
    <2>4. "t" \notin Space /\ "f" \notin Space /\ "n" \notin Space
      BY DEF Space
    <2>. QED  BY <2>1, <2>2, <2>3, <2>4
  <1>3. json \in Seq(STRING) /\ Len(json) \in Nat /\ pos \in Nat /\ Here \in pos .. Len(json)
    BY Text, Places DEF IInv
  <1>4. Here + Len(text) <= Len(json) /\ SubSeq(json, Here + 1, Here + Len(text)) = text
    BY <1>1, Zenon DEF Starts
  <1>5. PICK z \in pos + 1 .. Len(json) : z = Here + Len(text) /\ Here + 1 \in 1 .. z
    BY <1>2, <1>3, <1>4
  <1>6. PICK h \in 1 .. Len(json) : h = Here + 1 /\ z \in h .. Len(json) /\ h - 1 = Here /\ h \in pos + 1 .. Len(json)
    BY <1>3, <1>5
  <1>7. SubSeq(json, h, z) = text
    BY <1>4, <1>5, <1>6
  <1>8. json[h] = text[1]
    BY <1>3, <1>6, <1>7, Part
  <1>9. Follows(json, pos + 1, h)
    <2>1. Blank(json, pos + 1, h - 1)
      BY <1>6, HereFollows DEF IInv
    <2>. QED  BY <1>2, <1>6, <1>8, <2>1, Zenon DEF Follows
  <1>10. PICK b \in 1 .. Len(json) + 1 : b = at[Len(stack) + 1] /\ Follows(json, b, h) /\ b <= pos + 1
    BY <1>9, Begins
  <1>11. h \in b .. Len(json) /\ Blank(json, b, h - 1)
    BY <1>10 DEF Follows
  <1>12. Returned(json, b, z, u)
    BY <1>3, <1>6, <1>7, <1>11, WordBegins DEF u
  <1>13. b <= z
    BY <1>3, <1>5, <1>10
  <1>14. ~lax' /\ unset' = unset /\ stack' = stack
    BY <1>1 DEF history
  <1>15. Return(u, z) /\ z \in Nat /\ z >= pos
    BY <1>1, <1>3, <1>5
  <1>. QED  BY <1>10, <1>12, <1>13, <1>14, <1>15, ValueRead

\* The quote that begins a string.
LEMMA StringCorrect ==
  ASSUME IInv, pc = "value", ~lax, IsSequence(str), NEW at, NEW made, NEW v, Reads(at, made, v),
         Sees(Quote), BeginString("string"), UNCHANGED history
  PROVE  Correct'
  <1>1. pos' = Here + 1 /\ str' = <<>> /\ pc' = "string" /\ UNCHANGED <<json, stack, lax, unset>>
    BY DEF BeginString, history
  <1>2. json \in Seq(STRING) /\ Len(json) \in Nat /\ pos \in Nat
    BY Text DEF IInv
  <1>3. PICK h \in pos + 1 .. Len(json) : h = Here + 1 /\ Follows(json, pos + 1, h) /\ json[h] = Quote
    BY SeenFollows DEF IInv
  <1>4. PICK b \in 1 .. Len(json) + 1 : b = at[Len(stack) + 1] /\ Follows(json, b, h) /\ b <= pos + 1
    BY <1>3, Begins
  <1>5. h \in b .. Len(json) /\ Blank(json, b, h - 1)
    BY <1>4 DEF Follows
  <1>6. InString(json, b, <<>>, h)
    BY <1>2, <1>3, <1>5, StringBegins
  <1>7. Inner(at, made, v)'
    <2>1. b <= pos' /\ InString(json, b, str', pos') /\ Len(stack') = Len(stack)
      BY <1>1, <1>3, <1>5, <1>6
    <2>. QED  BY <1>1, <1>4, <2>1, InnerString
  <1>8. Below' = Below
    BY <1>1 DEF Below
  <1>a. pos' \in Nat /\ pos' >= pos
    BY <1>1, <1>2, <1>3
  <1>9. Reads(at, made, v)'
    BY <1>1, <1>7, <1>8, <1>a, SameCalls
  <1>10. pc' \notin {"error", "done"} /\ IsSequence(str') /\ ~lax'
    <2>1. IsSequence(<<>>)
      BY EmptySeq DEF IsSequence
    <2>. QED  BY <1>1, <2>1
  <1>. QED  BY <1>9, <1>10, GoodMeaning

\* The call that reads a container begins with nothing made.
LEMMA OpenCorrect ==
  ASSUME IInv, pc = "value", ~lax, IsSequence(str), NEW at, NEW made, NEW v, Reads(at, made, v),
         NEW list \in Lists, Sees(Left[list]), Open(list)
  PROVE  Correct'
  <1> DEFINE call == [fn |-> list, made |-> <<>>, key |-> <<>>]
  <1>1. /\ stack' = Append(stack, call) /\ pos' = Here + 1 /\ pc' = list
        /\ UNCHANGED <<json, str, lax, unset>>
    BY DEF Open, history
  <1>a. call.fn = list /\ call.made = <<>>
    OBVIOUS
  <1>. HIDE DEF call
  <1>2. json \in Seq(STRING) /\ Len(json) \in Nat /\ pos \in Nat
    BY Text DEF IInv
  <1>3. PICK h \in pos + 1 .. Len(json) : h = Here + 1 /\ Follows(json, pos + 1, h) /\ json[h] = Left[list]
    BY SeenFollows DEF IInv
  <1>4. PICK n \in Nat : n = Len(stack) /\ Below = n
    BY Begins
  <1>5. PICK b \in 1 .. Len(json) + 1 : b = at[n + 1] /\ Follows(json, b, h)
    BY <1>3, <1>4, Begins
  <1>6. h \in b .. Len(json) /\ Blank(json, b, h - 1)
    BY <1>5 DEF Follows
  <1>7. Waits(json, b, list, <<>>, AtLoop(json, list, h + 1))
    BY <1>2, <1>3, <1>6, ListBegins
  <1>8. /\ Len(stack') = n + 1 /\ stack'[n + 1] = call
        /\ \A k \in 1 .. n : stack'[k] = stack[k]
    BY <1>1, <1>4, Pushed DEF IInv, Place
  <1>9. PICK done : done = [k \in 1 .. n + 1 |-> IF k = n + 1 THEN <<>> ELSE made[k]]
    OBVIOUS
  <1>10. done[n + 1] = <<>> /\ \A k \in 1 .. n : done[k] = made[k]
    BY <1>9
  <1>11. Inner(at, done, v)'
    BY <1>1, <1>3, <1>5, <1>7, <1>8, <1>10, InnerLoop
  <1>12. Below' = n
    <2>1. pc' \notin {"value", "string", "return"}
      BY <1>1 DEF Lists
    <2>. QED  BY <1>8, <2>1 DEF Below
  <1>13. Chain(json', stack', at, done, n)
    <2>1. Chain(json, stack, at, made, n)
      BY <1>4 DEF Reads
    <2>2. \A k \in 1 .. n : /\ stack'[k].fn = stack[k].fn /\ stack'[k].key = stack[k].key
                            /\ at[k] = at[k] /\ at[k + 1] = at[k + 1] /\ done[k] = made[k]
      BY <1>8, <1>10
    <2>3. n \in 0 .. n
      OBVIOUS
    <2>4. PICK r : r = stack'
      OBVIOUS
    <2>5. Chain(json, r, at, done, n)
      BY <2>1, <2>2, <2>3, <2>4, ChainKept
    <2>. QED  BY <1>1, <2>4, <2>5
  <1>14. \A k \in 1 .. Len(stack') :
           /\ at[k] <= pos' /\ Made(stack'[k].fn, done[k])
           /\ ~unset' => done[k] = stack'[k].made
    <2>0. \A k \in 1 .. n : at[k] <= pos'
      <3>1. h \in Nat /\ h >= pos
        BY <1>2
      <3>. QED  BY <1>1, <1>3, <1>4, <3>1, StillBefore
    <2>1. ASSUME NEW k \in 1 .. n
          PROVE  /\ at[k] <= pos' /\ Made(stack'[k].fn, done[k])
                 /\ ~unset' => done[k] = stack'[k].made
      BY <1>1, <1>4, <1>8, <1>10, <2>0 DEF Reads
    <2>2. /\ at[n + 1] <= pos' /\ Made(stack'[n + 1].fn, done[n + 1])
          /\ ~unset' => done[n + 1] = stack'[n + 1].made
      <3>1. b <= h
        BY <1>6
      <3>. QED  BY <1>1, <1>3, <1>5, <1>8, <1>10, <1>a, <3>1, MadeEmpty
    <2>3. \A k \in 1 .. n + 1 : k \in 1 .. n \/ k = n + 1
      OBVIOUS
    <2>. QED  BY <1>8, <2>1, <2>2, <2>3
  <1>15. at \in [Nat -> 1 .. Len(json') + 1] /\ at[1] = 1
    BY <1>1 DEF Reads
  <1>16. Reads(at, done, v)'
    BY <1>11, <1>12, <1>13, <1>14, <1>15, Zenon DEF Reads
  <1>17. pc' \notin {"error", "done"} /\ IsSequence(str') /\ ~lax'
    BY <1>1 DEF Lists
  <1>. QED  BY <1>16, <1>17, GoodMeaning

\* The loop of a number takes it whole.
LEMMA NumberIs ==
  ASSUME IInv, SeesNumber
  PROVE  \E h \in pos + 1 .. Len(json) : \E z \in h .. Len(json) :
           /\ z = NumberEnd /\ NumberText = SubSeq(json, h, z)
           /\ Follows(json, pos + 1, h) /\ json[h] \in Digit \cup {"-"}
           /\ \A k \in h .. z : json[k] \in NumberChars
           /\ z < Len(json) => json[z + 1] \notin NumberChars
  <1>1. PICK c \in Digit \cup {"-"} : Sees(c)
    BY DEF SeesNumber
  <1>2. PICK h \in pos + 1 .. Len(json) : h = Here + 1 /\ Follows(json, pos + 1, h) /\ json[h] = c
    BY <1>1, SeenFollows DEF IInv
  <1>3. Len(json) \in Nat /\ pos \in Nat /\ Here \in pos .. Len(json) /\ NumberEnd > Here
    BY Text, Places DEF IInv
  <1>4. Here \in 0 .. Len(json)
    BY <1>3
  <1>5. /\ NumberEnd \in Here .. Len(json)
        /\ \A k \in Here + 1 .. NumberEnd : json[k] \in NumberChars
        /\ NumberEnd < Len(json) => json[NumberEnd + 1] \notin NumberChars
    BY <1>3, <1>4, SkipAllIs DEF NumberEnd, NumberChars
  <1>6. NumberEnd \in h .. Len(json)
    BY <1>2, <1>3, <1>5
  <1>7. NumberText = SubSeq(json, h, NumberEnd)
    BY <1>2 DEF NumberText
  <1>8. json[h] \in Digit \cup {"-"}
    BY <1>1, <1>2
  <1>. QED  BY <1>2, <1>5, <1>6, <1>7, <1>8, Zenon

\* A number is what JSON says, or the text means nothing.
LEMMA NumberCorrect ==
  ASSUME IInv, pc = "value", ~lax, IsSequence(str), NEW at, NEW made, NEW v, Reads(at, made, v),
         ParseNumber
  PROVE  Correct'
  <1>1. PICK num \in {FromChars(NumberText)} :
          /\ Return(IF num \in OutOfRange THEN [Uninitialized |-> TRUE] ELSE [Number |-> num],
                    NumberEnd)
          /\ lax' = (lax \/ num # NumberText \/ LeadingZero(num) \/ BarePoint(num))
          /\ unset' = (unset \/ num \in OutOfRange)
          /\ UNCHANGED stack
    BY Zenon DEF ParseNumber
  <1>a. PICK h \in pos + 1 .. Len(json) : \E z \in h .. Len(json) :
          /\ z = NumberEnd /\ NumberText = SubSeq(json, h, z)
          /\ Follows(json, pos + 1, h) /\ json[h] \in Digit \cup {"-"}
          /\ \A k \in h .. z : json[k] \in NumberChars
          /\ z < Len(json) => json[z + 1] \notin NumberChars
    BY NumberIs, Zenon DEF ParseNumber
  <1>2. PICK z \in h .. Len(json) :
          /\ z = NumberEnd /\ NumberText = SubSeq(json, h, z)
          /\ Follows(json, pos + 1, h) /\ json[h] \in Digit \cup {"-"}
          /\ \A k \in h .. z : json[k] \in NumberChars
          /\ z < Len(json) => json[z + 1] \notin NumberChars
    BY <1>a, Zenon
  <1>3. json \in Seq(STRING) /\ Len(json) \in Nat /\ pos \in Nat
    BY Text DEF IInv
  <1>4. PICK b \in 1 .. Len(json) + 1 : b = at[Len(stack) + 1] /\ Follows(json, b, h)
    BY <1>2, Begins
  <1>5. h \in b .. Len(json) /\ Blank(json, b, h - 1)
    BY <1>4 DEF Follows
  <1>6. PICK s : s = SubSeq(json, h, z)
    OBVIOUS
  <1>7. /\ Numeral(s) => Returned(json, b, z, [Number |-> s])
        /\ ~Numeral(s) => Dead(json, b)
    BY <1>2, <1>3, <1>5, <1>6, NumberBegins
  <1>7a. s \in Seq(STRING) /\ num = FromChars(s) /\ NumberText = s
    <2>1. h \in 1 .. Len(json)
      BY <1>3
    <2>. QED  BY <1>2, <1>3, <1>6, <2>1, Part
  <1>8. CASE Numeral(s)
    <2>1. num = s /\ ~LeadingZero(s) /\ ~BarePoint(s)
      BY <1>7a, <1>8, NumeralRead, NumeralStrict
    <2> DEFINE u == IF num \in OutOfRange THEN [Uninitialized |-> TRUE] ELSE [Number |-> num]
               w == [Number |-> s]
    <2>2. ~unset' => w = u
      BY <1>1, <2>1
    <2>. HIDE DEF u, w
    <2>3. Return(u, z) /\ UNCHANGED stack /\ ~lax' /\ (unset => unset')
      BY <1>1, <1>2, <1>6, <1>7a, <2>1 DEF u
    <2>4. b <= z /\ z \in Nat /\ z >= pos /\ Returned(json, b, z, w)
      BY <1>3, <1>5, <1>7, <1>8 DEF w
    <2>. QED  BY <1>4, <2>2, <2>3, <2>4, ValueRead
  <1>9. CASE ~Numeral(s)
    <2>1. Meaning(json) = {}
      BY <1>4, <1>7, <1>9, Begins
    <2>2. num # s \/ LeadingZero(num) \/ BarePoint(num)
      BY <1>1, <1>7a, <1>9, WholeIsNumeral DEF ParseNumber
    <2>3. lax' /\ json' = json /\ pc' # "done"
      BY <1>1, <1>7a, <2>2 DEF Return
    <2>. QED  BY <2>1, <2>3, NoMeaning
  <1>. QED  BY <1>8, <1>9

\* Nothing in JSON begins with what parse_value throws at.
LEMMA UnexpectedCorrect ==
  ASSUME IInv, pc = "value", ~lax, NEW at, NEW made, NEW v, Reads(at, made, v), Unexpected
  PROVE  Correct'
  <1>1. json' = json /\ pc' = "error"
    BY DEF Unexpected, Throw
  <1>2. json \in Seq(STRING) /\ Len(json) \in Nat /\ pos \in Nat /\ Here \in pos .. Len(json)
    BY Text, Places DEF IInv
  <1>3. PICK b \in 1 .. Len(json) + 1 : b = at[Len(stack) + 1]
    BY Begins
  <1>4. Dead(json, b)
    <2>1. CASE AtEnd /\ Blank(json, pos + 1, Len(json))
      BY <1>2, <1>3, <2>1, Begins, DeadAtEnd
    <2>2. CASE SeesNumber
      <3>a. PICK h \in pos + 1 .. Len(json) : \E z \in h .. Len(json) :
              /\ z = NumberEnd /\ NumberText = SubSeq(json, h, z)
              /\ Follows(json, pos + 1, h) /\ json[h] \in Digit \cup {"-"}
              /\ \A k \in h .. z : json[k] \in NumberChars
              /\ z < Len(json) => json[z + 1] \notin NumberChars
        BY <2>2, NumberIs, Zenon
      <3>1. PICK z \in h .. Len(json) :
              /\ NumberText = SubSeq(json, h, z)
              /\ Follows(json, pos + 1, h) /\ json[h] \in Digit \cup {"-"}
              /\ \A k \in h .. z : json[k] \in NumberChars
              /\ z < Len(json) => json[z + 1] \notin NumberChars
        BY <3>a, Zenon
      <3>2. Follows(json, b, h)
        BY <1>3, <3>1, Begins
      <3>3. h \in b .. Len(json) /\ Blank(json, b, h - 1)
        BY <3>2 DEF Follows
      <3>4. ~Numeral(SubSeq(json, h, z))
        <4>1. h \in 1 .. Len(json)
          BY <1>2
        <4>2. SubSeq(json, h, z) \in Seq(STRING)
          BY <1>2, <4>1, Part
        <4>3. FromChars(SubSeq(json, h, z)) = <<>>
          BY <2>2, <3>1 DEF Unexpected
        <4>. QED  BY <4>2, <4>3, NumeralRead
      <3>. QED  BY <1>2, <3>1, <3>3, <3>4, NumberBegins
    <2>3. ASSUME ~SeesNumber,
                 NEW h \in pos + 1 .. Len(json), h = Here + 1, Follows(json, pos + 1, h),
                 \A c : ~Sees(c) => json[h] # c
          PROVE  Dead(json, b)
      <3>1. Follows(json, b, h)
        BY <1>3, <2>3, Begins
      <3>2. h \in b .. Len(json) /\ Blank(json, b, h - 1) /\ json[h] \notin Space
        BY <3>1 DEF Follows
      <3>3. json[h] \notin Digit \cup {"-"}
        BY <2>3 DEF SeesNumber
      <3>4. json[h] # Quote /\ \A list \in Lists : json[h] # Left[list]
        <4>1. json[h] \notin {"{", "[", "\""}
          BY <2>3 DEF Unexpected
        <4>. QED  BY <4>1, RightIs DEF Quote
      <3>5. ASSUME NEW l \in h .. Len(json), NEW text \in {True, False, Null}, SubSeq(json, h, l) = text
            PROVE  FALSE
        <4>1. h \in 1 .. Len(json)
          BY <1>2
        <4>2. Len(text) = l - h + 1
          BY <1>2, <3>5, <4>1, Part
        <4>3. Here + Len(text) = l /\ Here + 1 = h
          BY <1>2, <2>3, <4>2
        <4>4. Starts(text)
          BY <3>5, <4>3 DEF Starts
        <4>. QED  BY <4>4 DEF Unexpected
      <3>6. \A l \in h .. Len(json) : SubSeq(json, h, l) \notin {True, False, Null}
        BY <3>5, Zenon
      <3>. QED  BY <1>2, <3>2, <3>3, <3>4, <3>6, NothingBegins
    <2>. QED  BY <2>1, <2>2, <2>3, OtherFollows DEF IInv
  <1>5. Meaning(json) = {}
    BY <1>3, <1>4, Begins
  <1>6. pc' # "done"
    BY <1>1
  <1>. QED  BY <1>1, <1>5, <1>6, NoMeaning

\* All that parse_value does.
LEMMA ParseValueCorrect ==
  ASSUME IInv, ~lax, IsSequence(str), NEW at, NEW made, NEW v, Reads(at, made, v), ParseValue
  PROVE  Correct'
  <1>1. pc = "value"
    BY DEF ParseValue
  <1>2. CASE \E list \in Lists : Sees(Left[list]) /\ Open(list)
    BY <1>1, <1>2, OpenCorrect
  <1>3. CASE Sees("\"") /\ BeginString("string") /\ UNCHANGED history
    BY <1>1, <1>3, StringCorrect DEF Quote
  <1>4. CASE Literal(True, [Boolean |-> TRUE])
    <2>1. True # Null
      BY DEF True, Null
    <2>. QED  BY <1>1, <1>4, <2>1, LiteralCorrect
  <1>5. CASE Literal(False, [Boolean |-> FALSE])
    <2>1. False # Null /\ False # True
      BY DEF True, Null, False
    <2>. QED  BY <1>1, <1>5, <2>1, LiteralCorrect
  <1>6. CASE Literal(Null, [Null |-> TRUE])
    BY <1>1, <1>6, LiteralCorrect
  <1>7. CASE ParseNumber
    BY <1>1, <1>7, NumberCorrect
  <1>8. CASE Unexpected
    BY <1>1, <1>8, UnexpectedCorrect
  <1>9. (Sees("{") /\ Open("object")) \/ (Sees("[") /\ Open("array"))
           => \E list \in Lists : Sees(Left[list]) /\ Open(list)
    BY DEF Left, Lists
  <1>. QED  BY <1>2, <1>3, <1>4, <1>5, <1>6, <1>7, <1>8, <1>9, Zenon DEF ParseValue
-----------------------------------------------------------------------------
(* parse_string *)

\* One more of a key or a string.
LEMMA CollectCorrect ==
  ASSUME IInv, pc \in {"key", "string"}, ~lax, IsSequence(str), NEW at, NEW made, NEW v,
         Reads(at, made, v), NEW c, NEW n \in {1, 2}, Collect(c, n), OneMore(json, pos, n, c)
  PROVE  Correct'
  <1>1. /\ str' = Append(str, c) /\ pos' = pos + n
        /\ UNCHANGED <<json, stack, pc, lax, unset>>
    BY DEF Collect, history
  <1>2. Len(json) \in Nat /\ pos \in Nat
    BY Text DEF IInv
  <1>3. Inner(at, made, v)'
    <2>1. CASE pc = "key"
      <3>1. Waits(json, at[Len(stack)], "object", made[Len(stack)], AtKey(json, str, pos))
        BY <2>1 DEF Reads, Inner
      <3>2. Waits(json, at[Len(stack)], "object", made[Len(stack)], AtKey(json, Append(str, c), pos + n))
        BY <1>2, <3>1, KeyGrows
      <3>. QED  BY <1>1, <2>1, <3>2, InnerKey
    <2>2. CASE pc = "string"
      <3>1. InString(json, at[Len(stack) + 1], str, pos) /\ at[Len(stack) + 1] <= pos
        BY <2>2 DEF Reads, Inner
      <3>2. InString(json, at[Len(stack) + 1], Append(str, c), pos + n)
        BY <1>2, <3>1, StringMore
      <3>3. Len(stack) + 1 \in Nat
        <4>1. Len(stack) \in Nat
          BY <2>2, BelowIs
        <4>. QED  BY <4>1
      <3>4. PICK b \in 1 .. Len(json) + 1 : b = at[Len(stack) + 1]
        BY <3>3 DEF Reads
      <3>5. at[Len(stack) + 1] <= pos'
        BY <1>1, <1>2, <3>1, <3>4
      <3>. QED  BY <1>1, <2>2, <3>2, <3>5, InnerString
    <2>. QED  BY <2>1, <2>2
  <1>4. Below' = Below
    BY <1>1 DEF Below
  <1>a. pos' \in Nat /\ pos' >= pos
    BY <1>1, <1>2
  <1>5. Reads(at, made, v)'
    BY <1>1, <1>3, <1>4, <1>a, SameCalls
  <1>6. ~lax' /\ pc' \notin {"error", "done"} /\ IsSequence(str')
    BY <1>1, Pushed
  <1>. QED  BY <1>5, <1>6, GoodMeaning

\* The key is stored, or the string returned.
LEMMA EndStringCorrect ==
  ASSUME IInv, ~lax, IsSequence(str), NEW at, NEW made, NEW v, Reads(at, made, v),
         EndString, json[pos + 1] = Quote
  PROVE  Correct'
  <1>1. UNCHANGED <<lax, unset>>
    BY DEF EndString, history
  <1>2. Len(json) \in Nat /\ pos \in Nat
    BY Text DEF IInv
  <1>3. CASE pc = "string" /\ Return([String |-> str], pos + 1) /\ UNCHANGED stack
    <2>1. InString(json, at[Len(stack) + 1], str, pos) /\ at[Len(stack) + 1] <= pos
      BY <1>3 DEF Reads, Inner
    <2>2. Returned(json, at[Len(stack) + 1], pos + 1, [String |-> str])
      BY <1>2, <2>1, StringEnd
    <2>3. Len(stack) + 1 \in Nat
      <3>1. Len(stack) \in Nat
        BY <1>3, BelowIs
      <3>. QED  BY <3>1
    <2>4. PICK b \in 1 .. Len(json) + 1 : b = at[Len(stack) + 1]
      BY <2>3 DEF Reads
    <2>5. at[Len(stack) + 1] <= pos + 1
      BY <1>2, <2>1, <2>4
    <2>6. pos + 1 \in Nat /\ pos + 1 >= pos
      BY <1>2
    <2>. QED  BY <1>1, <1>3, <2>2, <2>5, <2>6, ValueRead
  <1>4. CASE /\ pc = "key" /\ stack' = [stack EXCEPT ![Len(stack)].key = str]
             /\ pos' = pos + 1 /\ pc' = "colon" /\ UNCHANGED <<json, str, value>>
    <2>0. pc = "key" /\ pos' = pos + 1 /\ pc' = "colon" /\ json' = json /\ str' = str
      BY <1>4
    <2>1. stack # <<>>
      BY <1>4 DEF IInv, Place
    <2>2. PICK n \in Nat \ {0} : n = Len(stack) /\ stack[n] = Top /\ IsCall(Top)
      BY <2>1, TopIs
    <2> DEFINE e == [Top EXCEPT !.key = str]
    <2>3. e.fn = Top.fn /\ e.made = Top.made /\ e.key = str
      BY <2>2 DEF IsCall
    <2>4. stack' = [stack EXCEPT ![Len(stack)] = e]
      BY <1>4 DEF Top
    <2> HIDE DEF e
    <2>5. Len(stack') = n /\ Top' = e /\ stack'[n] = e /\ \A k \in 1 .. n - 1 : stack'[k] = stack[k]
      BY <2>1, <2>2, <2>4, TopChanged
    <2>6. Waits(json, at[n], "object", made[n], AtKey(json, str, pos))
      BY <2>0, <2>2 DEF Reads, Inner
    <2>7. Waits(json, at[n], "object", made[n], AtColon(json, str, pos + 1))
      BY <1>2, <2>6, KeyEnds
    <2>8. Top.key' = str
      BY <2>3, <2>5
    <2>9. Inner(at, made, v)'
      BY <2>0, <2>5, <2>7, <2>8, InnerColon
    <2>10. PICK m \in Nat : m = n - 1 /\ Below = m /\ Below' = m
      <3>1. Below = n - 1 /\ Below' = n - 1
        BY <2>0, <2>2, <2>5 DEF Below
      <3>. QED  BY <3>1
    <2>11. Chain(json', stack', at, made, Below')
      <3>1. Chain(json, stack, at, made, m)
        BY <2>10 DEF Reads
      <3>2. PICK r : r = stack'
        OBVIOUS
      <3>3. \A k \in 1 .. m : /\ r[k].fn = stack[k].fn /\ r[k].key = stack[k].key
                              /\ at[k] = at[k] /\ at[k + 1] = at[k + 1] /\ made[k] = made[k]
        BY <2>5, <2>10, <3>2
      <3>4. m \in 0 .. m
        OBVIOUS
      <3>5. Chain(json, r, at, made, m)
        BY <3>1, <3>3, <3>4, ChainKept
      <3>. QED  BY <2>0, <2>10, <3>2, <3>5
    <2>12. \A k \in 1 .. Len(stack') :
             at[k] <= pos' /\ Made(stack'[k].fn, made[k]) /\ (~unset' => made[k] = stack'[k].made)
      <3>0. \A k \in 1 .. n : at[k] <= pos'
        <4>1. pos' \in Nat /\ pos' >= pos
          BY <1>2, <2>0
        <4>. QED  BY <2>2, <4>1, StillBefore
      <3>1. \A k \in 1 .. n : stack'[k].fn = stack[k].fn /\ stack'[k].made = stack[k].made
        <4>1. \A k \in 1 .. n : k \in 1 .. n - 1 \/ k = n
          OBVIOUS
        <4>. QED  BY <2>2, <2>3, <2>5, <4>1
      <3>2. \A k \in 1 .. n : Made(stack[k].fn, made[k]) /\ (~unset => made[k] = stack[k].made)
        BY <2>2 DEF Reads
      <3>. QED  BY <1>1, <2>5, <3>0, <3>1, <3>2
    <2>13. at \in [Nat -> 1 .. Len(json') + 1] /\ at[1] = 1
      BY <2>0 DEF Reads
    <2>14. Reads(at, made, v)'
      BY <2>9, <2>11, <2>12, <2>13, Zenon DEF Reads
    <2>15. ~lax' /\ pc' \notin {"error", "done"} /\ IsSequence(str')
      BY <1>1, <2>0
    <2>. QED  BY <2>14, <2>15, GoodMeaning
  <1>. QED  BY <1>3, <1>4 DEF EndString

\* The text ends, or an unknown escape stands in it.
LEMMA StringThrows ==
  ASSUME IInv, pc \in {"key", "string"}, ~lax, NEW at, NEW made, NEW v, Reads(at, made, v),
         Throw, Unended(json, pos)
  PROVE  Correct'
  <1>1. Len(json) \in Nat /\ pos \in Nat
    BY Text DEF IInv
  <1>2. Dead(json, at[Below + 1])
    <2>1. CASE pc = "key"
      <3>1. Waits(json, at[Len(stack)], "object", made[Len(stack)], AtKey(json, str, pos))
        BY <2>1 DEF Reads, Inner
      <3>2. Below + 1 = Len(stack)
        BY <2>1, BelowIs
      <3>. QED  BY <1>1, <3>1, <3>2, KeyStuck
    <2>2. CASE pc = "string"
      <3>1. InString(json, at[Len(stack) + 1], str, pos)
        BY <2>2 DEF Reads, Inner
      <3>2. Below = Len(stack)
        BY <2>2 DEF Below
      <3>. QED  BY <1>1, <3>1, <3>2, StringStuck
    <2>. QED  BY <2>1, <2>2
  <1>3. Meaning(json) = {}
    BY <1>2, ErrorCorrect
  <1>4. json' = json /\ pc' = "error" /\ pc' # "done"
    BY DEF Throw
  <1>. QED  BY <1>3, <1>4, NoMeaning

\* One round of the loop of parse_string.
LEMMA ParseStringCorrect ==
  ASSUME IInv, ~lax, IsSequence(str), NEW at, NEW made, NEW v, Reads(at, made, v), ParseString
  PROVE  Correct'
  <1>1. pc \in {"key", "string"}
    BY DEF ParseString
  <1>2. Quote = "\"" /\ Backslash = "\\"
    BY DEF Quote, Backslash
  <1>3. CASE json[pos + 1] = "\"" /\ EndString
    BY <1>2, <1>3, EndStringCorrect
  <1>4. CASE json[pos + 1] = "\\" /\ Escape
    <2>1. CASE pos + 2 <= Len(json) /\ json[pos + 2] \in Escapable
      <3>1. Collect(Unescaped(json[pos + 2]), 2)
        BY <1>4, <2>1 DEF Escape
      <3>2. OneMore(json, pos, 2, Unescaped(json[pos + 2]))
        BY <1>2, <1>4, <2>1 DEF OneMore
      <3>. QED  BY <1>1, <3>1, <3>2, CollectCorrect
    <2>2. CASE ~(pos + 2 <= Len(json) /\ json[pos + 2] \in Escapable)
      <3>1. Throw
        BY <1>4, <2>2 DEF Escape
      <3>2. Unended(json, pos)
        BY <1>2, <1>4, <2>2 DEF Unended
      <3>. QED  BY <1>1, <3>1, <3>2, StringThrows
    <2>. QED  BY <2>1, <2>2
  <1>5. CASE json[pos + 1] \notin {"\"", "\\"} /\ Collect(json[pos + 1], 1)
    <2>1. OneMore(json, pos, 1, json[pos + 1])
      BY <1>2, <1>5 DEF OneMore
    <2>. QED  BY <1>1, <1>5, <2>1, CollectCorrect
  <1>6. CASE pos >= Len(json) /\ Throw
    BY <1>1, <1>6, StringThrows DEF Unended
  <1>. QED  BY <1>3, <1>4, <1>5, <1>6 DEF ParseString
-----------------------------------------------------------------------------
(* parse_object and parse_array *)

\* The innermost call at its loop test, or behind a key.
LEMMA Inside ==
  ASSUME IInv, pc \in {"object", "array", "key", "colon"}, NEW at, NEW made, NEW v, Reads(at, made, v)
  PROVE  \E n \in Nat \ {0} :
           /\ n = Len(stack) /\ stack[n] = Top /\ stack # <<>> /\ n - 1 \in Nat /\ Below = n - 1
           /\ at[n] \in 1 .. Len(json) + 1 /\ at[n] <= pos /\ n - 1 + 1 = n
           /\ Made(Top.fn, made[n]) /\ (~unset => made[n] = Top.made)
           /\ pc \in Lists => Top.fn = pc
           /\ pc \in {"key", "colon"} => Top.fn = "object"
  <1>1. stack # <<>>
    BY DEF IInv, Place
  <1>2. PICK n \in Nat \ {0} : n = Len(stack) /\ stack[n] = Top
    BY <1>1, TopIs
  <1>3. Below = n - 1 /\ n - 1 \in Nat /\ n - 1 + 1 = n /\ n \in 1 .. n
    BY <1>2 DEF Below
  <1>4. at[n] \in 1 .. Len(json) + 1
    BY DEF Reads
  <1>5. at[n] <= pos /\ Made(Top.fn, made[n]) /\ (~unset => made[n] = Top.made)
    BY <1>2, <1>3 DEF Reads
  <1>6. /\ pc \in Lists => Top.fn = pc
        /\ pc \in {"key", "colon"} => Top.fn = "object"
    BY DEF IInv, Place, Lists
  <1>. QED  BY <1>1, <1>2, <1>3, <1>4, <1>5, <1>6

\* The call returns what it has made.
LEMMA CloseCorrect ==
  ASSUME IInv, ~lax, IsSequence(str), NEW at, NEW made, NEW v, Reads(at, made, v),
         NEW list \in Lists, pc = list, Sees(Right[list]), Close(Container(list, Top.made))
  PROVE  Correct'
  <1> DEFINE u == Container(list, Top.made)
  <1>1. /\ stack' = SubSeq(stack, 1, Len(stack) - 1) /\ pos' = Here + 1 /\ pc' = "return"
        /\ value' = u /\ UNCHANGED <<json, str, lax, unset>>
    BY DEF Close, Return, history
  <1> HIDE DEF u
  <1>2. json \in Seq(STRING) /\ Len(json) \in Nat /\ pos \in Nat /\ pos + 1 \in 1 .. Len(json) + 1
    BY Text DEF IInv
  <1>3. PICK h \in pos + 1 .. Len(json) :
          h = Here + 1 /\ Follows(json, pos + 1, h) /\ json[h] = Right[list]
    BY SeenFollows DEF IInv
  <1>4. PICK n \in Nat \ {0} :
          /\ n = Len(stack) /\ stack # <<>> /\ n - 1 \in Nat /\ Below = n - 1
          /\ at[n] \in 1 .. Len(json) + 1 /\ at[n] <= pos /\ n - 1 + 1 = n
          /\ Made(list, made[n]) /\ (~unset => made[n] = Top.made)
    <2>1. pc \in {"object", "array", "key", "colon"} /\ pc \in Lists
      BY DEF Lists
    <2>. QED  BY <2>1, Inside
  <1>5. Waits(json, at[n], list, made[n], AtLoop(json, list, pos + 1))
    BY <1>4 DEF Reads, Inner
  <1>6. PICK w : w = Container(list, made[n])
    OBVIOUS
  <1>7. Returned(json, at[n], h, w)
    <2>1. PICK m : m = made[n]
      OBVIOUS
    <2>. QED  BY <1>2, <1>3, <1>4, <1>5, <1>6, <2>1, ListEnds
  <1>8. ~unset' => w = value'
    BY <1>1, <1>4, <1>6 DEF u
  <1>9. PICK m \in Nat : m = n - 1 /\ m + 1 = n /\ m \in 0 .. m
    BY <1>4
  <1>10. Len(stack') = m /\ \A k \in 1 .. m : stack'[k] = stack[k]
    <2>1. IsSequence(stack)
      BY DEF IInv, Place
    <2>2. /\ IsSequence(stack') /\ Len(stack') = Len(stack) - 1
          /\ \A i \in DOMAIN stack' : stack'[i] = stack[i]
      BY <1>1, <1>4, <2>1, Popped
    <2>3. DOMAIN stack' = 1 .. Len(stack')
      BY <2>2, SequenceFacts
    <2>. QED  BY <1>4, <1>9, <2>2, <2>3
  <1>11. at[m + 1] <= pos'
    <2>1. PICK b \in 1 .. Len(json) + 1 : b = at[n]
      BY <1>4
    <2>. QED  BY <1>1, <1>2, <1>3, <1>4, <1>9, <2>1
  <1>12. Inner(at, made, w)'
    BY <1>1, <1>3, <1>7, <1>8, <1>9, <1>10, <1>11, InnerReturn
  <1>13. Below' = m
    BY <1>1, <1>10 DEF Below
  <1>14. Chain(json', stack', at, made, Below')
    <2>1. Chain(json, stack, at, made, m)
      BY <1>4, <1>9 DEF Reads
    <2>2. PICK r : r = stack'
      OBVIOUS
    <2>3. \A k \in 1 .. m : /\ r[k].fn = stack[k].fn /\ r[k].key = stack[k].key
                            /\ at[k] = at[k] /\ at[k + 1] = at[k + 1] /\ made[k] = made[k]
      BY <1>10, <2>2
    <2>4. Chain(json, r, at, made, m)
      BY <1>9, <2>1, <2>3, ChainKept
    <2>. QED  BY <1>1, <1>13, <2>2, <2>4
  <1>15. \A k \in 1 .. Len(stack') :
           at[k] <= pos' /\ Made(stack'[k].fn, made[k]) /\ (~unset' => made[k] = stack'[k].made)
    <2>1. pos' \in Nat /\ pos' >= pos
      BY <1>1, <1>2, <1>3
    <2>2. \A k \in 1 .. m : k \in 1 .. Len(stack)
      BY <1>4, <1>9
    <2>3. \A k \in 1 .. m : at[k] <= pos'
      BY <2>1, <2>2, StillBefore
    <2>4. \A k \in 1 .. m : Made(stack[k].fn, made[k]) /\ (~unset => made[k] = stack[k].made)
      BY <2>2 DEF Reads
    <2>. QED  BY <1>1, <1>10, <2>3, <2>4
  <1>16. at \in [Nat -> 1 .. Len(json') + 1] /\ at[1] = 1
    BY <1>1 DEF Reads
  <1>17. Reads(at, made, w)'
    BY <1>12, <1>14, <1>15, <1>16, Zenon DEF Reads
  <1>18. ~lax' /\ pc' \notin {"error", "done"} /\ IsSequence(str')
    BY <1>1
  <1>. QED  BY <1>17, <1>18, GoodMeaning

\* The text ends within the list.
LEMMA LoopThrows ==
  ASSUME IInv, ~lax, NEW at, NEW made, NEW v, Reads(at, made, v), pc \in Lists, AtEnd, Throw
  PROVE  Correct'
  <1>1. json \in Seq(STRING) /\ Len(json) \in Nat /\ pos + 1 \in 1 .. Len(json) + 1
    BY Text DEF IInv
  <1>2. pc \in {"object", "array", "key", "colon"}
    BY DEF Lists
  <1>3. PICK n \in Nat \ {0} : n = Len(stack) /\ n - 1 + 1 = n /\ Below = n - 1
    BY <1>2, Inside
  <1>4. Waits(json, at[n], pc, made[n], AtLoop(json, pc, pos + 1))
    BY <1>3 DEF Reads, Inner
  <1>5. Blank(json, pos + 1, Len(json))
    BY HereFollows DEF IInv
  <1>6. Dead(json, at[n])
    BY <1>1, <1>4, <1>5, LoopStuck
  <1>7. Meaning(json) = {}
    BY <1>2, <1>3, <1>6, ErrorCorrect
  <1>8. json' = json /\ pc' = "error" /\ pc' # "done"
    BY DEF Throw
  <1>. QED  BY <1>7, <1>8, NoMeaning

\* The quote of a key; without it the text means nothing.
LEMMA KeyCorrect ==
  ASSUME IInv, pc = "object", ~lax, IsSequence(str), NEW at, NEW made, NEW v, Reads(at, made, v),
         ~AtEnd, ~Sees(Right["object"]), BeginString("key"),
         lax' = (lax \/ ~Sees(Quote)), UNCHANGED unset
  PROVE  Correct'
  <1>1. /\ pos' = Here + 1 /\ str' = <<>> /\ pc' = "key" /\ UNCHANGED <<json, stack, unset>>
        /\ lax' = ~Sees(Quote)
    BY DEF BeginString
  <1>2. json \in Seq(STRING) /\ Len(json) \in Nat /\ pos \in Nat /\ pos + 1 \in 1 .. Len(json) + 1
    BY Text DEF IInv
  <1>3. PICK h \in pos + 1 .. Len(json) :
          h = Here + 1 /\ Follows(json, pos + 1, h) /\ \A c : ~Sees(c) => json[h] # c
    BY OtherFollows DEF IInv
  <1>4. PICK n \in Nat \ {0} : n = Len(stack) /\ n - 1 + 1 = n /\ Below = n - 1
    BY Inside
  <1>5. Waits(json, at[n], "object", made[n], AtLoop(json, "object", pos + 1))
    <2>1. pc \in Lists
      BY DEF Lists
    <2>. QED  BY <1>4, <2>1 DEF Reads, Inner
  <1>6. CASE Sees(Quote)
    <2>1. json[h] = Quote
      BY <1>3, <1>6 DEF Sees
    <2>2. Waits(json, at[n], "object", made[n], AtKey(json, <<>>, h))
      BY <1>2, <1>3, <1>5, <2>1, ObjectGoesOn
    <2>3. Inner(at, made, v)'
      <3>1. Waits(json, at[n], "object", made[n], AtKey(json, str', pos')) /\ Len(stack') = n
        BY <1>1, <1>3, <1>4, <2>2
      <3>. QED  BY <1>1, <3>1, InnerKey
    <2>4. Below' = Below
      BY <1>1 DEF Below
    <2>5. pos' \in Nat /\ pos' >= pos
      BY <1>1, <1>2, <1>3
    <2>6. Reads(at, made, v)'
      BY <1>1, <2>3, <2>4, <2>5, SameCalls
    <2>7. ~lax' /\ pc' \notin {"error", "done"} /\ IsSequence(str')
      <3>1. IsSequence(<<>>)
        BY EmptySeq DEF IsSequence
      <3>. QED  BY <1>1, <1>6, <3>1
    <2>. QED  BY <2>6, <2>7, GoodMeaning
  <1>7. CASE ~Sees(Quote)
    <2>1. json[h] # Quote /\ json[h] # Right["object"]
      BY <1>3, <1>7
    <2>2. Dead(json, at[n])
      BY <1>2, <1>3, <1>5, <2>1, KeyMissing
    <2>3. Meaning(json) = {}
      BY <1>4, <2>2, ErrorCorrect
    <2>. QED  BY <1>1, <1>7, <2>3, NoMeaning
  <1>. QED  BY <1>6, <1>7

\* The loop test of parse_object.
LEMMA ParseObjectCorrect ==
  ASSUME IInv, ~lax, IsSequence(str), NEW at, NEW made, NEW v, Reads(at, made, v), ParseObject
  PROVE  Correct'
  <1>1. pc = "object"
    BY DEF ParseObject
  <1>2. "object" \in Lists /\ Right["object"] = "}" /\ Quote = "\""
    BY DEF Lists, Right, Quote
  <1>3. Container("object", Top.made) = [Object |-> Top.made]
    BY DEF Container
  <1>4. CASE Sees("}") /\ Close([Object |-> Top.made])
    BY <1>1, <1>2, <1>3, <1>4, CloseCorrect
  <1>5. CASE ~AtEnd /\ ~Sees("}") /\ BeginString("key") /\ lax' = (lax \/ ~Sees("\"")) /\ UNCHANGED unset
    BY <1>1, <1>2, <1>5, KeyCorrect
  <1>6. CASE AtEnd /\ Throw
    BY <1>1, <1>2, <1>6, LoopThrows
  <1>. QED  BY <1>4, <1>5, <1>6 DEF ParseObject
-----------------------------------------------------------------------------
(* To the value behind a colon, or in an array. *)

\* The innermost call goes on to a value, which is read from c on.
LEMMA ToValue ==
  ASSUME IInv, pc \in {"array", "colon"}, ~lax, IsSequence(str), NEW at, NEW made, NEW v,
         Reads(at, made, v), UNCHANGED <<json, stack, str, lax, unset>>, pc' = "value",
         pos' \in Nat, pos' >= pos, NEW c \in 1 .. Len(json) + 1, c <= pos' + 1, Blank(json, c, pos'),
         Waits(json, at[Len(stack)], Top.fn, made[Len(stack)], AtValue(json, Top.fn, Top.key, c))
  PROVE  Correct'
  <1>1. PICK n \in Nat \ {0} : n = Len(stack) /\ stack[n] = Top /\ n - 1 \in Nat /\ Below = n - 1
    BY Inside
  <1>2. PICK from : from = [k \in Nat |-> IF k = n + 1 THEN c ELSE at[k]]
    OBVIOUS
  <1>3. at \in [Nat -> 1 .. Len(json) + 1] /\ at[1] = 1
    BY DEF Reads
  <1>4. /\ from \in [Nat -> 1 .. Len(json) + 1] /\ from[1] = 1 /\ from[n + 1] = c
        /\ \A k \in 1 .. n : from[k] = at[k]
    <2>1. \A k \in Nat : from[k] = IF k = n + 1 THEN c ELSE at[k]
      BY <1>2
    <2>2. from \in [Nat -> 1 .. Len(json) + 1]
      <3>1. \A k \in Nat : (IF k = n + 1 THEN c ELSE at[k]) \in 1 .. Len(json) + 1
        BY <1>3
      <3>. QED  BY <1>2, <3>1
    <2>3. 1 # n + 1 /\ n + 1 \in Nat /\ \A k \in 1 .. n : k \in Nat /\ k # n + 1
      OBVIOUS
    <2>. QED  BY <1>3, <2>1, <2>2, <2>3
  <1>5. Chain(json, stack, from, made, n)
    <2>1. PICK m \in Nat : m = n - 1 /\ m + 1 = n /\ m \in 0 .. m
      BY <1>1
    <2>2. Chain(json, stack, at, made, m)
      BY <1>1, <2>1 DEF Reads
    <2>3. \A k \in 1 .. m : /\ stack[k].fn = stack[k].fn /\ stack[k].key = stack[k].key
                            /\ from[k] = at[k] /\ from[k + 1] = at[k + 1] /\ made[k] = made[k]
      <3>1. \A k \in 1 .. m : k \in 1 .. n /\ k + 1 \in 1 .. n
        BY <2>1
      <3>. QED  BY <1>4, <3>1
    <2>4. Chain(json, stack, from, made, m)
      BY <2>1, <2>2, <2>3, ChainKept
    <2>5. Waits(json, from[n], stack[n].fn, made[n], AtValue(json, stack[n].fn, stack[n].key, from[n + 1]))
      <3>1. from[n] = at[n]
        <4>1. n \in 1 .. n
          OBVIOUS
        <4>. QED  BY <1>4, <4>1
      <3>. QED  BY <1>1, <1>4, <3>1
    <2>6. \A k \in 1 .. n : k \in 1 .. m \/ k = n
      BY <2>1
    <2>. QED  BY <2>4, <2>5, <2>6 DEF Chain
  <1>6. Inner(from, made, v)'
    BY <1>1, <1>4, InnerValue
  <1>7. Below' = n
    BY <1>1 DEF Below
  <1>8. \A k \in 1 .. Len(stack') :
          from[k] <= pos' /\ Made(stack'[k].fn, made[k]) /\ (~unset' => made[k] = stack'[k].made)
    <2>1. \A k \in 1 .. Len(stack) : at[k] <= pos'
      BY StillBefore
    <2>2. \A k \in 1 .. Len(stack) : Made(stack[k].fn, made[k]) /\ (~unset => made[k] = stack[k].made)
      BY DEF Reads
    <2>. QED  BY <1>1, <1>4, <2>1, <2>2
  <1>9. Reads(from, made, v)'
    <2>1. Chain(json', stack', from, made, Below')
      BY <1>5, <1>7
    <2>2. from \in [Nat -> 1 .. Len(json') + 1]
      BY <1>4
    <2>. QED  BY <1>4, <1>6, <1>8, <2>1, <2>2, Zenon DEF Reads
  <1>10. ~lax' /\ pc' \notin {"error", "done"} /\ IsSequence(str')
    OBVIOUS
  <1>. QED  BY <1>9, <1>10, GoodMeaning

\* The colon behind a key.
LEMMA ParseColonCorrect ==
  ASSUME IInv, ~lax, IsSequence(str), NEW at, NEW made, NEW v, Reads(at, made, v), ParseColon
  PROVE  Correct'
  <1>1. pc = "colon" /\ Colon = ":"
    BY DEF ParseColon, Colon
  <1>2. /\ json \in Seq(STRING) /\ Len(json) \in Nat
        /\ pos \in Nat /\ pos \in 0 .. Len(json) /\ pos + 1 \in 1 .. Len(json) + 1
    BY Text DEF IInv
  <1>3. PICK n \in Nat \ {0} : n = Len(stack) /\ n - 1 + 1 = n /\ Below = n - 1 /\ Top.fn = "object"
    BY <1>1, Inside
  <1>4. PICK key : key = Top.key
    OBVIOUS
  <1>5. Waits(json, at[n], "object", made[n], AtColon(json, key, pos))
    BY <1>1, <1>3, <1>4 DEF Reads, Inner
  <1>6. CASE /\ Sees(":") /\ pos' = Here + 1 /\ pc' = "value"
             /\ UNCHANGED <<json, stack, str, value, history>>
    <2>1. PICK h \in pos + 1 .. Len(json) : h = Here + 1 /\ Follows(json, pos + 1, h) /\ json[h] = Colon
      BY <1>1, <1>6, SeenFollows DEF IInv
    <2>2. Waits(json, at[n], "object", made[n], AtValue(json, "object", key, h + 1))
      BY <1>2, <1>5, <2>1, ColonGoesOn
    <2>3. PICK c \in 1 .. Len(json) + 1 : c = h + 1
      BY <1>2
    <2>4. pos' \in Nat /\ pos' >= pos /\ c <= pos' + 1 /\ Blank(json, c, pos')
      <3>1. pos' = h
        BY <1>6, <2>1
      <3>. QED  BY <1>2, <2>3, <3>1 DEF Blank
    <2>5. UNCHANGED <<json, stack, str, lax, unset>> /\ pc' = "value"
      BY <1>6 DEF history
    <2>6. Waits(json, at[Len(stack)], Top.fn, made[Len(stack)], AtValue(json, Top.fn, Top.key, c))
      BY <1>3, <1>4, <2>2, <2>3
    <2>. QED  BY <1>1, <2>4, <2>5, <2>6, ToValue
  <1>7. CASE ~Sees(":") /\ Throw
    <2>1. Blank(json, pos + 1, Len(json)) \/ \E h : Follows(json, pos + 1, h) /\ json[h] # Colon
      BY <1>1, <1>7, OtherFollows DEF IInv
    <2>2. Dead(json, at[n])
      BY <1>2, <1>5, <2>1, ColonStuck
    <2>3. Meaning(json) = {}
      BY <1>1, <1>3, <2>2, ErrorCorrect
    <2>4. json' = json /\ pc' = "error" /\ pc' # "done"
      BY <1>7 DEF Throw
    <2>. QED  BY <2>3, <2>4, NoMeaning
  <1>. QED  BY <1>6, <1>7 DEF ParseColon

\* The loop test of parse_array.
LEMMA ParseArrayCorrect ==
  ASSUME IInv, ~lax, IsSequence(str), NEW at, NEW made, NEW v, Reads(at, made, v), ParseArray
  PROVE  Correct'
  <1>1. pc = "array" /\ "array" \in Lists /\ Right["array"] = "]"
    BY DEF ParseArray, Lists, Right
  <1>2. Container("array", Top.made) = [Array |-> Top.made]
    BY DEF Container
  <1>3. CASE Sees("]") /\ Close([Array |-> Top.made])
    BY <1>1, <1>2, <1>3, CloseCorrect
  <1>4. CASE /\ ~AtEnd /\ ~Sees("]") /\ pos' = Here /\ pc' = "value"
             /\ UNCHANGED <<json, stack, str, value, history>>
    <2>1. /\ json \in Seq(STRING) /\ Len(json) \in Nat /\ pos \in Nat
          /\ pos + 1 \in 1 .. Len(json) + 1
      BY Text DEF IInv
    <2>2. PICK n \in Nat \ {0} : n = Len(stack) /\ Top.fn = "array"
      BY <1>1, Inside
    <2>3. Waits(json, at[n], "array", made[n], AtLoop(json, "array", pos + 1))
      BY <1>1, <2>2 DEF Reads, Inner
    <2>4. PICK h \in pos + 1 .. Len(json) : Follows(json, pos + 1, h) /\ json[h] # Right["array"]
      BY <1>1, <1>4, OtherFollows DEF IInv
    <2>5. PICK key : key = Top.key
      OBVIOUS
    <2>6. PICK c \in 1 .. Len(json) + 1 : c = pos + 1
      BY <2>1
    <2>7. Waits(json, at[n], "array", made[n], AtValue(json, "array", key, c))
      BY <2>1, <2>3, <2>4, <2>6, ArrayGoesOn
    <2>8. pos' \in Nat /\ pos' >= pos /\ c <= pos' + 1 /\ Blank(json, c, pos')
      <3>1. Here \in pos .. Len(json) /\ Blank(json, pos + 1, Here)
        BY HereFollows DEF IInv
      <3>. QED  BY <1>4, <2>1, <2>6, <3>1
    <2>9. UNCHANGED <<json, stack, str, lax, unset>> /\ pc' = "value"
      BY <1>4 DEF history
    <2>10. Waits(json, at[Len(stack)], Top.fn, made[Len(stack)], AtValue(json, Top.fn, Top.key, c))
      BY <2>2, <2>5, <2>7
    <2>. QED  BY <1>1, <2>8, <2>9, <2>10, ToValue
  <1>5. CASE AtEnd /\ Throw
    BY <1>1, <1>5, LoopThrows
  <1>. QED  BY <1>3, <1>4, <1>5 DEF ParseArray
-----------------------------------------------------------------------------
(* Back in the loop, when a value has returned. *)

\* A call whose value has returned.
LEMMA Resumed ==
  ASSUME IInv, pc = "return", stack # <<>>, NEW at, NEW made, NEW v, Reads(at, made, v)
  PROVE  \E n \in Nat \ {0} : \E c \in 1 .. Len(json) + 1 :
           /\ n = Len(stack) /\ stack[n] = Top /\ Below = n /\ n - 1 + 1 = n /\ n - 1 \in Nat
           /\ Top.fn \in Lists /\ IsCall(Top) /\ c = at[n + 1] /\ pos \in c .. Len(json)
           /\ Made(Top.fn, made[n]) /\ (~unset => made[n] = Top.made /\ v = value)
           /\ Waits(json, at[n], Top.fn, made[n], AtValue(json, Top.fn, Top.key, c))
           /\ Returned(json, c, pos, v)
  <1>1. PICK n \in Nat \ {0} : n = Len(stack) /\ stack[n] = Top /\ Top.fn \in Lists /\ IsCall(Top)
    BY TopIs
  <1>2. n \in 1 .. n /\ n + 1 \in Nat /\ n - 1 + 1 = n /\ n - 1 \in Nat
    OBVIOUS
  <1>3. PICK c \in 1 .. Len(json) + 1 : c = at[n + 1]
    BY <1>2 DEF Reads
  <1>4. c <= pos /\ Returned(json, c, pos, v) /\ (~unset => v = value)
    BY <1>1, <1>3 DEF Reads, Inner
  <1>5. pos \in c .. Len(json)
    BY <1>4, Text DEF IInv
  <1>6. Below = n
    BY <1>1 DEF Below
  <1>7. Waits(json, at[n], Top.fn, made[n], AtValue(json, Top.fn, Top.key, c))
    BY <1>1, <1>2, <1>3, <1>6 DEF Reads, Chain
  <1>8. Made(Top.fn, made[n]) /\ (~unset => made[n] = Top.made)
    BY <1>1, <1>2 DEF Reads
  <1>. QED  BY <1>1, <1>2, <1>3, <1>4, <1>5, <1>6, <1>7, <1>8

\* The loop goes on with the value added.
LEMMA ToLoop ==
  ASSUME IInv, pc = "return", stack # <<>>, ~lax, IsSequence(str), NEW at, NEW made, NEW v,
         Reads(at, made, v), UNCHANGED <<json, str, lax, unset>>, pc' = Top.fn,
         stack' = [stack EXCEPT ![Len(stack)].made = Added], pos' \in Nat, pos' >= pos,
         Waits(json, at[Len(stack)], Top.fn, AddedTo(Top.fn, Top.key, made[Len(stack)], v),
               AtLoop(json, Top.fn, pos' + 1))
  PROVE  Correct'
  <1>0. PICK n \in Nat \ {0} : \E c \in 1 .. Len(json) + 1 :
          /\ n = Len(stack) /\ stack[n] = Top /\ Below = n /\ n - 1 + 1 = n /\ n - 1 \in Nat
          /\ Top.fn \in Lists /\ IsCall(Top)
          /\ Made(Top.fn, made[n]) /\ (~unset => made[n] = Top.made /\ v = value)
    BY Resumed
  <1>1. /\ n = Len(stack) /\ stack[n] = Top /\ Below = n /\ n - 1 + 1 = n /\ n - 1 \in Nat
        /\ Top.fn \in Lists /\ IsCall(Top)
        /\ Made(Top.fn, made[n]) /\ (~unset => made[n] = Top.made /\ v = value)
    BY <1>0, Zenon
  <1>2. PICK list, key : list \in Lists /\ list = Top.fn /\ key = Top.key
    BY <1>1
  <1>3. PICK more : more = AddedTo(list, key, made[n], v)
    OBVIOUS
  <1>4. Made(list, more)
    <2>1. PICK m : m = made[n]
      OBVIOUS
    <2>. QED  BY <1>1, <1>2, <1>3, <2>1, MadeAdded
  <1>5. ~unset => more = Added
    BY <1>1, <1>2, <1>3 DEF Added, AddedTo
  <1> DEFINE e == [Top EXCEPT !.made = Added]
  <1>6. e.fn = list /\ e.made = Added /\ e.key = key
    BY <1>1, <1>2 DEF IsCall
  <1>7. stack' = [stack EXCEPT ![Len(stack)] = e]
    BY DEF Top
  <1> HIDE DEF e
  <1>8. Len(stack') = n /\ stack'[n] = e /\ \A k \in 1 .. n - 1 : stack'[k] = stack[k]
    BY <1>1, <1>7, TopChanged
  <1>9. PICK done : done = [k \in 1 .. n |-> IF k = n THEN more ELSE made[k]]
    OBVIOUS
  <1>10. done[n] = more /\ \A k \in 1 .. n - 1 : done[k] = made[k]
    <2>1. \A k \in 1 .. n : done[k] = IF k = n THEN more ELSE made[k]
      BY <1>9
    <2>2. n \in 1 .. n /\ \A k \in 1 .. n - 1 : k \in 1 .. n /\ k # n
      OBVIOUS
    <2>. QED  BY <2>1, <2>2
  <1>11. Inner(at, done, v)'
    <2>1. Waits(json, at[n], list, done[n], AtLoop(json, list, pos' + 1))
      BY <1>1, <1>2, <1>3, <1>10
    <2>. QED  BY <1>2, <1>8, <2>1, InnerLoop
  <1>12. PICK m \in Nat : m = n - 1 /\ m \in 0 .. n
    BY <1>1
  <1>13. Below' = m
    <2>1. pc' \notin {"value", "string", "return"}
      BY <1>2 DEF Lists
    <2>. QED  BY <1>8, <1>12, <2>1 DEF Below
  <1>14. Chain(json', stack', at, done, Below')
    <2>1. Chain(json, stack, at, made, n)
      BY <1>1 DEF Reads
    <2>2. PICK r : r = stack'
      OBVIOUS
    <2>3. \A k \in 1 .. m : /\ r[k].fn = stack[k].fn /\ r[k].key = stack[k].key
                            /\ at[k] = at[k] /\ at[k + 1] = at[k + 1] /\ done[k] = made[k]
      BY <1>8, <1>10, <1>12, <2>2
    <2>4. Chain(json, r, at, done, m)
      BY <1>12, <2>1, <2>3, ChainKept
    <2>. QED  BY <1>13, <2>2, <2>4
  <1>15. \A k \in 1 .. Len(stack') :
           at[k] <= pos' /\ Made(stack'[k].fn, done[k]) /\ (~unset' => done[k] = stack'[k].made)
    <2>1. \A k \in 1 .. n : at[k] <= pos'
      BY <1>1, StillBefore
    <2>2. \A k \in 1 .. n : Made(stack[k].fn, made[k]) /\ (~unset => made[k] = stack[k].made)
      BY <1>1 DEF Reads
    <2>3. ASSUME NEW k \in 1 .. n
          PROVE  Made(stack'[k].fn, done[k]) /\ (~unset' => done[k] = stack'[k].made)
      <3>1. CASE k = n
        BY <1>4, <1>5, <1>6, <1>8, <1>10, <3>1
      <3>2. CASE k # n
        <4>1. k \in 1 .. n - 1
          BY <3>2
        <4>. QED  BY <1>8, <1>10, <2>2, <4>1
      <3>. QED  BY <3>1, <3>2
    <2>. QED  BY <1>8, <2>1, <2>3
  <1>16. at \in [Nat -> 1 .. Len(json') + 1] /\ at[1] = 1
    BY DEF Reads
  <1>17. Reads(at, done, v)'
    BY <1>11, <1>14, <1>15, <1>16, Zenon DEF Reads
  <1>18. ~lax' /\ pc' \notin {"error", "done"} /\ IsSequence(str')
    BY <1>2 DEF Lists
  <1>. QED  BY <1>17, <1>18, GoodMeaning

\* A value is followed by a comma, by the bracket, or by an error.
LEMMA ContinueCorrect ==
  ASSUME IInv, ~lax, IsSequence(str), NEW at, NEW made, NEW v, Reads(at, made, v), Continue
  PROVE  Correct'
  <1>1. /\ pc = "return" /\ stack # <<>> /\ UNCHANGED <<json, str, lax, unset>>
        /\ stack' = [stack EXCEPT ![Len(stack)].made = Added]
    BY DEF Continue, history
  <1>2. Comma = "," /\ Closing = Right[Top.fn]
    <2>1. Top.fn \in Lists
      BY <1>1, TopIs
    <2>. QED  BY <2>1, RightIs DEF Comma, Closing
  <1>3. json \in Seq(STRING) /\ Len(json) \in Nat /\ pos \in Nat
    BY Text DEF IInv
  <1>4. PICK n \in Nat \ {0} : \E c \in 1 .. Len(json) + 1 :
          /\ n = Len(stack) /\ Below = n /\ n - 1 + 1 = n /\ n - 1 \in Nat
          /\ Top.fn \in Lists /\ pos \in c .. Len(json) /\ Made(Top.fn, made[n])
          /\ Waits(json, at[n], Top.fn, made[n], AtValue(json, Top.fn, Top.key, c))
          /\ Returned(json, c, pos, v)
    BY <1>1, Resumed, Zenon
  <1>5. PICK c \in 1 .. Len(json) + 1 :
          /\ pos \in c .. Len(json)
          /\ Waits(json, at[n], Top.fn, made[n], AtValue(json, Top.fn, Top.key, c))
          /\ Returned(json, c, pos, v)
    BY <1>4, Zenon
  <1>6. PICK list, key, m, b :
          list \in Lists /\ list = Top.fn /\ key = Top.key /\ m = made[n] /\ b = at[n]
    BY <1>4
  <1>7. Made(list, m) /\ Waits(json, b, list, m, AtValue(json, list, key, c))
    BY <1>4, <1>5, <1>6
  <1>8. CASE Sees(",") /\ pos' = Here + 1 /\ pc' = Top.fn
    <2>1. PICK h \in pos + 1 .. Len(json) : h = Here + 1 /\ Follows(json, pos + 1, h) /\ json[h] = Comma
      BY <1>2, <1>8, SeenFollows DEF IInv
    <2>2. Waits(json, b, list, AddedTo(list, key, m, v), AtLoop(json, list, h + 1))
      BY <1>3, <1>5, <1>6, <1>7, <2>1, GoesOn
    <2>3. pos' = h /\ pos' \in Nat /\ pos' >= pos
      <3>1. pos' = Here + 1
        BY <1>8
      <3>2. pos' = h
        BY <2>1, <3>1
      <3>. QED  BY <1>3, <3>2
    <2>4. Waits(json, at[Len(stack)], Top.fn, AddedTo(Top.fn, Top.key, made[Len(stack)], v),
                AtLoop(json, Top.fn, pos' + 1))
      BY <1>4, <1>6, <2>2, <2>3
    <2>. QED  BY <1>1, <1>8, <2>3, <2>4, ToLoop
  <1>9. CASE Sees(Closing) /\ pos' = Here /\ pc' = Top.fn
    <2>1. PICK h \in pos + 1 .. Len(json) :
            h = Here + 1 /\ Follows(json, pos + 1, h) /\ json[h] = Right[list]
      BY <1>2, <1>6, <1>9, SeenFollows DEF IInv
    <2>2. Waits(json, b, list, AddedTo(list, key, m, v), AtLoop(json, list, h))
      BY <1>3, <1>5, <1>6, <1>7, <2>1, GoesToEnd
    <2>3. pos' + 1 = h /\ pos' \in Nat /\ pos' >= pos
      <3>1. Here \in pos .. Len(json)
        BY HereFollows DEF IInv
      <3>. QED  BY <1>3, <1>9, <2>1, <3>1
    <2>4. Waits(json, at[Len(stack)], Top.fn, AddedTo(Top.fn, Top.key, made[Len(stack)], v),
                AtLoop(json, Top.fn, pos' + 1))
      BY <1>4, <1>6, <2>2, <2>3
    <2>. QED  BY <1>1, <1>9, <2>3, <2>4, ToLoop
  <1>10. CASE ~Sees(",") /\ ~Sees(Closing) /\ pc' = "error"
    <2>1. \/ Blank(json, pos + 1, Len(json))
          \/ \E h : Follows(json, pos + 1, h) /\ json[h] # Comma /\ json[h] # Right[list]
      BY <1>2, <1>6, <1>10, OtherFollows DEF IInv
    <2>2. Dead(json, b)
      BY <1>3, <1>5, <1>6, <1>7, <2>1, GoesNowhere
    <2>3. PICK k \in Nat : k = n - 1 /\ k \in 0 .. n /\ k + 1 = n
      BY <1>4
    <2>4. Chain(json, stack, at, made, k) /\ at \in [Nat -> 1 .. Len(json) + 1] /\ at[1] = 1
      <3>1. Chain(json, stack, at, made, n) /\ at \in [Nat -> 1 .. Len(json) + 1] /\ at[1] = 1
        BY <1>4 DEF Reads
      <3>2. \A i \in 1 .. k : i \in 1 .. n
        BY <2>3
      <3>. QED  BY <3>1, <3>2 DEF Chain
    <2>5. \A i \in 1 .. k : stack[i].fn \in Lists
      <3>1. \A i \in 1 .. Len(stack) : stack[i].fn \in Lists
        BY <1>1, BelowIs
      <3>. QED  BY <1>4, <2>3, <3>1
    <2>6. Meaning(json) = {}
      BY <1>3, <1>6, <2>2, <2>3, <2>4, <2>5, DeadAll
    <2>7. json' = json /\ pc' # "done"
      BY <1>1, <1>10
    <2>. QED  BY <1>10, <2>6, <2>7, NoMeaning
  <1>. QED  BY <1>8, <1>9, <1>10 DEF Continue
-----------------------------------------------------------------------------
(* parse *)

\* The outermost value has returned.
LEMMA FinishCorrect ==
  ASSUME IInv, ~lax, NEW at, NEW made, NEW v, Reads(at, made, v), Finish
  PROVE  Correct'
  <1>1. /\ pc = "return" /\ stack = <<>> /\ UNCHANGED <<json, value, lax, unset>>
        /\ pc' = IF AtEnd THEN "done" ELSE "error"
    BY DEF Finish, history
  <1>2. Len(json) \in Nat /\ pos \in Nat /\ pos \in 0 .. Len(json) /\ pos <= Len(json)
    <2>1. Len(json) \in Nat /\ pos \in Nat /\ pos \in 0 .. Len(json)
      BY Text DEF IInv
    <2>. QED  BY <2>1
  <1>3. Returned(json, 1, pos, v) /\ (~unset => v = value)
    <2>1. Len(stack) = 0 /\ at[1] = 1
      BY <1>1 DEF Reads
    <2>. QED  BY <1>1, <2>1 DEF Reads, Inner
  <1>4. \A w : w \in Meaning(json) <=> Blank(json, pos + 1, Len(json)) /\ w = v
    <2>1. Len(json) \in 0 .. Len(json) /\ Sep(json, Len(json))
      BY <1>2 DEF Sep
    <2>. QED  BY <1>2, <1>3, <2>1 DEF Returned, Meaning
  <1>5. CASE AtEnd
    <2>1. Blank(json, pos + 1, Len(json))
      BY <1>5, HereFollows DEF IInv
    <2>2. Meaning(json) = {v}
      BY <1>4, <2>1
    <2>3. pc' = "done" /\ pc' # "error" /\ ~lax'
      BY <1>1, <1>5
    <2>4. Meaning(json') = {v} /\ (~unset' => v = value')
      BY <1>1, <1>3, <2>2
    <2>. QED  BY <2>3, <2>4, Zenon DEF Correct
  <1>6. CASE ~AtEnd
    <2>1. Here < Len(json) /\ Here \in pos .. Len(json) /\ Follows(json, pos + 1, Here + 1)
      BY <1>6, HereFollows DEF IInv
    <2>2. ~Blank(json, pos + 1, Len(json))
      BY <2>1 DEF Follows, Blank
    <2>3. Meaning(json) = {}
      BY <1>4, <2>2
    <2>4. pc' = "error" /\ pc' # "done" /\ json' = json
      BY <1>1, <1>6
    <2>. QED  BY <2>3, <2>4, NoMeaning
  <1>. QED  BY <1>5, <1>6

\* A text that is not JSON does not become it.
LEMMA LaxStays ==
  ASSUME Next, lax
  PROVE  lax'
  <1>1. CASE ParseValue
    <2>1. ASSUME NEW kind, Open(kind)  PROVE lax'
      BY <2>1 DEF Open, history
    <2>2. ASSUME NEW text, NEW v, Literal(text, v)  PROVE lax'
      BY <2>2 DEF Literal, history
    <2>3. ASSUME UNCHANGED history  PROVE lax'
      BY <2>3 DEF history
    <2>4. ASSUME ParseNumber  PROVE lax'
      BY <2>4 DEF ParseNumber
    <2>5. ASSUME Unexpected  PROVE lax'
      BY <2>5 DEF Unexpected, Throw, history
    <2>. QED  BY <1>1, <2>1, <2>2, <2>3, <2>4, <2>5, Zenon DEF ParseValue
  <1>2. CASE ParseString
    BY <1>2 DEF ParseString, EndString, Escape, Collect, Throw, history
  <1>3. CASE ParseObject
    BY <1>3 DEF ParseObject, Close, Throw, history
  <1>4. CASE ParseColon
    BY <1>4 DEF ParseColon, Throw, history
  <1>5. CASE ParseArray
    BY <1>5 DEF ParseArray, Close, Throw, history
  <1>6. CASE Continue
    BY <1>6 DEF Continue, history
  <1>7. CASE Finish
    BY <1>7 DEF Finish, history
  <1>. QED  BY <1>1, <1>2, <1>3, <1>4, <1>5, <1>6, <1>7 DEF Next

\* A parser that has returned or thrown stops.
LEMMA Stops ==
  ASSUME pc \in {"done", "error"}
  PROVE  ~Next
  BY DEF Next, ParseValue, ParseString, ParseObject, ParseColon, ParseArray, Continue, Finish

\* At first nothing is read and one value expected.
LEMMA InitCorrect == Init => Correct
  <1> SUFFICES ASSUME Init PROVE Correct
    OBVIOUS
  <1>1. /\ pos = 0 /\ stack = <<>> /\ str = <<>> /\ pc = "value" /\ ~lax
    BY DEF Init
  <1>2. Len(json) \in Nat
    BY InitIInv, Text DEF IInv
  <1>3. PICK at : at = [k \in Nat |-> 1]
    OBVIOUS
  <1>4. at \in [Nat -> 1 .. Len(json) + 1] /\ at[1] = 1
    BY <1>2, <1>3
  <1>5. Len(stack) = 0
    BY <1>1
  <1>6. Blank(json, 1, 0)
    BY DEF Blank
  <1>7. Inner(at, <<>>, <<>>)
    BY <1>1, <1>4, <1>5, <1>6 DEF Inner, Lists
  <1>8. Chain(json, stack, at, <<>>, Below)
    BY <1>1, <1>5 DEF Chain, Below
  <1>9. Reads(at, <<>>, <<>>)
    BY <1>4, <1>5, <1>7, <1>8 DEF Reads
  <1>10. IsSequence(str)
    BY <1>1, EmptySeq DEF IsSequence
  <1>11. pc # "error" /\ pc # "done"
    BY <1>1
  <1>. QED  BY <1>1, <1>9, <1>10, <1>11, Zenon DEF Correct

\* Every step reads on as the grammar does.
LEMMA StepCorrect == IInv /\ Correct /\ [Next]_vars => Correct'
  <1> SUFFICES ASSUME IInv, Correct, [Next]_vars PROVE Correct'
    OBVIOUS
  <1>1. CASE Next /\ lax
    <2>1. lax' /\ json' = json
      BY <1>1, LaxStays, NextGoes DEF Goes
    <2>2. Meaning(json') = {}
      BY <1>1, <2>1 DEF Correct
    <2>. QED  BY <2>1, <2>2 DEF Correct
  <1>2. CASE Next /\ ~lax
    <2>1. pc \notin {"error", "done"}
      BY <1>2, Stops
    <2>2. IsSequence(str) /\ \E at, made, v : Reads(at, made, v)
      BY <1>2, <2>1 DEF Correct
    <2>3. PICK at, made, v : Reads(at, made, v)
      BY <2>2
    <2>4. CASE ParseValue
      BY <1>2, <2>2, <2>3, <2>4, ParseValueCorrect
    <2>5. CASE ParseString
      BY <1>2, <2>2, <2>3, <2>5, ParseStringCorrect
    <2>6. CASE ParseObject
      BY <1>2, <2>2, <2>3, <2>6, ParseObjectCorrect
    <2>7. CASE ParseColon
      BY <1>2, <2>2, <2>3, <2>7, ParseColonCorrect
    <2>8. CASE ParseArray
      BY <1>2, <2>2, <2>3, <2>8, ParseArrayCorrect
    <2>9. CASE Continue
      BY <1>2, <2>2, <2>3, <2>9, ContinueCorrect
    <2>10. CASE Finish
      BY <1>2, <2>3, <2>10, FinishCorrect
    <2>. QED  BY <1>2, <2>4, <2>5, <2>6, <2>7, <2>8, <2>9, <2>10 DEF Next
  <1>3. CASE UNCHANGED vars
    <2>1. UNCHANGED <<json, pos, stack, str, value, pc, lax, unset>>
      BY <1>3 DEF vars, history
    <2>2. CASE lax \/ pc \in {"error", "done"}
      BY <2>1, <2>2 DEF Correct
    <2>3. CASE ~lax /\ pc \notin {"error", "done"}
      <3>1. IsSequence(str) /\ \E at, made, v : Reads(at, made, v)
        BY <2>3 DEF Correct
      <3>2. PICK at, made, v : Reads(at, made, v)
        BY <3>1
      <3>3. Below' = Below /\ Top' = Top
        BY <2>1 DEF Below, Top
      <3>4. Inner(at, made, v)'
        <4>1. Inner(at, made, v)
          BY <3>2 DEF Reads
        <4>. QED  BY <2>1, <3>3, <4>1 DEF Inner
      <3>5. pos' \in Nat /\ pos' >= pos
        <4>1. pos \in Nat
          BY Text DEF IInv
        <4>. QED  BY <2>1, <4>1
      <3>6. Reads(at, made, v)'
        BY <2>1, <3>2, <3>3, <3>4, <3>5, SameCalls
      <3>7. IsSequence(str') /\ ~lax' /\ pc' \notin {"error", "done"}
        BY <2>1, <2>3, <3>1
      <3>. QED  BY <3>6, <3>7, GoodMeaning
    <2>. QED  BY <2>2, <2>3
  <1>. QED  BY <1>1, <1>2, <1>3

\* The text means what the parser has read and is to read.
THEOREM Understanding == Spec => []Correct
  <1>1. Init => IInv /\ Correct
    BY InitIInv, InitCorrect
  <1>2. IInv /\ Correct /\ [Next]_vars => (IInv /\ Correct)'
    BY StepIInv, StepCorrect
  <1>. QED  BY <1>1, <1>2, PTL DEF Spec

\* Whatever the text: if parse throws, the text is not JSON, and if it
\* returns, having met no key without a quote, no number that JSON writes
\* otherwise and none out of range, it returns the one value that the text means.
THEOREM TextsOfJsonAreParsed == Spec => []JsonIsParsed
  <1>1. Correct => JsonIsParsed
    <2> SUFFICES ASSUME Correct PROVE JsonIsParsed
      OBVIOUS
    <2>1. pc = "error" => Meaning(json) = {}
      BY DEF Correct
    <2>2. ASSUME pc = "done", ~lax, ~unset  PROVE Meaning(json) = {value}
      BY <2>2 DEF Correct
    <2>. QED  BY <2>1, <2>2 DEF JsonIsParsed
  <1>. QED  BY <1>1, Understanding, PTL

\* Whatever the text, what parse accepts is JSON, unless it has met a key
\* without its first quote, characters skipped after a number, a zero in front
\* of a number, or a point without a digit on each side, as in [01], [1.] and
\* [-.5]; in which case it never is.
THEOREM AcceptedTextsAreJson == Spec => []AcceptedIsJson
  <1>1. IInv /\ Correct => AcceptedIsJson
    <2> SUFFICES ASSUME Correct, pc = "done" PROVE lax <=> Meaning(json) = {}
      BY DEF AcceptedIsJson
    <2>1. CASE lax
      BY <2>1 DEF Correct
    <2>2. CASE ~lax
      BY <2>2 DEF Correct
    <2>. QED  BY <2>1, <2>2
  <1>. QED  BY <1>1, Invariance, Understanding, PTL
==============================================================================
