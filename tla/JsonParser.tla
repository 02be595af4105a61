------------------------------ MODULE JsonParser ------------------------------
(***************************************************************************)
(* Utils::JSON::JsonParser (CommonUtils/JSON): recursive descent over the  *)
(* characters of a text.  A step is what the parser does between two calls *)
(* or loop tests; one character of a string is a step.                     *)
(*                                                                         *)
(* A text is a sequence of one-character strings.  A JsonValue is a record *)
(* with one field, named for the alternative that its variant holds; a     *)
(* number is the numeral that std::from_chars read it from.                *)
(***************************************************************************)
EXTENDS JsonGrammar, FiniteSets

CONSTANTS
  Inputs,      \* the texts that parse may be given
  OutOfRange   \* the numerals among them that no double can hold

ASSUME JsonAssumption == Inputs \subseteq Seq(STRING)

VARIABLES
  json, pos,   \* the text, and how many of its characters were read
  stack,       \* the calls of parse_object and parse_array: what each has
               \* made so far and, in an object, the key it has read
  str,         \* what parse_string has collected
  value,       \* the value returned last
  pc,          \* "value", "object" and "array" (their loop tests), "key" and
               \* "string" (parse_string, called for either), "colon",
               \* "return", "done", or "error": a parse error was thrown
  lax,         \* history: a key did not begin with a quote, or a number was
               \* read that is written as JSON does not write it
  unset        \* history: a number was out of range

history == <<lax, unset>>
vars == <<json, pos, stack, str, value, pc, history>>

Init ==
  /\ json \in Inputs /\ pos = 0 /\ stack = <<>>
  /\ str = <<>> /\ value = [Null |-> TRUE] /\ pc = "value"
  /\ lax = FALSE /\ unset = FALSE
-----------------------------------------------------------------------------
\* The place after p and all characters of chars that follow there.
SkipAll(chars, p) ==
  p + Cardinality({k \in p + 1 .. Len(json) : \A i \in p + 1 .. k : json[i] \in chars})

\* skip_whitespace, with which most functions begin.
Here == SkipAll(Space, pos)
AtEnd == Here >= Len(json)
Sees(c) == ~AtEnd /\ json[Here + 1] = c

Throw == pc' = "error" /\ UNCHANGED <<json, pos, stack, str, value, history>>
Return(v, p) == value' = v /\ pos' = p /\ pc' = "return" /\ UNCHANGED <<json, str>>

Top == stack[Len(stack)]

Open(kind) ==
  /\ stack' = Append(stack, [fn |-> kind, made |-> <<>>, key |-> <<>>])
  /\ pos' = Here + 1 /\ pc' = kind
  /\ UNCHANGED <<json, str, value, history>>

\* The end of a container, which is the value that its caller waits for.
Close(v) ==
  /\ stack' = SubSeq(stack, 1, Len(stack) - 1)
  /\ Return(v, Here + 1)
  /\ UNCHANGED history
-----------------------------------------------------------------------------
(* parse_value and the values without parts *)

\* Skips one character, which the callers take to be the opening quote.
BeginString(caller) ==
  /\ pos' = Here + 1 /\ str' = <<>> /\ pc' = caller
  /\ UNCHANGED <<json, stack, value>>

True == <<"t", "r", "u", "e">>
False == <<"f", "a", "l", "s", "e">>
Null == <<"n", "u", "l", "l">>

\* Slip: a word is known by its first letter.
StartsWithLetter(text) == Sees(text[1])

Starts(text) == Here + Len(text) <= Len(json) /\ SubSeq(json, Here + 1, Here + Len(text)) = text

\* parse_bool and parse_null
Literal(text, v) == Starts(text) /\ Return(v, Here + Len(text)) /\ UNCHANGED <<stack, history>>

\* What std::from_chars can read: digits, a point among them, an exponent.
Readable(s) ==
  LET mantissa(i) == Unsigned(s) .. i
  IN  \E i \in Unsigned(s) .. Len(s) :
        /\ \A k \in mantissa(i) : s[k] \in Digit \cup {"."}
        /\ \E k \in mantissa(i) : s[k] \in Digit
        /\ \A k, l \in mantissa(i) : s[k] = "." /\ s[l] = "." => k = l
        /\ Exponent(s, i + 1)

\* It reads the longest beginning of s that it can, or nothing.
FromChars(s) ==
  LET Reads(n) == n = 0 \/ Readable(SubSeq(s, 1, n))
  IN  SubSeq(s, 1, CHOOSE n \in 0 .. Len(s) : Reads(n) /\ \A m \in n + 1 .. Len(s) : ~Reads(m))

NumberEnd == SkipAll(Digit \cup {"-", "+", "e", "E", "."}, Here)
NumberText == SubSeq(json, Here + 1, NumberEnd)
SeesNumber == \E c \in Digit \cup {"-"} : Sees(c)

\* It takes zeros in front of other digits, and a point without a digit on each
\* side of it.
LeadingZero(s) ==
  LET first == Unsigned(s)
  IN  first < Len(s) /\ s[first] = "0" /\ s[first + 1] \in Digit

BarePoint(s) ==
  \E k \in 1 .. Len(s) :
    s[k] = "." /\ ~(k \in 2 .. Len(s) - 1 /\ s[k - 1] \in Digit /\ s[k + 1] \in Digit)

\* All of NumberText is skipped, whatever part of it from_chars reads.  Out of
\* range, num is returned as it was declared: without a value.
ParseNumber ==
  /\ SeesNumber
  /\ \E num \in {FromChars(NumberText)} :
      /\ num # <<>>
      /\ Return(IF num \in OutOfRange THEN [Uninitialized |-> TRUE] ELSE [Number |-> num], NumberEnd)
      /\ lax' = (lax \/ num # NumberText \/ LeadingZero(num) \/ BarePoint(num))
      /\ unset' = (unset \/ num \in OutOfRange)
      /\ UNCHANGED stack

\* The end of the text, another character, an unknown word, no number.
Unexpected ==
  /\ \A c \in {"{", "[", "\""} : ~Sees(c)
  /\ \A text \in {True, False, Null} : ~Starts(text)
  /\ SeesNumber => FromChars(NumberText) = <<>>
  /\ Throw

ParseValue ==
  /\ pc = "value"
  /\ \/ Sees("{") /\ Open("object")
     \/ Sees("[") /\ Open("array")
     \/ Sees("\"") /\ BeginString("string") /\ UNCHANGED history
     \/ Literal(True, [Boolean |-> TRUE]) \/ Literal(False, [Boolean |-> FALSE])
     \/ Literal(Null, [Null |-> TRUE])
     \/ ParseNumber
     \/ Unexpected
-----------------------------------------------------------------------------
(* parse_string: one round of its loop *)

Collect(c, n) ==
  /\ str' = Append(str, c) /\ pos' = pos + n
  /\ UNCHANGED <<json, stack, value, pc, history>>

EndString ==
  /\ UNCHANGED history
  /\ \/ pc = "string" /\ Return([String |-> str], pos + 1) /\ UNCHANGED stack
     \/ /\ pc = "key" /\ stack' = [stack EXCEPT ![Len(stack)].key = str]
        /\ pos' = pos + 1 /\ pc' = "colon"
        /\ UNCHANGED <<json, str, value>>

\* Slip: the loop goes on before an unknown escape, and never gets past it.
EscapeAgain ==
  IF pos + 2 <= Len(json) /\ json[pos + 2] \in Escapable
    THEN Collect(Unescaped(json[pos + 2]), 2)
    ELSE UNCHANGED vars

Escape ==
  IF pos + 2 <= Len(json) /\ json[pos + 2] \in Escapable
    THEN Collect(Unescaped(json[pos + 2]), 2)
    ELSE Throw

ParseString ==
  /\ pc \in {"key", "string"}
  /\ \/ pos < Len(json) /\ json[pos + 1] = "\"" /\ EndString
     \/ pos < Len(json) /\ json[pos + 1] = "\\" /\ Escape
     \/ pos < Len(json) /\ json[pos + 1] \notin {"\"", "\\"} /\ Collect(json[pos + 1], 1)
     \/ pos >= Len(json) /\ Throw
-----------------------------------------------------------------------------
(* parse_object and parse_array *)

\* Whatever is not the closing bracket is taken for the beginning of a key.
ParseObject ==
  /\ pc = "object"
  /\ \/ Sees("}") /\ Close([Object |-> Top.made])
     \/ /\ ~AtEnd /\ ~Sees("}") /\ BeginString("key")
        /\ lax' = (lax \/ ~Sees("\"")) /\ UNCHANGED unset
     \/ AtEnd /\ Throw

ParseColon ==
  /\ pc = "colon"
  /\ \/ /\ Sees(":") /\ pos' = Here + 1 /\ pc' = "value"
        /\ UNCHANGED <<json, stack, str, value, history>>
     \/ ~Sees(":") /\ Throw

ParseArray ==
  /\ pc = "array"
  /\ \/ Sees("]") /\ Close([Array |-> Top.made])
     \/ ~AtEnd /\ ~Sees("]") /\ pos' = Here /\ pc' = "value"
        /\ UNCHANGED <<json, stack, str, value, history>>
     \/ AtEnd /\ Throw

\* Slip: the value of a key is assigned.
AddedLast ==
  IF Top.fn = "array" THEN Append(Top.made, value)
  ELSE [k \in DOMAIN Top.made \cup {Top.key} |-> IF k = Top.key THEN value ELSE Top.made[k]]

\* emplace and emplace_back; an object keeps the value that a key has.
Added ==
  IF Top.fn = "array" THEN Append(Top.made, value)
  ELSE [k \in DOMAIN Top.made \cup {Top.key} |->
          IF k \in DOMAIN Top.made THEN Top.made[k] ELSE value]

Closing == IF Top.fn = "array" THEN "]" ELSE "}"

\* Back in the loop of the container that the value is for.
Continue ==
  /\ pc = "return" /\ stack # <<>>
  /\ stack' = [stack EXCEPT ![Len(stack)].made = Added]
  /\ \/ Sees(",") /\ pos' = Here + 1 /\ pc' = Top.fn
     \/ Sees(Closing) /\ pos' = Here /\ pc' = Top.fn
     \/ ~Sees(",") /\ ~Sees(Closing) /\ pos' = Here /\ pc' = "error"
  /\ UNCHANGED <<json, str, value, history>>

\* Slip: what follows the value is not looked at.
FinishAnywhere ==
  /\ pc = "return" /\ stack = <<>> /\ pc' = "done"
  /\ UNCHANGED <<json, pos, stack, str, value, history>>

\* parse, when parse_value has returned: nothing may follow.
Finish ==
  /\ pc = "return" /\ stack = <<>>
  /\ pos' = Here /\ pc' = IF AtEnd THEN "done" ELSE "error"
  /\ UNCHANGED <<json, stack, str, value, history>>

Next == ParseValue \/ ParseString \/ ParseObject \/ ParseColon \/ ParseArray \/ Continue \/ Finish

Spec == Init /\ [][Next]_vars

\* The parser runs until it returns or throws.
FairSpec == Spec /\ WF_vars(Next)
-----------------------------------------------------------------------------
\* The recursion is no deeper than the brackets read so far.
NestingBounded == Len(stack) <= pos

TypeOK ==
  /\ json \in Seq(STRING) /\ pos \in 0 .. Len(json)
  /\ \A i \in 1 .. Len(stack) : stack[i].fn \in {"object", "array"}
  /\ pc \in {"value", "object", "array", "key", "string", "colon", "return", "done", "error"}
  /\ lax \in BOOLEAN /\ unset \in BOOLEAN
  /\ NestingBounded

\* Every text of JSON is accepted and read as what it means, whatever the
\* recursion has to come back to.
JsonIsParsed ==
  /\ pc = "error" => Meaning(json) = {}
  /\ pc = "done" /\ ~lax /\ ~unset => Meaning(json) = {value}

\* What is accepted is JSON, but for keys without their first quote, characters
\* skipped after a number, zeros in front of a number, and points of which one
\* side has no digit: with one of these it never is.
AcceptedIsJson == pc = "done" => (lax <=> Meaning(json) = {})

\* parse returns or throws, whatever the text.
Terminates == <>(pc \in {"done", "error"})

\* The parser never goes back in the text.
NeverGoesBack == [][pos' >= pos]_vars

(* What the code does not have; the README tells what happens. *)

\* Only JSON is accepted.
NothingElseAccepted == pc = "done" => Meaning(json) # {}

\* A number that is returned has a value.
NumbersHaveValues == ~unset
=============================================================================
