----------------------------- MODULE JsonGrammar -----------------------------
(***************************************************************************)
(* What a text means, whatever reads it: JSON (RFC 8259) as a grammar over *)
(* sequences of characters, with the differences that the parser of        *)
(* CommonUtils/JSON states or its test relies on: a comma may follow the   *)
(* last element or member (Test_json.cpp), there is no \u escape, and of   *)
(* two members with one key the first counts.                              *)
(***************************************************************************)
EXTENDS Integers, Sequences

Space == {" "}
Digit == {"0", "1", "2", "3", "4", "5", "6", "7", "8", "9"}

\* What stands for a character after a backslash.
Control == [b |-> "backspace", f |-> "feed", n |-> "newline", r |-> "return", t |-> "tab"]
Escapable == {"\"", "\\", "/"} \cup DOMAIN Control
Unescaped(c) == IF c \in DOMAIN Control THEN Control[c] ELSE c
-----------------------------------------------------------------------------
(* Numerals *)

DigitsIn(s, i, j) == i <= j /\ \A k \in i .. j : s[k] \in Digit

\* From its i-th character on, s is an exponent or at its end.
Exponent(s, i) ==
  \/ i = Len(s) + 1
  \/ /\ s[i] \in {"e", "E"}
     /\ \/ DigitsIn(s, i + 1, Len(s))
        \/ i < Len(s) /\ s[i + 1] \in {"+", "-"} /\ DigitsIn(s, i + 2, Len(s))

\* Where s begins, but for its sign.
Unsigned(s) == IF s # <<>> /\ s[1] = "-" THEN 2 ELSE 1

\* Digits up to i, and perhaps a point and digits up to j.
Numeral(s) ==
  \E i, j \in Unsigned(s) .. Len(s) :
    /\ DigitsIn(s, Unsigned(s), i) /\ (s[Unsigned(s)] = "0" => i = Unsigned(s))
    /\ j = i \/ (DigitsIn(s, i + 2, j) /\ s[i + 1] = ".")
    /\ Exponent(s, j + 1)
-----------------------------------------------------------------------------
(* Values *)

Blank(t, i, j) == \A k \in i .. j : t[k] \in Space

First(t, i, j) == CHOOSE k \in i .. j : t[k] \notin Space /\ Blank(t, i, k - 1)
Last(t, i, j) == CHOOSE k \in i .. j : t[k] \notin Space /\ Blank(t, k + 1, j)

\* Spelt(t, b)[i] is what t[i .. b - 1] says before the quote b that ends it:
\* one string, or none.
Spelt(t, b) ==
  LET From[i \in 1 .. b + 1] ==
        IF i >= b THEN {<<>> : k \in {i} \cap {b}}
        ELSE IF t[i] = "\"" THEN {}
        ELSE IF t[i] # "\\" THEN {<<t[i]>> \o rest : rest \in From[i + 1]}
        ELSE IF t[i + 1] \in Escapable
               THEN {<<Unescaped(t[i + 1])>> \o rest : rest \in From[i + 2]}
               ELSE {}
  IN  From

Quoted(t, a, b) ==
  IF a < b /\ t[a] = "\"" /\ t[b] = "\"" THEN Spelt(t, b)[a + 1] ELSE {}

Scalars(s) ==
  {v \in {[Null |-> TRUE]} : s = <<"n", "u", "l", "l">>}
  \cup {v \in {[Boolean |-> TRUE]} : s = <<"t", "r", "u", "e">>}
  \cup {v \in {[Boolean |-> FALSE]} : s = <<"f", "a", "l", "s", "e">>}
  \cup {v \in {[Number |-> s]} : Numeral(s)}

\* Arrays hold a sequence of values, objects a function from keys to values.
Lists == {"array", "object"}
Left == [array |-> "[", object |-> "{"]
Right == [array |-> "]", object |-> "}"]
Container(list, made) == IF list = "array" THEN [Array |-> made] ELSE [Object |-> made]

Joined(list, key, v, rest) ==
  IF list = "array" THEN <<v>> \o rest
  ELSE [k \in {key} \cup DOMAIN rest |-> IF k = key THEN v ELSE rest[k]]

\* In what follows M[<<kind, i, j>>] are the meanings of t[i .. j], read as a
\* value or as what stands between the brackets of a list.

Values(t, M, a, b) ==
  Scalars(SubSeq(t, a, b)) \cup {[String |-> q] : q \in Quoted(t, a, b)}
  \cup UNION {{Container(list, made) : made \in M[<<list, a + 1, b - 1>>]} :
              list \in {l \in Lists : a < b /\ t[a] = Left[l] /\ t[b] = Right[l]}}

\* One value, or one, a comma and the rest of the list.
Items(t, M, list, key, i, j) ==
  {Joined(list, key, v, <<>>) : v \in M[<<"value", i, j>>]}
  \cup UNION {UNION {{Joined(list, key, v, rest) : rest \in M[<<list, k + 1, j>>]} :
                     v \in M[<<"value", i, k - 1>>]} :
              k \in {k \in i .. j : t[k] = ","}}

\* The same, after a key and a colon.
Members(t, M, i, j) ==
  UNION {UNION {Items(t, M, "object", key, c + 1, j) :
                key \in Quoted(t, First(t, i, c - 1), Last(t, i, c - 1))} :
         c \in {c \in i .. j : t[c] = ":" /\ ~Blank(t, i, c - 1)}}

Read(t, M, kind, i, j) ==
  CASE Blank(t, i, j) -> IF kind = "value" THEN {} ELSE {<<>>}
    [] ~Blank(t, i, j) /\ kind = "value" -> Values(t, M, First(t, i, j), Last(t, i, j))
    [] ~Blank(t, i, j) /\ kind = "array" -> Items(t, M, kind, <<>>, i, j)
    [] ~Blank(t, i, j) /\ kind = "object" -> Members(t, M, i, j)

Spans(t) == ({"value"} \cup Lists) \X (1 .. Len(t) + 1) \X (0 .. Len(t))

Means(t) ==
  LET M[x \in Spans(t)] == Read(t, M, x[1], x[2], x[3])
  IN  M

\* The values that the text t stands for.
Meaning(t) == Means(t)[<<"value", 1, Len(t)>>]
=============================================================================
