---------------------------- MODULE MCJsonParser -----------------------------
(* Texts for JsonParser: all short ones over the characters that structure *)
(* a text, and all that differ from a longer one in a single character.    *)
EXTENDS JsonParser

Structure == {"{", "}", "[", "]", "\"", ":", ",", "1", " "}
Chars == Structure \cup {"\\", "n", "-", ".", "0", "e", "a"}

Short == UNION {[1 .. n -> Structure] : n \in 0 .. 5}

Texts == {
  <<"{", "\"", "a", "\"", ":", "[", "1", ",", "n", "u", "l", "l", "]", "}">>,
  <<"{", "\"", "\"", ":", "1", ",", "\"", "\"", ":", "{", "}", ",", "}">>,
  <<"[", "t", "r", "u", "e", ",", "\"", "\\", "n", "\"", "]">>,
  <<"[", "-", "1", ".", "0", "e", "-", "1", "]">>,
  <<" ", "f", "a", "l", "s", "e", " ">>,
  <<"[", "n", "u", "l">>,
  <<"[", "1", "e", "9", "]">>}

Near(t) ==
  UNION {{SubSeq(t, 1, i - 1) \o s \o SubSeq(t, j, Len(t)) : s \in {<<c>> : c \in Chars} \cup {<<>>},
                                                               j \in {i, i + 1}} :
         i \in 1 .. Len(t)}

MCInputs == Short \cup Texts \cup UNION {Near(t) : t \in Texts}
MCOutOfRange == {<<"1", "e", "9">>}
=============================================================================
