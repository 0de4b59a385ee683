------------------------------ MODULE MCPrintf ------------------------------
(***************************************************************************)
(* Printf with 8-bit integers and buffers of a few bytes: every format of  *)
(* up to three characters, and longer ones with a padded or a second       *)
(* conversion.                                                             *)
(***************************************************************************)
EXTENDS Printf

Conversions == {"s", "c", "d", "u", "x", "p", "%"}
Alphabet == Conversions \cup {"0", "3", "a"}

ShortFormats == UNION {[1 .. n -> Alphabet] : n \in 0 .. 3}
PaddedFormats ==
    {<<"%", z, w, c>> : z \in {"0", "1"}, w \in {"0", "3"}, c \in Conversions}
DoubleFormats ==
    {<<"%", c, "a", "%", d>> : c \in Conversions, d \in Conversions}
AllFormats == ShortFormats \cup PaddedFormats \cup DoubleFormats

AllChars ==
    Alphabet \cup {DigitChars[k] : k \in 1 .. 16} \cup {BelowZeroChars[k] : k \in 1 .. 9}
      \cup {SPACE, NUL, "h", "i", "n", "l", "Z"}

SomeStrings == {<< >>, <<"h", "i">>, <<"(", "n", "u", "l", "l", ")">>}
SomeChars == {"Z", NUL}
SomeInts == {-128, -10, -1, 0, 9, 100, 127}

=============================================================================
