------------------------------- MODULE Printf -------------------------------
(***************************************************************************)
(* my_vsnprintf of printk.c, which formats every message of printk and     *)
(* panik.  The scan over the format, the digits of a width and the digits  *)
(* of a number are loops of the code and steps here; copying a string into *)
(* what is left of the buffer is one step.  Arguments are chosen when      *)
(* va_arg reads them.                                                      *)
(***************************************************************************)
EXTENDS Integers, Sequences

CONSTANTS
    SIZE,                   \* size of the caller's buffer
    INT_LIMIT,              \* 2^31: int is -INT_LIMIT .. INT_LIMIT - 1
    TMP_SIZE, PTR_TMP_SIZE, \* digits that fit tmp[] (12) and %p's tmp[] (20)
    Char,                   \* the characters
    Formats,                \* format strings, as sequences of characters
    Strings, Chars, Ints    \* arguments of %s, of %c and of the numbers

WORD == 2 * INT_LIMIT

VARIABLES
    pc,
    fmt, i,                 \* the format and the index of the next character
    p,                      \* what has been written to the buffer
    pad_width, pad_char,
    arg, num, tmp,          \* the number read, what is left of it, its digits
    text,                   \* history: the text called for so far, uncut
    exact                   \* history: no argument met a known limit (see Exact)

specVars == <<pad_width, pad_char>>
numVars == <<arg, num, tmp>>
vars == <<pc, fmt, i, p, specVars, numVars, text, exact>>

-----------------------------------------------------------------------------
NUL == "NUL"
SPACE == "SP"
At(k) == IF k <= Len(fmt) THEN fmt[k] ELSE NUL

DigitChars == <<"0", "1", "2", "3", "4", "5", "6", "7", "8", "9",
                "a", "b", "c", "d", "e", "f">>
\* '0' + d for negative d: the characters before '0'.
BelowZeroChars == <<"/", ".", "-", ",", "+", "*", ")", "(", "'">>
DigitChar(d) == IF d >= 0 THEN DigitChars[d + 1] ELSE BelowZeroChars[-d]

ASSUME PrintfAssumption ==
    /\ SIZE \in Nat \ {0} /\ INT_LIMIT \in Nat \ {0}
    /\ TMP_SIZE \in Nat \ {0} /\ PTR_TMP_SIZE \in Nat \ {0}
    /\ DigitChars \in Seq(Char) /\ BelowZeroChars \in Seq(Char)
    /\ {"x", "-", SPACE, NUL} \subseteq Char
    /\ Formats \subseteq Seq(Char \ {NUL}) /\ Strings \subseteq Seq(Char)
    /\ Chars \subseteq Char /\ Ints \subseteq -INT_LIMIT .. INT_LIMIT - 1

IsDigit(c) == \E d \in 0 .. 9 : c = DigitChars[d + 1]
DigitValue(c) == CHOOSE d \in 0 .. 9 : c = DigitChars[d + 1]

\* C's / and %, which round towards zero.
CDiv(a, b) == IF a >= 0 THEN a \div b ELSE -((-a) \div b)
CMod(a, b) == a - b * CDiv(a, b)

\* end - p
Room == SIZE - 1 - Len(p)

\* *p++ = c for each character, as long as p < end.
Put(s) == p \o SubSeq(s, 1, IF Len(s) <= Room THEN Len(s) ELSE Room)

PadTo(s, width, char) ==
    [k \in 1 .. IF width > Len(s) THEN width - Len(s) ELSE 0 |-> char] \o s
Padded(s) == PadTo(s, pad_width, pad_char)

Reversed(s) == [k \in 1 .. Len(s) |-> s[Len(s) + 1 - k]]

Base == IF At(i) \in {"x", "p"} THEN 16 ELSE 10
TmpSize == IF At(i) = "p" THEN PTR_TMP_SIZE ELSE TMP_SIZE

-----------------------------------------------------------------------------
(* The reference: what each conversion is to produce, in a buffer without  *)
(* end.                                                                    *)

Numeral(n, base) ==
    LET f[k \in 0 .. n] == IF k < base THEN <<DigitChar(k)>>
                           ELSE Append(f[k \div base], DigitChar(k % base))
    IN  f[n]

\* tmp[] holds every number with its sign, and the unsigned ones.
ASSUME TmpAssumption ==
    /\ Len(Numeral(INT_LIMIT, 10)) < TMP_SIZE
    /\ Len(Numeral(WORD - 1, 16)) <= TMP_SIZE
    /\ Len(Numeral(WORD - 1, 16)) <= PTR_TMP_SIZE

\* The number that the digits of format f from first to k spell.
Decimal(f, first) ==
    LET value[k \in 0 .. Len(f)] ==
          IF k < first THEN 0 ELSE 10 * value[k - 1] + DigitValue(f[k])
    IN  value

\* The formats are literals of the kernel (the widest field is %08x): a width
\* is an int.
ASSUME WidthAssumption ==
    \A f \in Formats : \A j \in 2 .. Len(f) + 1, k \in 1 .. Len(f) :
      f[j - 1] = "%" /\ (\A l \in j .. k : IsDigit(f[l])) => Decimal(f, j)[k] < INT_LIMIT

\* The padding the conversion at i asks for, read off the format: the value of
\* the digits before it, and whether they start with a zero.
Wanted(s) ==
    LET first == CHOOSE j \in 2 .. i : /\ \A k \in j .. i - 1 : IsDigit(fmt[k])
                                      /\ ~IsDigit(fmt[j - 1])
    IN  PadTo(s, Decimal(fmt, first)[i - 1],
              IF first < i /\ fmt[first] = "0" THEN "0" ELSE SPACE)

\* Padding goes before the sign, for either padding character.
NumberText(conv, n) ==
    CASE conv = "d" -> Wanted(IF n < 0 THEN <<"-">> \o Numeral(-n, 10) ELSE Numeral(n, 10))
      [] conv = "u" -> Wanted(Numeral(n % WORD, 10))
      [] conv = "x" -> Wanted(Numeral(n % WORD, 16))
      [] conv = "p" -> <<"0", "x">> \o Numeral(n % WORD, 16)

\* The two limits of the code: %u of a value that is negative as an int, and
\* the prefix of %p, which is left out when only one place is left for it.
Exact(conv, n) == ~(conv = "u" /\ n < 0) /\ ~(conv = "p" /\ Room < 2)

-----------------------------------------------------------------------------
Init ==
    /\ pc = "loop" /\ fmt \in Formats /\ i = 1 /\ p = << >>
    /\ pad_width = 0 /\ pad_char = SPACE
    /\ arg = 0 /\ num = 0 /\ tmp = << >>
    /\ text = << >> /\ exact = TRUE

\* while (*fmt && p < end) goes on.
More == pc = "loop" /\ At(i) # NUL /\ Room > 0

\* One conversion or one character has been written; fmt++.
Write(s, reference) ==
    /\ p' = Put(s) /\ text' = text \o reference
    /\ i' = i + 1
    /\ UNCHANGED <<fmt, specVars>>

Literal ==
    /\ More /\ At(i) # "%"
    /\ Write(<<At(i)>>, <<At(i)>>)
    /\ UNCHANGED <<pc, numVars, exact>>

\* Mutant: the character after '%' is always skipped.
MutantPercent ==
    /\ More /\ At(i) = "%"
    /\ pad_width' = 0 /\ pad_char' = IF At(i + 1) = "0" THEN "0" ELSE SPACE
    /\ i' = i + 2
    /\ pc' = "spec"
    /\ UNCHANGED <<fmt, p, numVars, text, exact>>

\* '%', and the zero that asks for zero padding.
Percent ==
    /\ More /\ At(i) = "%"
    /\ pad_width' = 0
    /\ IF At(i + 1) = "0" THEN pad_char' = "0" /\ i' = i + 2
                          ELSE pad_char' = SPACE /\ i' = i + 1
    /\ pc' = "spec"
    /\ UNCHANGED <<fmt, p, numVars, text, exact>>

\* Mutant: the width is one digit.
MutantWidth ==
    /\ pc = "spec" /\ IsDigit(At(i))
    /\ pad_width' = DigitValue(At(i))
    /\ i' = i + 1
    /\ UNCHANGED <<pc, fmt, p, pad_char, numVars, text, exact>>

Width ==
    /\ pc = "spec" /\ IsDigit(At(i))
    /\ pad_width' = 10 * pad_width + DigitValue(At(i))
    /\ i' = i + 1
    /\ UNCHANGED <<pc, fmt, p, pad_char, numVars, text, exact>>

\* case 's'; a null pointer prints as a string of its own.
ConvString(str) ==
    /\ pc = "spec" /\ At(i) = "s"
    /\ Write(Padded(str), Wanted(str))
    /\ pc' = "loop"
    /\ UNCHANGED <<numVars, exact>>

ConvChar(c) ==
    /\ pc = "spec" /\ At(i) = "c"
    /\ Write(Padded(<<c>>), Wanted(<<c>>))
    /\ pc' = "loop"
    /\ UNCHANGED <<numVars, exact>>

\* The value whose digits are taken: %d negates, %u keeps the int, %x and %p
\* take the argument as unsigned.
Magnitude(conv, n) ==
    CASE conv = "d" -> (IF n < 0 THEN -n ELSE n) % WORD
      [] conv = "u" -> n
      [] conv \in {"x", "p"} -> n % WORD

\* Mutant: the prefix of %p is written without looking at the room.
MutantPrefix == IF At(i) = "p" THEN p \o <<"0", "x">> ELSE p

Prefix == IF At(i) = "p" /\ Room > 1 THEN p \o <<"0", "x">> ELSE p

ConvNumber(n) ==
    /\ pc = "spec" /\ At(i) \in {"d", "u", "x", "p"}
    /\ arg' = n /\ num' = Magnitude(At(i), n) /\ tmp' = << >>
    /\ p' = Prefix
    /\ exact' = (exact /\ Exact(At(i), n))
    /\ pc' = "digits"
    /\ UNCHANGED <<fmt, i, specVars, text>>

\* One turn of do ... while (num && tmplen < sizeof(tmp)).
Digit ==
    /\ pc = "digits"
    /\ tmp' = Append(tmp, DigitChar(CMod(num, Base)))
    /\ num' = CDiv(num, Base)
    /\ pc' = IF num' # 0 /\ Len(tmp') < TmpSize THEN "digits" ELSE "emit"
    /\ UNCHANGED <<fmt, i, p, specVars, arg, text, exact>>

Signed ==
    IF At(i) = "d" /\ arg < 0 /\ Len(tmp) < TmpSize THEN Append(tmp, "-") ELSE tmp

\* Padding (not for %p), then tmp from its last digit to its first.
Emit ==
    LET digits == Reversed(Signed) IN
    /\ pc = "emit"
    /\ Write(IF At(i) = "p" THEN digits ELSE Padded(digits), NumberText(At(i), arg))
    /\ tmp' = Signed
    /\ pc' = "loop"
    /\ UNCHANGED <<arg, num, exact>>

\* '%%' and an unknown specifier are copied.  The end of the format is one
\* too: it is copied and stepped over, and the scan leaves the string.
ConvOther ==
    /\ pc = "spec" /\ ~IsDigit(At(i)) /\ At(i) \notin {"s", "c", "d", "u", "x", "p"}
    /\ Write(<<At(i)>>, <<At(i)>>)
    /\ pc' = IF At(i) = NUL THEN "overrun" ELSE "loop"
    /\ UNCHANGED <<numVars, exact>>

\* *p = '\0'; return p - buf
Return ==
    /\ pc = "loop" /\ ~More
    /\ pc' = "done"
    /\ UNCHANGED <<fmt, i, p, specVars, numVars, text, exact>>

\* The caller goes on, or, past the end of the format, anything may happen.
Ended == pc \in {"done", "overrun"} /\ UNCHANGED vars

Step ==
    \/ Literal \/ Percent \/ Width \/ Digit \/ Emit \/ ConvOther \/ Return
    \/ \E s \in Strings : ConvString(s)
    \/ \E c \in Chars : ConvChar(c)
    \/ \E n \in Ints : ConvNumber(n)

Next == Step \/ Ended

Spec == Init /\ [][Next]_vars

-----------------------------------------------------------------------------
\* Every variable stays in its domain, pad_width is never an int that has
\* overflowed, and neither the caller's buffer, its terminator included, nor
\* the tmp[] of the conversion at hand (12 for d, u and x, 20 for p) is ever
\* written past its end: there is room for the next digit, and for the sign
\* that Emit adds.
PrintfTypeOK ==
    /\ pc \in {"loop", "spec", "digits", "emit", "done", "overrun"}
    /\ fmt \in Formats /\ i \in Nat
    /\ p \in Seq(Char) /\ Len(p) < SIZE
    /\ pad_width \in 0 .. INT_LIMIT - 1 /\ pad_char \in {SPACE, "0"}
    /\ arg \in -INT_LIMIT .. INT_LIMIT - 1 /\ num \in Int
    /\ tmp \in Seq(Char)
    /\ pc = "digits" => Len(tmp) < TmpSize
    /\ pc = "emit" => Len(Signed) <= TmpSize
    /\ text \in Seq(Char) /\ exact \in BOOLEAN

\* What is in the buffer is the text called for, cut to the room there is:
\* no digit is lost in tmp, no width is misread, and once the buffer is full
\* nothing more is written.  It is what module Console takes a message to be.
FormattedText ==
    exact /\ pc \in {"loop", "done"} =>
      p = SubSeq(text, 1, IF Len(text) < SIZE THEN Len(text) ELSE SIZE - 1)

\* No '%' of the format has only digits, or nothing, after it.
ConversionsClosed(f) ==
    \A k \in 1 .. Len(f) :
      f[k] = "%" => \E j \in k + 1 .. Len(f) : ~IsDigit(f[j])

\* The scan never leaves a format whose conversions are closed, whatever
\* flags, widths and percent signs it meets: fmt++ is executed once more than
\* the string has characters only when the string ends inside a conversion.
ScanStaysInFormat ==
    ConversionsClosed(fmt) => pc # "overrun" /\ i <= Len(fmt) + 1

=============================================================================
