---------------------------- MODULE PrintfProofs ----------------------------
(***************************************************************************)
(* Proofs about my_vsnprintf for every format, argument, buffer size and   *)
(* width of int.                                                           *)
(*                                                                         *)
(* Numeral and Decimal, the two recursive functions of the reference,      *)
(* are shown to exist and to satisfy their equations by taking the least   *)
(* number for which they would not (LeastElement).                         *)
(*                                                                         *)
(* PrintfInv follows one conversion: ScanInv says which character is being *)
(* looked at, WidthInv that pad_width is the number its digits spell,      *)
(* DigitsInv that tmp and num together are the numeral of the argument,    *)
(* and TextInv that the buffer holds what was called for so far, cut.      *)
(***************************************************************************)
EXTENDS Printf, SequenceTheorems, NaturalsInduction, WellFoundedInduction, TLAPS

-----------------------------------------------------------------------------
(* Numbers and sequences.                                                  *)

\* A set of natural numbers that is not empty has a least element.
LEMMA LeastElement ==
    ASSUME NEW T, T \subseteq Nat, T # {}
    PROVE  \E x \in T : \A y \in T : x <= y
  <1>. DEFINE R == OpToRel(<, Nat)
  <1>1. R = {ss \in Nat \X Nat : ss[1] < ss[2]}
    BY Zenon DEF OpToRel
  <1>2. IsWellFoundedOn(R, Nat)
    BY NatLessThanWellFounded, Zenon
  <1>. HIDE DEF R
  <1>3. PICK x \in T : \A y \in T : ~(<<y, x>> \in R)
    BY <1>2, WFMin
  <1>4. ASSUME NEW y \in T  PROVE x <= y
    <2>1. x \in Nat /\ y \in Nat
      OBVIOUS
    <2>2. CASE y < x
      <3>1. <<y, x>> \in Nat \X Nat /\ <<y, x>>[1] = y /\ <<y, x>>[2] = x
        BY <2>1
      <3>2. <<y, x>> \in R
        BY <1>1, <2>2, <3>1
      <3>. QED  BY <1>3, <3>2
    <2>. QED  BY <2>1, <2>2
  <1>. QED  BY <1>4

\* One turn of the digit loop takes something off a number that has two digits.
LEMMA Quotient ==
    ASSUME NEW k \in Nat, NEW b \in Nat, b >= 2
    PROVE  /\ k \div b \in Nat /\ k % b \in 0 .. b - 1
           /\ k >= 1 => k \div b < k
           /\ k < b <=> k \div b = 0
           /\ k = b * (k \div b) + (k % b)
  OBVIOUS

\* A larger number has no smaller quotient.
LEMMA QuotientMonotonic ==
    ASSUME NEW k \in Nat, NEW l \in Nat, NEW b \in Nat, b >= 2, k <= l
    PROVE  k \div b <= l \div b
  OBVIOUS

-----------------------------------------------------------------------------
(* Numerals.                                                               *)

NumeralStep(g, k, b) ==
    IF k < b THEN <<DigitChar(k)>> ELSE Append(g[k \div b], DigitChar(k % b))
IsNumerals(g, n, b) == g = [k \in 0 .. n |-> NumeralStep(g, k, b)]

\* There is a table of the numerals up to n.
LEMMA NumeralsExist ==
    ASSUME NEW b \in Nat, b >= 2, NEW n \in Nat
    PROVE  \E g : IsNumerals(g, n, b)
  <1>. DEFINE T == {m \in Nat : ~\E g : IsNumerals(g, m, b)}
  <1>. SUFFICES ASSUME T # {}  PROVE FALSE
    OBVIOUS
  <1>1. PICK x \in T : \A y \in T : x <= y
    <2>1. T \subseteq Nat
      OBVIOUS
    <2>. HIDE DEF T
    <2>. QED  BY <2>1, LeastElement
  <1>2. x \in Nat /\ ~\E g : IsNumerals(g, x, b)
    OBVIOUS
  <1>3. CASE x = 0
    <2>. DEFINE g == [k \in 0 .. 0 |-> <<DigitChar(0)>>]
    <2>1. \A k \in 0 .. 0 : k = 0 /\ k < b
      OBVIOUS
    <2>2. IsNumerals(g, 0, b)
      BY <2>1 DEF IsNumerals, NumeralStep
    <2>. QED  BY <1>2, <1>3, <2>2
  <1>4. CASE x > 0
    <2>1. x - 1 \in Nat /\ ~(x <= x - 1)
      BY <1>2, <1>4
    <2>2. PICK g : IsNumerals(g, x - 1, b)
      BY <1>1, <2>1
    <2>3. \A k \in 0 .. x - 1 : g[k] = NumeralStep(g, k, b)
      BY <2>2 DEF IsNumerals
    <2>. DEFINE h == [k \in 0 .. x |-> IF k < x THEN g[k] ELSE NumeralStep(g, x, b)]
    <2>4. ASSUME NEW k \in 0 .. x
          PROVE  h[k] = NumeralStep(h, k, b)
      <3>1. h[k] = NumeralStep(g, k, b)
        <4>1. CASE k < x
          BY <1>2, <2>3, <4>1
        <4>2. CASE k = x
          BY <1>2, <4>2
        <4>. QED  BY <1>2, <4>1, <4>2
      <3>2. ~(k < b) => k \div b \in 0 .. x /\ k \div b < x
        BY <1>2, Quotient
      <3>3. ~(k < b) => h[k \div b] = g[k \div b]
        BY <3>2
      <3>. HIDE DEF h
      <3>. QED  BY <3>1, <3>3 DEF NumeralStep
    <2>5. IsNumerals(h, x, b)
      <3>1. h = [k \in 0 .. x |-> h[k]]
        OBVIOUS
      <3>. HIDE DEF h
      <3>. QED  BY <2>4, <3>1 DEF IsNumerals
    <2>. QED  BY <1>2, <2>5
  <1>. QED  BY <1>2, <1>3, <1>4

\* Two tables agree as far as both go.
LEMMA NumeralsAgree ==
    ASSUME NEW b \in Nat, b >= 2, NEW n \in Nat, NEW m \in Nat,
           NEW g, NEW h, IsNumerals(g, n, b), IsNumerals(h, m, b),
           NEW l \in Nat, l <= n, l <= m
    PROVE  g[l] = h[l]
  <1>. DEFINE T == {k \in Nat : k <= n /\ k <= m /\ g[k] # h[k]}
  <1>. SUFFICES ASSUME T # {}  PROVE FALSE
    OBVIOUS
  <1>1. PICK x \in T : \A y \in T : x <= y
    <2>1. T \subseteq Nat
      OBVIOUS
    <2>. HIDE DEF T
    <2>. QED  BY <2>1, LeastElement
  <1>2. g[x] = NumeralStep(g, x, b) /\ h[x] = NumeralStep(h, x, b)
    <2>1. x \in 0 .. n /\ x \in 0 .. m
      OBVIOUS
    <2>. QED  BY <2>1 DEF IsNumerals
  <1>3. ~(x < b) => g[x \div b] = h[x \div b]
    <2>1. x \in Nat /\ x <= n /\ x <= m
      OBVIOUS
    <2>2. ~(x < b) => x \div b \in Nat /\ x \div b < x
      BY <2>1, Quotient
    <2>. QED  BY <1>1, <2>1, <2>2
  <1>4. g[x] = h[x]
    BY <1>2, <1>3 DEF NumeralStep
  <1>. QED  BY <1>4

\* A numeral is that of the quotient, followed by the last digit.
LEMMA NumeralValue ==
    ASSUME NEW b \in Nat, b >= 2, NEW n \in Nat
    PROVE  Numeral(n, b) =
             IF n < b THEN <<DigitChar(n)>>
                      ELSE Append(Numeral(n \div b, b), DigitChar(n % b))
  <1>. DEFINE F(m) == CHOOSE g : IsNumerals(g, m, b)
  <1>1. ASSUME NEW m \in Nat  PROVE IsNumerals(F(m), m, b) /\ Numeral(m, b) = F(m)[m]
    <2>1. Numeral(m, b) = F(m)[m]
      BY DEF Numeral, IsNumerals, NumeralStep
    <2>2. \E g : IsNumerals(g, m, b)
      BY NumeralsExist
    <2>. QED  BY <2>1, <2>2
  <1>. HIDE DEF F
  <1>2. Numeral(n, b) = NumeralStep(F(n), n, b)
    <2>1. n \in 0 .. n
      OBVIOUS
    <2>. QED  BY <1>1, <2>1 DEF IsNumerals
  <1>3. ~(n < b) => F(n)[n \div b] = Numeral(n \div b, b)
    <2>1. SUFFICES ASSUME ~(n < b)  PROVE F(n)[n \div b] = F(n \div b)[n \div b]
      BY <1>1, Quotient
    <2>2. n \div b \in Nat /\ n \div b <= n
      BY <2>1, Quotient
    <2>. QED  BY <1>1, <2>2, NumeralsAgree
  <1>. QED  BY <1>2, <1>3 DEF NumeralStep

\* The digits '0' to 'f'.
LEMMA DigitCharType ==
    ASSUME NEW d \in 0 .. 15
    PROVE  DigitChar(d) = DigitChars[d + 1] /\ DigitChar(d) \in Char
  <1>1. Len(DigitChars) = 16
    BY DEF DigitChars
  <1>2. d + 1 \in 1 .. Len(DigitChars) /\ d >= 0
    BY <1>1
  <1>. QED  BY <1>2, PrintfAssumption DEF DigitChar

\* A numeral is a string of at least one character.
LEMMA NumeralType ==
    ASSUME NEW b \in {10, 16}, NEW n \in Nat
    PROVE  Numeral(n, b) \in Seq(Char) /\ Len(Numeral(n, b)) >= 1
  <1>. DEFINE Good(m) == Numeral(m, b) \in Seq(Char) /\ Len(Numeral(m, b)) >= 1
              T == {m \in Nat : ~Good(m)}
  <1>. SUFFICES ASSUME T # {}  PROVE FALSE
    OBVIOUS
  <1>1. PICK x \in T : \A y \in T : x <= y
    <2>1. T \subseteq Nat
      OBVIOUS
    <2>. HIDE DEF T
    <2>. QED  BY <2>1, LeastElement
  <1>2. x \in Nat /\ ~Good(x) /\ b \in Nat /\ b >= 2
    OBVIOUS
  <1>3. CASE x < b
    <2>1. x \in 0 .. 15
      BY <1>2, <1>3
    <2>2. Numeral(x, b) = <<DigitChar(x)>>
      BY <1>2, <1>3, NumeralValue
    <2>3. DigitChar(x) \in Char
      BY <2>1, DigitCharType
    <2>4. <<DigitChar(x)>> \in Seq(Char) /\ Len(<<DigitChar(x)>>) = 1
      BY <2>3
    <2>5. Good(x)
      BY <2>2, <2>4
    <2>. QED  BY <1>2, <2>5
  <1>4. CASE ~(x < b)
    <2>1. x \div b \in Nat /\ x \div b < x /\ x % b \in 0 .. 15
      <3>1. x >= 1 /\ 0 .. b - 1 \subseteq 0 .. 15
        BY <1>2, <1>4
      <3>2. x \div b \in Nat /\ x \div b < x /\ x % b \in 0 .. b - 1
        BY ONLY <1>2, <3>1, Quotient
      <3>. QED  BY <3>1, <3>2
    <2>2. Good(x \div b)
      BY <1>1, <1>2, <2>1
    <2>3. Numeral(x, b) = Append(Numeral(x \div b, b), DigitChar(x % b))
      BY <1>2, <1>4, NumeralValue
    <2>4. DigitChar(x % b) \in Char
      BY <2>1, DigitCharType
    <2>. QED  BY <1>2, <2>2, <2>3, <2>4
  <1>. QED  BY <1>3, <1>4

\* A larger number has no shorter numeral.
LEMMA NumeralMonotonic ==
    ASSUME NEW b \in {10, 16}, NEW n \in Nat, NEW m \in Nat, n <= m
    PROVE  Len(Numeral(n, b)) <= Len(Numeral(m, b))
  <1>. DEFINE L(k) == Len(Numeral(k, b))
              T == {l \in Nat : \E k \in Nat : k <= l /\ ~(L(k) <= L(l))}
  <1>. SUFFICES ASSUME T # {}  PROVE FALSE
    OBVIOUS
  <1>1. PICK x \in T : \A y \in T : x <= y
    <2>1. T \subseteq Nat
      OBVIOUS
    <2>. HIDE DEF T
    <2>. QED  BY <2>1, LeastElement
  <1>2. PICK k \in Nat : k <= x /\ ~(L(k) <= L(x))
    OBVIOUS
  <1>3. x \in Nat /\ b \in Nat /\ b >= 2
    OBVIOUS
  <1>4. ASSUME NEW z \in Nat
        PROVE  L(z) \in Nat /\ L(z) >= 1 /\ L(z) = IF z < b THEN 1 ELSE L(z \div b) + 1
    <2>1. Numeral(z, b) \in Seq(Char) /\ L(z) >= 1
      BY NumeralType
    <2>2. z \div b \in Nat /\ Numeral(z \div b, b) \in Seq(Char)
      BY <1>3, Quotient, NumeralType
    <2>3. Numeral(z, b) = IF z < b THEN <<DigitChar(z)>>
                          ELSE Append(Numeral(z \div b, b), DigitChar(z % b))
      BY <1>3, NumeralValue
    <2>. QED  BY <2>1, <2>2, <2>3
  <1>. HIDE DEF L
  <1>5. ~(k < b) /\ ~(x < b)
    BY <1>2, <1>3, <1>4
  <1>6. k \div b \in Nat /\ x \div b \in Nat /\ x \div b < x /\ k \div b <= x \div b
    <2>1. x >= 1
      BY <1>3, <1>5
    <2>. QED  BY ONLY <1>2, <1>3, <2>1, Quotient, QuotientMonotonic
  <1>7. L(k \div b) <= L(x \div b)
    BY <1>1, <1>3, <1>6
  <1>. QED  BY <1>2, <1>3, <1>4, <1>5, <1>6, <1>7
\* The same, for each of the two bases.
LEMMA NumeralBound ==
    ASSUME NEW n \in Nat, NEW m \in Nat, n <= m
    PROVE  /\ Len(Numeral(n, 10)) \in Nat /\ Len(Numeral(m, 10)) \in Nat
           /\ Len(Numeral(n, 10)) <= Len(Numeral(m, 10))
           /\ Len(Numeral(n, 16)) \in Nat /\ Len(Numeral(m, 16)) \in Nat
           /\ Len(Numeral(n, 16)) <= Len(Numeral(m, 16))
  <1>1. ASSUME NEW b \in {10, 16}
        PROVE  /\ Len(Numeral(n, b)) \in Nat /\ Len(Numeral(m, b)) \in Nat
               /\ Len(Numeral(n, b)) <= Len(Numeral(m, b))
    <2>1. Numeral(n, b) \in Seq(Char) /\ Numeral(m, b) \in Seq(Char)
      BY NumeralType
    <2>2. Len(Numeral(n, b)) <= Len(Numeral(m, b))
      BY NumeralMonotonic
    <2>. QED  BY <2>1, <2>2
  <1>. QED  BY <1>1

-----------------------------------------------------------------------------
(* Widths.                                                                 *)

\* What the code tells a digit of a width by.
LEMMA DigitFacts ==
    /\ \A c : IsDigit(c) => DigitValue(c) \in 0 .. 9
    /\ IsDigit("0") /\ DigitValue("0") = 0
    /\ ~IsDigit("%") /\ ~IsDigit(NUL)
  <1>1. \A c : IsDigit(c) => DigitValue(c) \in 0 .. 9
    BY DEF IsDigit, DigitValue
  <1>2. IsDigit("0") /\ DigitValue("0") = 0
    BY DEF IsDigit, DigitValue, DigitChars
  <1>3. ~IsDigit("%") /\ ~IsDigit(NUL)
    BY DEF IsDigit, DigitChars, NUL
  <1>. QED  BY <1>1, <1>2, <1>3

DecimalStep(g, k, first) ==
    IF k < first THEN 0 ELSE 10 * g[k - 1] + DigitValue(fmt[k])
IsDecimal(g, n, first) == g = [k \in 0 .. n |-> DecimalStep(g, k, first)]

\* There is a table of the numbers spelled so far.
LEMMA DecimalExists ==
    ASSUME NEW first \in Nat \ {0}, NEW n \in Nat
    PROVE  \E g : IsDecimal(g, n, first)
  <1>. DEFINE T == {m \in Nat : ~\E g : IsDecimal(g, m, first)}
  <1>. SUFFICES ASSUME T # {}  PROVE FALSE
    OBVIOUS
  <1>1. PICK x \in T : \A y \in T : x <= y
    <2>1. T \subseteq Nat
      OBVIOUS
    <2>. HIDE DEF T
    <2>. QED  BY <2>1, LeastElement
  <1>2. x \in Nat /\ ~\E g : IsDecimal(g, x, first)
    OBVIOUS
  <1>3. CASE x = 0
    <2>. DEFINE g == [k \in 0 .. 0 |-> 0]
    <2>1. \A k \in 0 .. 0 : k < first
      OBVIOUS
    <2>2. IsDecimal(g, 0, first)
      BY <2>1 DEF IsDecimal, DecimalStep
    <2>. QED  BY <1>2, <1>3, <2>2
  <1>4. CASE x > 0
    <2>1. x - 1 \in Nat /\ ~(x <= x - 1)
      BY <1>2, <1>4
    <2>2. PICK g : IsDecimal(g, x - 1, first)
      BY <1>1, <2>1
    <2>3. \A k \in 0 .. x - 1 : g[k] = DecimalStep(g, k, first)
      BY <2>2 DEF IsDecimal
    <2>. DEFINE h == [k \in 0 .. x |-> IF k < x THEN g[k] ELSE DecimalStep(g, x, first)]
    <2>4. ASSUME NEW k \in 0 .. x
          PROVE  h[k] = DecimalStep(h, k, first)
      <3>1. h[k] = DecimalStep(g, k, first)
        <4>1. CASE k < x
          BY <1>2, <2>3, <4>1
        <4>2. CASE k = x
          BY <1>2, <4>2
        <4>. QED  BY <1>2, <4>1, <4>2
      <3>2. ~(k < first) => k - 1 \in 0 .. x /\ k - 1 < x
        BY <1>2
      <3>3. ~(k < first) => h[k - 1] = g[k - 1]
        BY <3>2
      <3>. HIDE DEF h
      <3>. QED  BY <3>1, <3>3 DEF DecimalStep
    <2>5. IsDecimal(h, x, first)
      <3>1. h = [k \in 0 .. x |-> h[k]]
        OBVIOUS
      <3>. HIDE DEF h
      <3>. QED  BY <2>4, <3>1 DEF IsDecimal
    <2>. QED  BY <1>2, <2>5
  <1>. QED  BY <1>2, <1>3, <1>4

\* A digit more makes ten times the number and the digit.
LEMMA DecimalValue ==
    ASSUME NEW first \in Nat \ {0}, Len(fmt) \in Nat, NEW k \in 0 .. Len(fmt)
    PROVE  Decimal(fmt, first)[k] =
             IF k < first THEN 0 ELSE 10 * Decimal(fmt, first)[k - 1] + DigitValue(fmt[k])
  <1>. DEFINE F == CHOOSE g : IsDecimal(g, Len(fmt), first)
  <1>1. Decimal(fmt, first) = F
    BY DEF Decimal, IsDecimal, DecimalStep
  <1>2. IsDecimal(F, Len(fmt), first)
    <2>1. \E g : IsDecimal(g, Len(fmt), first)
      BY DecimalExists
    <2>. QED  BY <2>1
  <1>. HIDE DEF F
  <1>3. F[k] = DecimalStep(F, k, first)
    BY <1>2 DEF IsDecimal
  <1>. QED  BY <1>1, <1>3 DEF DecimalStep

-----------------------------------------------------------------------------
(* Strings.                                                                *)

\* Writing one more character.
LEMMA AppendAsConcat ==
    ASSUME NEW s \in Seq(Char), NEW c \in Char
    PROVE  Append(s, c) = s \o <<c>>
  OBVIOUS

\* Padding keeps a string a string.
LEMMA PadToType ==
    ASSUME NEW s \in Seq(Char), NEW width \in Nat, NEW char \in Char
    PROVE  PadTo(s, width, char) \in Seq(Char)
  <1>. DEFINE n == IF width > Len(s) THEN width - Len(s) ELSE 0
              pad == [k \in 1 .. n |-> char]
  <1>1. n \in Nat
    OBVIOUS
  <1>. HIDE DEF n
  <1>2. pad \in Seq(Char)
    BY <1>1
  <1>. HIDE DEF pad
  <1>3. pad \o s \in Seq(Char)
    BY <1>2, ConcatProperties
  <1>. QED  BY <1>3 DEF PadTo, pad, n

\* tmp[] read from its last character to its first.
LEMMA ReversedValue ==
    ASSUME NEW s \in Seq(Char)
    PROVE  /\ Reversed(s) \in Seq(Char) /\ Len(Reversed(s)) = Len(s)
           /\ \A k \in 1 .. Len(s) : Reversed(s)[k] = s[Len(s) + 1 - k]
  <1>1. Len(s) \in Nat
    OBVIOUS
  <1>2. \A k \in 1 .. Len(s) : Len(s) + 1 - k \in 1 .. Len(s)
    BY <1>1
  <1>3. \A k \in 1 .. Len(s) : s[Len(s) + 1 - k] \in Char
    BY <1>2
  <1>. QED  BY <1>1, <1>3 DEF Reversed

\* The character written last is read first.
LEMMA ReversedAppend ==
    ASSUME NEW s \in Seq(Char), NEW c \in Char
    PROVE  Reversed(Append(s, c)) = <<c>> \o Reversed(s)
  <1>. DEFINE t == Append(s, c)  n == Len(s)  q == <<c>>  r == Reversed(s)
  <1>1. /\ n \in Nat /\ t \in Seq(Char) /\ Len(t) = n + 1 /\ t[n + 1] = c
        /\ \A k \in 1 .. n : t[k] = s[k]
    OBVIOUS
  <1>2. q \in Seq(Char) /\ Len(q) = 1 /\ q[1] = c
    OBVIOUS
  <1>3. r \in Seq(Char) /\ Len(r) = n /\ \A k \in 1 .. n : r[k] = s[n + 1 - k]
    BY ReversedValue
  <1>. HIDE DEF q, r, t
  <1>4. /\ Reversed(t) \in Seq(Char) /\ Len(Reversed(t)) = n + 1
        /\ \A k \in 1 .. n + 1 : Reversed(t)[k] = t[n + 2 - k]
    BY <1>1, ReversedValue
  <1>5. /\ q \o r \in Seq(Char) /\ Len(q \o r) = n + 1
        /\ \A k \in 1 .. n + 1 : (q \o r)[k] = IF k <= 1 THEN q[k] ELSE r[k - 1]
    <2>1. q \in Seq(Char) /\ r \in Seq(Char)
      BY <1>2, <1>3
    <2>2. /\ q \o r \in Seq(Char) /\ Len(q \o r) = Len(q) + Len(r)
          /\ \A k \in 1 .. Len(q) + Len(r) :
               (q \o r)[k] = IF k <= Len(q) THEN q[k] ELSE r[k - Len(q)]
      BY ONLY <2>1, ConcatProperties
    <2>3. Len(q) + Len(r) = n + 1
      BY <1>1, <1>2, <1>3
    <2>. QED  BY <1>2, <2>2, <2>3
  <1>6. ASSUME NEW k \in 1 .. n + 1  PROVE Reversed(t)[k] = (q \o r)[k]
    <2>1. CASE k = 1
      <3>1. 1 \in 1 .. n + 1 /\ n + 2 - 1 = n + 1
        BY <1>1
      <3>2. Reversed(t)[1] = t[n + 1]
        BY <1>4, <3>1
      <3>3. (q \o r)[1] = q[1]
        BY <1>5, <3>1
      <3>. QED  BY <1>1, <1>2, <2>1, <3>2, <3>3
    <2>2. CASE k > 1
      <3>1. /\ n + 2 - k \in 1 .. n /\ k - 1 \in 1 .. n /\ n + 1 - (k - 1) = n + 2 - k
            /\ ~(k <= 1)
        BY <1>1, <2>2
      <3>2. Reversed(t)[k] = s[n + 2 - k]
        BY <1>1, <1>4, <3>1
      <3>3. (q \o r)[k] = s[n + 2 - k]
        <4>1. (q \o r)[k] = r[k - 1]
          BY <1>5, <3>1
        <4>2. r[k - 1] = s[n + 1 - (k - 1)]
          BY <1>3, <3>1
        <4>. QED  BY <3>1, <4>1, <4>2
      <3>. QED  BY <3>2, <3>3
    <2>3. k = 1 \/ k > 1
      OBVIOUS
    <2>. QED  BY <2>1, <2>2, <2>3
  <1>7. Reversed(t) = q \o r
    BY <1>4, <1>5, <1>6, SeqEqual
  <1>. QED  BY <1>7 DEF q, r, t

\* What the buffer has room for of s.
Cut(s) == SubSeq(s, 1, IF Len(s) < SIZE THEN Len(s) ELSE SIZE - 1)

\* The first n characters of a string.
LEMMA FirstValue ==
    ASSUME NEW s \in Seq(Char), NEW n \in Nat, n <= Len(s)
    PROVE  /\ SubSeq(s, 1, n) \in Seq(Char) /\ Len(SubSeq(s, 1, n)) = n
           /\ \A k \in 1 .. n : SubSeq(s, 1, n)[k] = s[k]
           /\ n = Len(s) => SubSeq(s, 1, n) = s
  <1>1. \A k \in 1 .. n : s[k] \in Char
    OBVIOUS
  <1>2. /\ SubSeq(s, 1, n) \in Seq(Char) /\ Len(SubSeq(s, 1, n)) = n
        /\ \A k \in 1 .. n : SubSeq(s, 1, n)[k] = s[k]
    BY <1>1, SubSeqProperties
  <1>3. n = Len(s) => SubSeq(s, 1, n) = s
    BY <1>2, SeqEqual
  <1>. QED  BY <1>2, <1>3

\* What has room of a string, character by character.
LEMMA CutValue ==
    ASSUME NEW s \in Seq(Char)
    PROVE  /\ Cut(s) \in Seq(Char)
           /\ Len(Cut(s)) = IF Len(s) < SIZE THEN Len(s) ELSE SIZE - 1
           /\ \A k \in 1 .. Len(Cut(s)) : Cut(s)[k] = s[k]
  <1>. DEFINE n == IF Len(s) < SIZE THEN Len(s) ELSE SIZE - 1
  <1>1. n \in Nat /\ n <= Len(s)
    BY PrintfAssumption
  <1>. HIDE DEF n
  <1>2. Cut(s) = SubSeq(s, 1, n)
    BY DEF Cut, n
  <1>3. /\ Cut(s) \in Seq(Char) /\ Len(Cut(s)) = n
        /\ \A k \in 1 .. n : Cut(s)[k] = s[k]
    BY <1>1, <1>2, FirstValue
  <1>. QED  BY <1>3 DEF n

\* *p++ = c while p < end: never past the end, and all of a string there is room for.
LEMMA PutType ==
    ASSUME p \in Seq(Char), Len(p) < SIZE, NEW s \in Seq(Char)
    PROVE  /\ Put(s) \in Seq(Char) /\ Len(Put(s)) < SIZE
           /\ Len(s) <= Room => Put(s) = p \o s
           /\ Len(Put(s)) = Len(p) + (IF Len(s) <= Room THEN Len(s) ELSE Room)
           /\ \A k \in 1 .. Len(Put(s)) :
                Put(s)[k] = IF k <= Len(p) THEN p[k] ELSE s[k - Len(p)]
  <1>. DEFINE n == IF Len(s) <= Room THEN Len(s) ELSE Room
              r == SubSeq(s, 1, n)
  <1>1. /\ n \in Nat /\ n <= Len(s) /\ Len(p) \in Nat /\ Len(s) \in Nat
        /\ Len(p) + n < SIZE /\ (Len(s) <= Room => n = Len(s))
    BY PrintfAssumption DEF Room
  <1>2. Put(s) = p \o r
    BY DEF Put
  <1>. HIDE DEF n
  <1>3. /\ r \in Seq(Char) /\ Len(r) = n
        /\ (n = Len(s) => r = s)
        /\ \A k \in 1 .. n : r[k] = s[k]
    BY <1>1, FirstValue
  <1>. HIDE DEF r
  <1>4. /\ p \o r \in Seq(Char) /\ Len(p \o r) = Len(p) + Len(r)
        /\ \A k \in 1 .. Len(p) + Len(r) :
             (p \o r)[k] = IF k <= Len(p) THEN p[k] ELSE r[k - Len(p)]
    <2>1. p \in Seq(Char) /\ r \in Seq(Char)
      BY <1>3
    <2>. QED  BY ONLY <2>1, ConcatProperties
  <1>5. ASSUME NEW k \in 1 .. Len(p) + n
        PROVE  (p \o r)[k] = IF k <= Len(p) THEN p[k] ELSE s[k - Len(p)]
    <2>1. k <= Len(p) \/ k - Len(p) \in 1 .. n
      BY <1>1
    <2>. QED  BY <1>3, <1>4, <2>1
  <1>. QED  BY <1>1, <1>2, <1>3, <1>4, <1>5 DEF n

\* Writing a string to a buffer that holds the cut of t makes it the cut of both.
LEMMA PutCut ==
    ASSUME NEW t \in Seq(Char), NEW s \in Seq(Char), p = Cut(t)
    PROVE  Put(s) = Cut(t \o s)
  <1>. DEFINE u == t \o s
  <1>1. /\ u \in Seq(Char) /\ Len(u) = Len(t) + Len(s)
        /\ \A k \in 1 .. Len(t) + Len(s) :
             u[k] = IF k <= Len(t) THEN t[k] ELSE s[k - Len(t)]
    BY ONLY ConcatProperties, t \in Seq(Char), s \in Seq(Char)
  <1>. HIDE DEF u
  <1>2. /\ p \in Seq(Char) /\ Len(p) = (IF Len(t) < SIZE THEN Len(t) ELSE SIZE - 1)
        /\ \A k \in 1 .. Len(p) : p[k] = t[k]
    BY CutValue
  <1>3. /\ Cut(u) \in Seq(Char) /\ Len(Cut(u)) = (IF Len(u) < SIZE THEN Len(u) ELSE SIZE - 1)
        /\ \A k \in 1 .. Len(Cut(u)) : Cut(u)[k] = u[k]
    BY <1>1, CutValue
  <1>4. /\ SIZE \in Nat \ {0} /\ Len(t) \in Nat /\ Len(s) \in Nat /\ Len(p) \in Nat
        /\ Len(p) < SIZE /\ Room = SIZE - 1 - Len(p)
    BY <1>2, PrintfAssumption DEF Room
  <1>5. /\ Put(s) \in Seq(Char)
        /\ Len(Put(s)) = Len(p) + (IF Len(s) <= Room THEN Len(s) ELSE Room)
        /\ \A k \in 1 .. Len(Put(s)) :
             Put(s)[k] = IF k <= Len(p) THEN p[k] ELSE s[k - Len(p)]
    BY <1>2, <1>4, PutType
  <1>. DEFINE ls == Len(s)  lt == Len(t)  lp == Len(p)  lq == Len(Put(s))  lc == Len(Cut(u))
  <1>a. /\ SIZE \in Nat /\ SIZE > 0 /\ ls \in Nat /\ lt \in Nat /\ lp \in Nat
        /\ lp = IF lt < SIZE THEN lt ELSE SIZE - 1
        /\ lc = IF lt + ls < SIZE THEN lt + ls ELSE SIZE - 1
        /\ lq = lp + (IF ls <= SIZE - 1 - lp THEN ls ELSE SIZE - 1 - lp)
    BY <1>1, <1>2, <1>3, <1>4, <1>5
  <1>6. lq = lc
    <2>. HIDE DEF ls, lt, lp, lq, lc
    <2>. QED  BY ONLY <1>a
  <1>7. ASSUME NEW k \in 1 .. Len(Put(s))  PROVE Put(s)[k] = Cut(u)[k]
    <2>1. k \in 1 .. Len(t) + Len(s) /\ Cut(u)[k] = u[k]
      BY <1>1, <1>3, <1>4, <1>6
    <2>2. CASE k <= Len(p)
      <3>1. k \in 1 .. Len(p) /\ k <= Len(t)
        BY <1>2, <1>4, <2>2
      <3>. QED  BY <1>1, <1>2, <1>5, <2>1, <3>1
    <2>3. CASE ~(k <= Len(p))
      <3>1. Len(p) = Len(t) /\ ~(k <= Len(t))
        <4>0. lq \in Nat /\ lp \in Nat
          BY <1>4, <1>5
        <4>1. k \in Nat /\ k <= lq /\ ~(k <= lp)
          BY <2>3, <4>0
        <4>. HIDE DEF ls, lt, lp, lq, lc
        <4>2. lp = lt /\ ~(k <= lt)
          BY ONLY <1>a, <4>1
        <4>. QED  BY <4>2 DEF lp, lt
      <3>. QED  BY <1>1, <1>5, <2>1, <2>3, <3>1
    <2>. QED  BY <2>2, <2>3
  <1>8. Put(s) = Cut(u)
    BY <1>3, <1>5, <1>6, <1>7, SeqEqual
  <1>. QED  BY <1>8 DEF u

-----------------------------------------------------------------------------
(* The inductive invariant.                                                *)

\* The scan is in the format unless the format ends inside a conversion.
ScanInv ==
    /\ i >= 1
    /\ pc # "overrun" => i <= Len(fmt) + 1
    /\ pc = "overrun" => ~ConversionsClosed(fmt)

\* pad_width and pad_char are those of the digits since the last '%', at j - 1.
WidthAt(j) ==
    /\ fmt[j - 1] = "%"
    /\ \A k \in j .. i - 1 : IsDigit(fmt[k])
    /\ pad_width = Decimal(fmt, j)[i - 1]
    /\ pad_char = IF j < i /\ fmt[j] = "0" THEN "0" ELSE SPACE
    /\ j = i => At(i) # "0"
WidthInv == pc \in {"spec", "digits", "emit"} => \E j \in 2 .. i : WidthAt(j)

\* The digits in tmp[], in the opposite order, and the numeral of what is left of
\* the number make up its numeral, and the number is one tmp[] has room for.
DigitsInv ==
    pc \in {"digits", "emit"} =>
      LET m == Magnitude(At(i), arg) IN
      /\ At(i) \in {"d", "u", "x", "p"}
      /\ exact => m >= 0
      /\ num < 0 => At(i) = "u"
      /\ Len(tmp) <= TmpSize
      /\ pc = "digits" =>
           /\ Len(tmp) < TmpSize
           /\ m >= 0 => /\ num >= 0
                        /\ Numeral(m, Base) = Numeral(num, Base) \o Reversed(tmp)
      /\ pc = "emit" /\ m >= 0 => Numeral(m, Base) = Reversed(tmp)

\* FormattedText, inside a conversion too: %p writes its prefix first.
Sent == IF pc \in {"digits", "emit"} /\ At(i) = "p" THEN <<"0", "x">> ELSE << >>
TextInv == exact /\ pc # "overrun" => p = Cut(text \o Sent)

PrintfInv ==
    PrintfTypeOK /\ ScanInv /\ WidthInv /\ DigitsInv /\ TextInv

-----------------------------------------------------------------------------
(* Where the scan is.                                                      *)

\* A format is a string without NUL, so that *fmt is NUL at its end alone.
LEMMA FormatFacts ==
    ASSUME PrintfTypeOK
    PROVE  /\ fmt \in Seq(Char) /\ Len(fmt) \in Nat
           /\ \A k \in 1 .. Len(fmt) : fmt[k] \in Char /\ fmt[k] # NUL /\ At(k) = fmt[k]
           /\ \A k \in Nat : At(k) # NUL => k <= Len(fmt)
           /\ \A k \in Nat : ~(k <= Len(fmt)) => At(k) = NUL
           /\ "0" \in Char /\ SPACE \in Char /\ "x" \in Char /\ "-" \in Char /\ NUL \in Char
  <1>1. fmt \in Seq(Char \ {NUL}) /\ {"x", "-", SPACE, NUL} \subseteq Char
    BY PrintfAssumption DEF PrintfTypeOK
  <1>2. \A k \in 1 .. Len(fmt) : fmt[k] \in Char \ {NUL}
    BY <1>1
  <1>3. fmt \in Seq(Char) /\ Len(fmt) \in Nat
    BY <1>1, <1>2
  <1>4. "0" \in Char
    <2>1. DigitChar(0) \in Char /\ DigitChar(0) = DigitChars[1]
      BY DigitCharType
    <2>. QED  BY <2>1 DEF DigitChars
  <1>. QED  BY <1>1, <1>2, <1>3, <1>4 DEF At

\* fmt++ is executed on a character of the format, the overrun excepted.
LEMMA ScanStep ==
    ASSUME PrintfTypeOK, ScanInv, WidthInv, DigitsInv, [Next]_vars
    PROVE  ScanInv'
  <1>0. /\ Len(fmt) \in Nat /\ i \in Nat /\ i >= 1
        /\ \A k \in Nat : At(k) # NUL => k <= Len(fmt)
    BY FormatFacts DEF PrintfTypeOK, ScanInv
  <1>. USE DEF ScanInv
  <1>1. CASE Literal
    <2>1. i' = i + 1 /\ fmt' = fmt /\ pc' = "loop" /\ At(i) # NUL
      BY <1>1 DEF Literal, Write, More
    <2>. QED  BY <1>0, <2>1
  <1>2. CASE Percent
    <2>1. /\ fmt' = fmt /\ pc' = "spec" /\ At(i) = "%"
          /\ i' = i + 1 \/ (i' = i + 2 /\ At(i + 1) = "0")
      BY <1>2 DEF Percent, More
    <2>2. i <= Len(fmt)
      BY <1>0, <2>1 DEF NUL
    <2>3. i' = i + 2 => i + 1 <= Len(fmt)
      <3>1. i + 1 \in Nat /\ "0" # NUL /\ i + 1 # i + 2
        BY <1>0 DEF NUL
      <3>. QED  BY <1>0, <2>1, <3>1
    <2>. QED  BY <1>0, <2>1, <2>2, <2>3
  <1>3. CASE Width
    <2>1. fmt' = fmt /\ pc' = "spec" /\ i' = i + 1 /\ IsDigit(At(i))
      BY <1>3 DEF Width
    <2>2. At(i) # NUL
      BY <2>1, DigitFacts
    <2>. QED  BY <1>0, <2>1, <2>2
  <1>4. ASSUME NEW s, ConvString(s) \/ ConvChar(s)  PROVE ScanInv'
    <2>1. fmt' = fmt /\ pc' = "loop" /\ i' = i + 1 /\ At(i) \in {"s", "c"}
      BY <1>4 DEF ConvString, ConvChar, Write
    <2>. QED  BY <1>0, <2>1 DEF NUL
  <1>5. ASSUME NEW n, ConvNumber(n) \/ Digit  PROVE ScanInv'
    BY <1>5 DEF ConvNumber, Digit
  <1>6. CASE Emit
    <2>1. fmt' = fmt /\ pc' = "loop" /\ i' = i + 1
      BY <1>6 DEF Emit, Write
    <2>2. At(i) \in {"d", "u", "x", "p"}
      BY <1>6 DEF Emit, DigitsInv
    <2>. QED  BY <1>0, <2>1, <2>2 DEF NUL
  <1>7. CASE ConvOther
    <2>1. /\ fmt' = fmt /\ i' = i + 1 /\ pc = "spec"
          /\ pc' = IF At(i) = NUL THEN "overrun" ELSE "loop"
      BY <1>7 DEF ConvOther, Write
    <2>2. CASE At(i) # NUL
      BY <1>0, <2>1, <2>2
    <2>3. CASE At(i) = NUL
      <3>1. PICK j \in 2 .. i : WidthAt(j)
        BY <2>1 DEF WidthInv
      <3>2. ~(i \in 1 .. Len(fmt))
        BY <2>3, FormatFacts
      <3>3. i = Len(fmt) + 1
        BY <1>0, <2>1, <3>2
      <3>4. ~ConversionsClosed(fmt)
        <4>1. /\ j - 1 \in 1 .. Len(fmt) /\ fmt[j - 1] = "%"
              /\ \A k \in j .. Len(fmt) : IsDigit(fmt[k])
          BY <1>0, <3>1, <3>3 DEF WidthAt
        <4>2. (j - 1) + 1 = j
          BY <1>0
        <4>. QED  BY <4>1, <4>2 DEF ConversionsClosed
      <3>. QED  BY <1>0, <2>1, <2>3, <3>4 DEF ConversionsClosed
    <2>. QED  BY <2>2, <2>3
  <1>8. CASE Return \/ Ended \/ UNCHANGED vars
    BY <1>8 DEF Return, Ended, vars, ConversionsClosed
  <1>. QED  BY <1>1, <1>2, <1>3, <1>4, <1>5, <1>6, <1>7, <1>8 DEF Next, Step

\* The width of the code is the width the format spells.
LEMMA WidthStep ==
    ASSUME PrintfTypeOK, ScanInv, WidthInv, [Next]_vars
    PROVE  WidthInv'
  <1>0. /\ Len(fmt) \in Nat /\ i \in Nat /\ i >= 1
        /\ \A k \in Nat : At(k) # NUL => k <= Len(fmt)
        /\ \A k \in 1 .. Len(fmt) : At(k) = fmt[k]
    BY FormatFacts DEF PrintfTypeOK, ScanInv
  <1>1. CASE Percent
    <2>0. PICK j \in Nat : j = i + 1
      BY <1>0
    <2>1. fmt' = fmt /\ At(i) = "%" /\ pad_width' = 0
      BY <1>1 DEF Percent, More
    <2>2. i \in 1 .. Len(fmt) /\ i \in 0 .. Len(fmt) /\ fmt[i] = "%"
      BY <1>0, <2>1 DEF NUL
    <2>3. Decimal(fmt, j)' = Decimal(fmt, j)
      BY <2>1 DEF Decimal
    <2>4. j \in Nat \ {0} /\ i < j /\ j - 1 = i /\ j \in Nat /\ j >= 2
      BY <1>0, <2>0
    <2>5. Decimal(fmt, j)[i] = 0
      BY <1>0, <2>2, <2>4, DecimalValue
    <2>6. CASE At(j) = "0"
      <3>1. i' = j + 1 /\ pad_char' = "0"
        <4>1. i' = i + 2 /\ pad_char' = "0"
          BY <1>1, <2>0, <2>6 DEF Percent
        <4>. QED  BY <1>0, <2>0, <4>1
      <3>2. j \in 1 .. Len(fmt) /\ j \in 0 .. Len(fmt) /\ fmt[j] = "0"
        BY <1>0, <2>4, <2>6 DEF NUL
      <3>3. Decimal(fmt, j)[j] = 0
        <4>1. Decimal(fmt, j)[j] = 10 * Decimal(fmt, j)[j - 1] + DigitValue(fmt[j])
          <5>1. ~(j < j)
            BY <1>0
          <5>. QED  BY <1>0, <2>4, <3>2, <5>1, DecimalValue
        <4>. QED  BY <2>4, <2>5, <3>2, <4>1, DigitFacts
      <3>4. j \in 2 .. i' /\ i' - 1 = j /\ j < i' /\ j # i'
        BY <1>0, <2>0, <3>1
      <3>5. \A k \in j .. j : IsDigit(fmt[k])
        BY <2>4, <3>2, DigitFacts
      <3>6. WidthAt(j)'
        BY <2>1, <2>2, <2>3, <2>4, <3>1, <3>2, <3>3, <3>4, <3>5 DEF WidthAt
      <3>. QED  BY <3>4, <3>6 DEF WidthInv
    <2>7. CASE At(j) # "0"
      <3>1. i' = j /\ pad_char' = SPACE
        BY <1>1, <2>0, <2>7 DEF Percent
      <3>2. At(i)' # "0"
        BY <2>1, <2>7, <3>1 DEF At
      <3>3. j \in 2 .. i' /\ i' - 1 = i /\ ~(j < i')
        BY <1>0, <2>0, <3>1
      <3>4. \A k \in j .. i : IsDigit(fmt[k])
        BY <1>0, <2>0
      <3>5. WidthAt(j)'
        BY <2>1, <2>2, <2>3, <2>4, <2>5, <3>1, <3>2, <3>3, <3>4 DEF WidthAt
      <3>. QED  BY <3>3, <3>5 DEF WidthInv
    <2>. QED  BY <2>6, <2>7
  <1>2. CASE Width
    <2>1. /\ fmt' = fmt /\ IsDigit(At(i)) /\ i' = i + 1 /\ pad_char' = pad_char
          /\ pad_width' = 10 * pad_width + DigitValue(At(i)) /\ pc = "spec"
      BY <1>2 DEF Width
    <2>2. i \in 1 .. Len(fmt) /\ i \in 0 .. Len(fmt) /\ At(i) = fmt[i]
      <3>1. At(i) # NUL
        BY <2>1, DigitFacts
      <3>. QED  BY <1>0, <3>1
    <2>3. PICK j \in 2 .. i : WidthAt(j)
      BY <2>1 DEF WidthInv
    <2>4. Decimal(fmt, j)' = Decimal(fmt, j)
      BY <2>1 DEF Decimal
    <2>5. Decimal(fmt, j)[i] = 10 * Decimal(fmt, j)[i - 1] + DigitValue(fmt[i])
      <3>1. j \in Nat \ {0} /\ ~(i < j)
        BY <1>0
      <3>. QED  BY <1>0, <2>2, <3>1, DecimalValue
    <2>6. pad_width' = Decimal(fmt, j)'[i' - 1]
      <3>1. i' - 1 = i
        BY <1>0, <2>1
      <3>. QED  BY <2>1, <2>2, <2>3, <2>4, <2>5, <3>1 DEF WidthAt
    <2>7. \A k \in j .. i' - 1 : IsDigit(fmt[k])
      <3>1. \A k \in j .. i' - 1 : k \in j .. i - 1 \/ k = i
        BY <1>0, <2>1
      <3>. QED  BY <2>1, <2>2, <2>3, <3>1 DEF WidthAt
    <2>8. j \in 2 .. i' /\ j < i' /\ j # i' /\ (j < i \/ j = i)
      BY <1>0, <2>1
    <2>9. pad_char' = IF j < i' /\ fmt[j] = "0" THEN "0" ELSE SPACE
      BY <2>1, <2>2, <2>3, <2>8 DEF WidthAt
    <2>10. WidthAt(j)'
      BY <2>1, <2>3, <2>6, <2>7, <2>8, <2>9 DEF WidthAt
    <2>. QED  BY <2>8, <2>10 DEF WidthInv
  <1>3. ASSUME NEW n, ConvNumber(n) \/ Digit \/ UNCHANGED vars  PROVE WidthInv'
    <2>1. UNCHANGED <<fmt, i, pad_width, pad_char>>
      BY <1>3 DEF ConvNumber, Digit, vars, specVars
    <2>2. pc' \in {"spec", "digits", "emit"} => pc \in {"spec", "digits", "emit"}
      BY <1>3 DEF ConvNumber, Digit, vars
    <2>3. \A j : WidthAt(j)' = WidthAt(j)
      BY <2>1 DEF WidthAt, Decimal, At
    <2>. QED  BY <2>1, <2>2, <2>3 DEF WidthInv
  <1>4. CASE pc' \notin {"spec", "digits", "emit"}
    BY <1>4 DEF WidthInv
  <1>5. ASSUME NEW s, \/ Literal \/ ConvString(s) \/ ConvChar(s) \/ Emit \/ ConvOther
                      \/ Return \/ Ended
        PROVE  pc' \notin {"spec", "digits", "emit"}
    BY <1>5 DEF Literal, ConvString, ConvChar, Emit, ConvOther, Return, Ended, More, vars
  <1>. QED  BY <1>1, <1>2, <1>3, <1>4, <1>5 DEF Next, Step

-----------------------------------------------------------------------------
(* Numbers.                                                                *)

\* The padding of the code is the padding the format asks for.
LEMMA WantedIsPadded ==
    ASSUME PrintfTypeOK, ScanInv, WidthInv, pc \in {"spec", "digits", "emit"}, NEW s
    PROVE  Wanted(s) = Padded(s)
  <1>1. PICK j \in 2 .. i : WidthAt(j)
    BY DEF WidthInv
  <1>. DEFINE Start(l) == /\ \A k \in l .. i - 1 : IsDigit(fmt[k])
                          /\ ~IsDigit(fmt[l - 1])
  <1>2. i \in Nat /\ Start(j)
    BY <1>1, DigitFacts DEF WidthAt, PrintfTypeOK
  <1>3. ASSUME NEW l \in 2 .. i, Start(l)  PROVE l = j
    <2>1. ~(j < l)
      <3>1. j < l => l - 1 \in j .. i - 1
        BY <1>2
      <3>. QED  BY <1>2, <1>3, <3>1
    <2>2. ~(l < j)
      <3>1. l < j => j - 1 \in l .. i - 1
        BY <1>2
      <3>. QED  BY <1>2, <1>3, <3>1
    <2>. QED  BY <1>2, <2>1, <2>2
  <1>. HIDE DEF Start
  <1>4. (CHOOSE l \in 2 .. i : Start(l)) = j
    BY <1>2, <1>3
  <1>5. Wanted(s) = PadTo(s, Decimal(fmt, j)[i - 1],
                          IF j < i /\ fmt[j] = "0" THEN "0" ELSE SPACE)
    BY <1>4 DEF Wanted, Start
  <1>. QED  BY <1>1, <1>5 DEF WidthAt, Padded

\* C's division: of a number that is not negative, and of one that is.
LEMMA CDivision ==
    ASSUME NEW a \in Int, NEW b \in {10, 16}
    PROVE  /\ a >= 0 => /\ CDiv(a, b) = a \div b /\ CMod(a, b) = a % b
                        /\ a \div b \in Nat /\ a % b \in 0 .. b - 1
           /\ a < 0 => CDiv(a, b) \in Int /\ CMod(a, b) \in -(b - 1) .. 0
  <1>0. b \in Nat /\ b >= 2
    OBVIOUS
  <1>1. CASE a >= 0
    <2>1. a \in Nat
      BY <1>1
    <2>2. a \div b \in Nat /\ a % b \in 0 .. b - 1 /\ a = b * (a \div b) + (a % b)
      BY ONLY <1>0, <2>1, Quotient
    <2>3. CDiv(a, b) = a \div b
      BY <1>1 DEF CDiv
    <2>4. CMod(a, b) = a % b
      BY <2>1, <2>2, <2>3 DEF CMod
    <2>. QED  BY <1>1, <2>2, <2>3, <2>4
  <1>2. CASE a < 0
    <2>. DEFINE c == -a
    <2>1. c \in Nat
      BY <1>2
    <2>2. c \div b \in Nat /\ c % b \in 0 .. b - 1 /\ c = b * (c \div b) + (c % b)
      <3>. HIDE DEF c
      <3>. QED  BY ONLY <1>0, <2>1, Quotient
    <2>3. CDiv(a, b) = -(c \div b)
      BY <1>2 DEF CDiv
    <2>4. CMod(a, b) = -(c % b)
      <3>1. CMod(a, b) = a - b * (-(c \div b))
        BY <2>3 DEF CMod
      <3>2. a = -c
        OBVIOUS
      <3>. HIDE DEF c
      <3>. QED  BY <2>1, <2>2, <3>1, <3>2
    <2>5. -(c % b) \in -(b - 1) .. 0 /\ -(c \div b) \in Int
      <3>. HIDE DEF c
      <3>. QED  BY <1>0, <2>2
    <2>. QED  BY <1>2, <2>3, <2>4, <2>5
  <1>. QED  BY <1>1, <1>2

\* The characters before '0' that %u of a negative int prints.
LEMMA BelowZeroType ==
    ASSUME NEW d \in -9 .. -1
    PROVE  DigitChar(d) \in Char
  <1>1. Len(BelowZeroChars) = 9
    BY DEF BelowZeroChars
  <1>2. -d \in 1 .. Len(BelowZeroChars) /\ ~(d >= 0)
    BY <1>1
  <1>. QED  BY <1>2, PrintfAssumption DEF DigitChar

\* The number whose digits are taken, and the room tmp[] has for them.
LEMMA MagnitudeFacts ==
    ASSUME At(i) \in {"d", "u", "x", "p"}, NEW n \in -INT_LIMIT .. INT_LIMIT - 1
    PROVE  LET m == Magnitude(At(i), n) IN
           /\ m \in Int /\ (m < 0 => At(i) = "u")
           /\ Exact(At(i), n) => m >= 0
           /\ At(i) = "d" => m = IF n < 0 THEN -n ELSE n
           /\ At(i) = "u" => m = n /\ (n >= 0 => n % WORD = n)
           /\ At(i) \in {"x", "p"} => m = n % WORD
           /\ m >= 0 => /\ Len(Numeral(m, Base)) <= TmpSize
                        /\ At(i) = "d" => Len(Numeral(m, Base)) < TmpSize
  <1>. DEFINE m == Magnitude(At(i), n)
  <1>0. /\ INT_LIMIT \in Nat /\ INT_LIMIT > 0 /\ WORD \in Nat /\ WORD = 2 * INT_LIMIT
        /\ TMP_SIZE \in Nat /\ PTR_TMP_SIZE \in Nat
    BY PrintfAssumption DEF WORD
  <1>1. CASE At(i) = "d"
    <2>. DEFINE a == IF n < 0 THEN -n ELSE n
    <2>1. a \in Nat /\ a <= INT_LIMIT /\ a < WORD
      BY <1>0
    <2>2. a % WORD = a
      <3>. HIDE DEF a
      <3>. QED  BY <1>0, <2>1
    <2>3. m = a
      BY <1>1, <2>2 DEF Magnitude
    <2>4. Base = 10 /\ TmpSize = TMP_SIZE
      BY <1>1 DEF Base, TmpSize
    <2>. HIDE DEF a, m
    <2>5. /\ Len(Numeral(a, 10)) <= Len(Numeral(INT_LIMIT, 10))
          /\ Len(Numeral(a, 10)) \in Nat /\ Len(Numeral(INT_LIMIT, 10)) \in Nat
      BY <1>0, <2>1, NumeralBound
    <2>6. Len(Numeral(a, 10)) < TMP_SIZE
      BY <1>0, <2>5, TmpAssumption
    <2>7. Len(Numeral(a, 10)) <= TMP_SIZE
      BY <1>0, <2>5, <2>6
    <2>. QED  BY <1>1, <2>1, <2>3, <2>4, <2>6, <2>7 DEF a, m
  <1>2. CASE At(i) = "u"
    <2>1. m = n
      BY <1>2 DEF Magnitude
    <2>2. Base = 10 /\ TmpSize = TMP_SIZE
      BY <1>2 DEF Base, TmpSize
    <2>. HIDE DEF m
    <2>3. n >= 0 => n % WORD = n /\ n \in Nat /\ n <= INT_LIMIT
      BY <1>0
    <2>4. n >= 0 => /\ Len(Numeral(n, 10)) <= Len(Numeral(INT_LIMIT, 10))
                    /\ Len(Numeral(n, 10)) \in Nat /\ Len(Numeral(INT_LIMIT, 10)) \in Nat
      BY <1>0, <2>3, NumeralBound
    <2>5. n >= 0 => Len(Numeral(n, 10)) <= TMP_SIZE
      BY <1>0, <2>4, TmpAssumption
    <2>6. Exact(At(i), n) => n >= 0
      BY <1>2 DEF Exact
    <2>. QED  BY <1>2, <2>1, <2>2, <2>3, <2>5, <2>6 DEF m
  <1>3. CASE At(i) \in {"x", "p"}
    <2>1. m = n % WORD /\ At(i) # "d" /\ At(i) # "u"
      BY <1>3 DEF Magnitude
    <2>2. n % WORD \in Nat /\ n % WORD <= WORD - 1 /\ WORD - 1 \in Nat
      BY <1>0
    <2>3. Base = 16 /\ (TmpSize = TMP_SIZE \/ TmpSize = PTR_TMP_SIZE)
      BY <1>3 DEF Base, TmpSize
    <2>. HIDE DEF m
    <2>4. m \in Nat /\ m <= WORD - 1
      BY <2>1, <2>2
    <2>5. /\ Len(Numeral(m, 16)) <= Len(Numeral(WORD - 1, 16))
          /\ Len(Numeral(m, 16)) \in Nat /\ Len(Numeral(WORD - 1, 16)) \in Nat
      BY <2>2, <2>4, NumeralBound
    <2>6. Len(Numeral(m, 16)) <= TmpSize
      BY <1>0, <2>3, <2>5, TmpAssumption
    <2>. QED  BY <1>3, <2>1, <2>3, <2>4, <2>6 DEF m
  <1>. QED  BY <1>1, <1>2, <1>3

\* What the digit loop writes to tmp[] is a character, and num stays an integer.
LEMMA DigitType ==
    ASSUME PrintfTypeOK, DigitsInv, pc = "digits"
    PROVE  /\ DigitChar(CMod(num, Base)) \in Char /\ CDiv(num, Base) \in Int
           /\ Base \in {10, 16} /\ TmpSize \in Nat
           /\ CDiv(num, Base) < 0 => At(i) = "u"
  <1>1. num \in Int /\ Base \in {10, 16} /\ (num < 0 => At(i) = "u" /\ Base = 10)
        /\ TmpSize \in Nat
    BY PrintfAssumption DEF PrintfTypeOK, DigitsInv, Base, TmpSize
  <1>2. CASE num >= 0
    <2>1. /\ CDiv(num, Base) = num \div Base /\ CMod(num, Base) = num % Base
          /\ num \div Base \in Nat /\ num % Base \in 0 .. Base - 1
      BY <1>1, <1>2, CDivision
    <2>2. CMod(num, Base) \in 0 .. 15
      BY <1>1, <2>1
    <2>3. DigitChar(CMod(num, Base)) \in Char
      BY <2>2, DigitCharType
    <2>. QED  BY <1>1, <2>1, <2>3
  <1>3. CASE num < 0
    <2>1. CDiv(num, Base) \in Int /\ CMod(num, Base) \in -(Base - 1) .. 0
      BY <1>1, <1>3, CDivision
    <2>2. CMod(num, Base) \in -9 .. -1 \/ CMod(num, Base) \in 0 .. 15
      BY <1>1, <1>3, <2>1
    <2>3. DigitChar(CMod(num, Base)) \in Char
      BY <2>2, DigitCharType, BelowZeroType
    <2>. QED  BY <1>1, <1>3, <2>1, <2>3
  <1>. QED  BY <1>1, <1>2, <1>3

\* A digit moves from the numeral of num to tmp[], and all of them fit.
LEMMA DigitTurn ==
    ASSUME PrintfTypeOK, DigitsInv, Digit, Magnitude(At(i), arg) >= 0
    PROVE  LET m == Magnitude(At(i), arg) IN
           /\ num' >= 0
           /\ pc' = "digits" => Numeral(m, Base) = Numeral(num', Base) \o Reversed(tmp')
           /\ pc' = "emit" => Numeral(m, Base) = Reversed(tmp')
  <1>. DEFINE m == Magnitude(At(i), arg)  b == Base  c == DigitChar(CMod(num, Base))
              R == Reversed(tmp)  N(k) == Numeral(k, Base)
  <1>0. /\ pc = "digits" /\ tmp' = Append(tmp, c) /\ num' = CDiv(num, b)
        /\ pc' = IF num' # 0 /\ Len(tmp') < TmpSize THEN "digits" ELSE "emit"
    BY DEF Digit
  <1>1. /\ c \in Char /\ b \in {10, 16} /\ TmpSize \in Nat
    BY <1>0, DigitType
  <1>2. /\ num \in Int /\ tmp \in Seq(Char) /\ num >= 0 /\ N(m) = N(num) \o R
        /\ At(i) \in {"d", "u", "x", "p"} /\ arg \in -INT_LIMIT .. INT_LIMIT - 1
    BY <1>0 DEF PrintfTypeOK, DigitsInv
  <1>3. m \in Int /\ m >= 0 /\ Len(N(m)) <= TmpSize
    BY <1>2, MagnitudeFacts
  <1>4. CDiv(num, b) = num \div b /\ CMod(num, b) = num % b
    BY <1>1, <1>2, CDivision
  <1>5. c = DigitChar(num % b)
    BY <1>4
  <1>. HIDE DEF m, b, c, N
  <1>6. R \in Seq(Char) /\ Len(R) = Len(tmp) /\ Reversed(tmp') = <<c>> \o R
    BY <1>0, <1>1, <1>2, ReversedValue, ReversedAppend
  <1>. HIDE DEF R
  <1>7. num \in Nat /\ num \div b \in Nat /\ b \in Nat /\ b >= 2 /\ (num < b <=> num \div b = 0)
    <2>1. num \in Nat /\ b \in Nat /\ b >= 2
      BY <1>1, <1>2
    <2>. QED  BY ONLY <2>1, Quotient
  <1>8. CASE num < b
    <2>1. num' = 0 /\ num % b = num
      BY <1>0, <1>4, <1>7, <1>8
    <2>2. N(num) = <<DigitChar(num)>>
      BY <1>7, <1>8, NumeralValue DEF N, b
    <2>. QED  BY <1>0, <1>2, <1>5, <1>6, <2>1, <2>2 DEF N, m
  <1>9. CASE ~(num < b)
    <2>. DEFINE q == N(num \div b)
    <2>1. num' = num \div b /\ num' # 0 /\ num' \in Nat
      BY <1>0, <1>4, <1>7, <1>9
    <2>2. N(num) = Append(q, c)
      BY <1>5, <1>7, <1>9, NumeralValue DEF N, b
    <2>3. q \in Seq(Char) /\ Len(q) >= 1
      BY <1>1, <1>7, NumeralType DEF N, b
    <2>. HIDE DEF q
    <2>4. N(m) = q \o Reversed(tmp')
      <3>1. Append(q, c) = q \o <<c>>
        BY <1>1, <2>3, AppendAsConcat
      <3>2. <<c>> \in Seq(Char)
        BY <1>1
      <3>3. (q \o <<c>>) \o R = q \o (<<c>> \o R)
        BY <1>6, <2>3, <3>2, ConcatAssociative
      <3>. QED  BY <1>2, <1>6, <2>2, <3>1, <3>3
    <2>5. Len(N(m)) = Len(q) + Len(tmp')
      <3>1. tmp' \in Seq(Char)
        BY <1>0, <1>1, <1>2
      <3>2. Reversed(tmp') \in Seq(Char) /\ Len(Reversed(tmp')) = Len(tmp')
        BY <3>1, ReversedValue
      <3>. QED  BY <2>3, <2>4, <3>2, ConcatProperties
    <2>6. Len(tmp') < TmpSize
      <3>1. Len(q) \in Nat /\ Len(tmp') \in Nat
        BY <1>0, <1>1, <1>2, <2>3
      <3>. QED  BY <1>1, <1>3, <2>3, <2>5, <3>1
    <2>. QED  BY <1>0, <2>1, <2>4, <2>6 DEF N, m, q
  <1>. QED  BY <1>8, <1>9

\* Taking an argument and taking a digit keep the numeral whole.
LEMMA DigitsStep ==
    ASSUME PrintfTypeOK, ScanInv, WidthInv, DigitsInv, [Next]_vars
    PROVE  DigitsInv'
  <1>1. ASSUME NEW n \in Ints, ConvNumber(n)  PROVE DigitsInv'
    <2>. DEFINE m == Magnitude(At(i), n)
    <2>1. /\ At(i) \in {"d", "u", "x", "p"} /\ arg' = n /\ num' = m /\ tmp' = << >>
          /\ exact' = (exact /\ Exact(At(i), n)) /\ pc' = "digits" /\ UNCHANGED <<fmt, i>>
      BY <1>1 DEF ConvNumber
    <2>2. At(i)' = At(i)
      BY <2>1 DEF At
    <2>3. Base' = Base /\ TmpSize' = TmpSize /\ Base \in {10, 16}
      BY <2>2 DEF Base, TmpSize
    <2>4. Magnitude(At(i), arg)' = m
      BY <2>1, <2>2 DEF Magnitude
    <2>5. /\ m \in Int /\ (m < 0 => At(i) = "u") /\ (Exact(At(i), n) => m >= 0)
      BY <2>1, PrintfAssumption, MagnitudeFacts
    <2>. HIDE DEF m
    <2>6. m >= 0 => Numeral(m, Base) = Numeral(m, Base) \o Reversed(<< >>)
      <3>1. Reversed(<< >>) = << >>
        BY DEF Reversed
      <3>2. m >= 0 => Numeral(m, Base) \in Seq(Char)
        <4>1. m >= 0 => m \in Nat
          BY <2>5
        <4>. QED  BY <2>3, <4>1, NumeralType
      <3>. QED  BY <3>1, <3>2, ConcatEmptySeq
    <2>7. TmpSize \in Nat /\ 0 < TmpSize
      BY PrintfAssumption DEF TmpSize
    <2>8. Len(tmp') = 0 /\ Reversed(tmp)' = Reversed(<< >>)
      BY <2>1 DEF Reversed
    <2>9. /\ (exact' => m >= 0) /\ (num' < 0 => At(i) = "u")
          /\ Len(tmp') <= TmpSize /\ Len(tmp') < TmpSize
          /\ m >= 0 => num' >= 0 /\ Numeral(m, Base) = Numeral(num', Base) \o Reversed(tmp)'
      <3>1. exact' => m >= 0
        <4>1. exact' => Exact(At(i), n)
          BY <2>1
        <4>. QED  BY <2>5, <4>1
      <3>2. Len(tmp') <= TmpSize /\ Len(tmp') < TmpSize
        BY <2>7, <2>8
      <3>3. num' < 0 => At(i) = "u"
        BY <2>1, <2>5
      <3>4. m >= 0 => num' >= 0 /\ Numeral(m, Base) = Numeral(num', Base) \o Reversed(tmp)'
        BY <2>1, <2>6, <2>8
      <3>. QED  BY <3>1, <3>2, <3>3, <3>4
    <2>10. pc' = "digits" /\ pc' # "emit" /\ At(i) \in {"d", "u", "x", "p"}
      BY <2>1
    <2>. QED  BY <2>2, <2>3, <2>4, <2>9, <2>10 DEF DigitsInv
  <1>2. CASE Digit
    <2>. DEFINE m == Magnitude(At(i), arg)
    <2>1. /\ pc = "digits" /\ UNCHANGED <<fmt, i, arg, exact>>
          /\ tmp' = Append(tmp, DigitChar(CMod(num, Base))) /\ num' = CDiv(num, Base)
          /\ pc' = IF num' # 0 /\ Len(tmp') < TmpSize THEN "digits" ELSE "emit"
      BY <1>2 DEF Digit
    <2>2. At(i)' = At(i)
      BY <2>1 DEF At
    <2>3. Base' = Base /\ TmpSize' = TmpSize
      BY <2>2 DEF Base, TmpSize
    <2>4. Magnitude(At(i), arg)' = m
      BY <2>1, <2>2 DEF Magnitude
    <2>5. /\ At(i) \in {"d", "u", "x", "p"} /\ (exact => m >= 0) /\ Len(tmp) < TmpSize
          /\ tmp \in Seq(Char)
      BY <2>1 DEF DigitsInv, PrintfTypeOK
    <2>6. /\ DigitChar(CMod(num, Base)) \in Char /\ TmpSize \in Nat
          /\ num' < 0 => At(i) = "u"
      BY <2>1, DigitType
    <2>7. Len(tmp') <= TmpSize
      BY <2>1, <2>5, <2>6
    <2>8. m >= 0 =>
           /\ num' >= 0
           /\ pc' = "digits" => Numeral(m, Base) = Numeral(num', Base) \o Reversed(tmp')
           /\ pc' = "emit" => Numeral(m, Base) = Reversed(tmp')
      BY <1>2, DigitTurn
    <2>9. Reversed(tmp)' = Reversed(tmp')
      BY DEF Reversed
    <2>. HIDE DEF m
    <2>10. pc' = "digits" => Len(tmp') < TmpSize
      BY <2>1
    <2>. QED  BY <2>1, <2>2, <2>3, <2>4, <2>5, <2>6, <2>7, <2>8, <2>9, <2>10 DEF DigitsInv
  <1>3. CASE UNCHANGED vars
    <2>1. UNCHANGED <<pc, fmt, i, arg, num, tmp, exact>>
      BY <1>3 DEF vars, numVars
    <2>2. /\ At(i)' = At(i) /\ Reversed(tmp)' = Reversed(tmp)
      BY <2>1 DEF At, Reversed
    <2>3. Base' = Base /\ TmpSize' = TmpSize /\ Magnitude(At(i), arg)' = Magnitude(At(i), arg)
      BY <2>1, <2>2 DEF Base, TmpSize, Magnitude
    <2>. QED  BY <2>1, <2>2, <2>3 DEF DigitsInv
  <1>4. CASE pc' \notin {"digits", "emit"}
    BY <1>4 DEF DigitsInv
  <1>5. ASSUME NEW s, \/ Literal \/ Percent \/ Width \/ ConvString(s) \/ ConvChar(s) \/ Emit
                      \/ ConvOther \/ Return \/ Ended
        PROVE  pc' \notin {"digits", "emit"}
    BY <1>5 DEF Literal, Percent, Width, ConvString, ConvChar, Emit, ConvOther, Return, Ended,
                More, vars
  <1>. QED  BY <1>1, <1>2, <1>3, <1>4, <1>5 DEF Next, Step

-----------------------------------------------------------------------------
(* What is written.                                                        *)

\* A padded string is a string.
LEMMA PaddedType ==
    ASSUME PrintfTypeOK, NEW s \in Seq(Char)
    PROVE  Padded(s) \in Seq(Char)
  <1>1. pad_width \in Nat /\ pad_char \in Char
    BY FormatFacts, PrintfAssumption DEF PrintfTypeOK
  <1>. QED  BY <1>1, PadToType DEF Padded

\* The sign goes into tmp[] last, and the digits read backwards are the numeral
\* that the reference asks for.
LEMMA EmitText ==
    ASSUME PrintfTypeOK, ScanInv, WidthInv, DigitsInv, pc = "emit"
    PROVE  LET digits == Reversed(Signed) IN
           /\ Signed \in Seq(Char) /\ Len(Signed) <= TmpSize /\ digits \in Seq(Char)
           /\ NumberText(At(i), arg) \in Seq(Char)
           /\ exact => NumberText(At(i), arg) =
                         IF At(i) = "p" THEN <<"0", "x">> \o digits ELSE Padded(digits)
  <1>. DEFINE m == Magnitude(At(i), arg)  digits == Reversed(Signed)
  <1>1. /\ tmp \in Seq(Char) /\ Len(tmp) <= TmpSize /\ At(i) \in {"d", "u", "x", "p"}
        /\ arg \in -INT_LIMIT .. INT_LIMIT - 1 /\ (exact => m >= 0)
        /\ m >= 0 => Numeral(m, Base) = Reversed(tmp)
    BY DEF PrintfTypeOK, DigitsInv
  <1>2. "-" \in Char /\ "0" \in Char /\ "x" \in Char /\ TmpSize \in Nat
    BY FormatFacts, PrintfAssumption DEF TmpSize
  <1>3. Signed \in Seq(Char) /\ Len(Signed) <= TmpSize
    BY <1>1, <1>2 DEF Signed
  <1>4. digits \in Seq(Char)
    BY <1>3, ReversedValue
  <1>5. \A s : Wanted(s) = Padded(s)
    BY WantedIsPadded
  <1>6. /\ m \in Int
        /\ At(i) = "d" => m = IF arg < 0 THEN -arg ELSE arg
        /\ At(i) = "u" => m = arg /\ (arg >= 0 => arg % WORD = arg)
        /\ At(i) \in {"x", "p"} => m = arg % WORD
        /\ m >= 0 /\ At(i) = "d" => Len(Numeral(m, Base)) < TmpSize
    BY <1>1, MagnitudeFacts
  <1>7. arg \in Int /\ WORD \in Nat /\ WORD > 0 /\ arg % WORD \in Nat
    <2>1. arg \in Int /\ WORD \in Nat /\ WORD > 0
      BY <1>1, PrintfAssumption DEF WORD
    <2>. QED  BY <2>1
  <1>8. \A k \in Nat : Numeral(k, 10) \in Seq(Char) /\ Numeral(k, 16) \in Seq(Char)
    BY NumeralType
  <1>9. <<"-">> \in Seq(Char) /\ <<"0", "x">> \in Seq(Char)
    BY <1>2
  <1>. HIDE DEF m, digits
  <1>10. CASE At(i) = "d"
    <2>. DEFINE d == IF arg < 0 THEN <<"-">> \o Numeral(-arg, 10) ELSE Numeral(arg, 10)
    <2>1. NumberText(At(i), arg) = Padded(d)
      BY <1>5, <1>10 DEF NumberText
    <2>2. d \in Seq(Char)
      <3>1. CASE arg < 0
        <4>1. -arg \in Nat
          BY <1>7, <3>1
        <4>2. Numeral(-arg, 10) \in Seq(Char)
          BY <1>8, <4>1
        <4>. QED  BY <1>9, <3>1, <4>2, ConcatProperties
      <3>2. CASE ~(arg < 0)
        <4>1. arg \in Nat
          BY <1>7, <3>2
        <4>. QED  BY <1>8, <3>2, <4>1
      <3>. QED  BY <3>1, <3>2
    <2>3. Base = 10 /\ TmpSize = TMP_SIZE
      BY <1>10 DEF Base, TmpSize
    <2>4. m >= 0 /\ m \in Nat
      BY <1>6, <1>7, <1>10
    <2>5. Numeral(m, 10) = Reversed(tmp) /\ Len(Reversed(tmp)) = Len(tmp)
      BY <1>1, <2>3, <2>4, ReversedValue DEF m
    <2>6. Len(tmp) < TmpSize
      BY <1>6, <1>10, <2>3, <2>4, <2>5
    <2>7. digits = d
      <3>1. CASE arg < 0
        <4>1. Signed = Append(tmp, "-")
          BY <1>10, <2>6, <3>1 DEF Signed
        <4>2. digits = <<"-">> \o Reversed(tmp)
          BY <1>1, <1>2, <4>1, ReversedAppend DEF digits
        <4>. QED  BY <1>6, <1>10, <2>5, <3>1, <4>2
      <3>2. CASE ~(arg < 0)
        <4>1. Signed = tmp
          BY <3>2 DEF Signed
        <4>. QED  BY <1>6, <1>10, <2>5, <3>2, <4>1 DEF digits
      <3>. QED  BY <3>1, <3>2
    <2>8. Padded(d) \in Seq(Char)
      BY <2>2, PaddedType
    <2>. HIDE DEF d
    <2>. QED  BY <1>3, <1>4, <1>10, <2>1, <2>7, <2>8 DEF digits
  <1>11. CASE At(i) # "d"
    <2>. DEFINE b == IF At(i) = "u" THEN 10 ELSE 16  d == Numeral(arg % WORD, b)
    <2>1. Base = b /\ Signed = tmp
      BY <1>1, <1>11 DEF Base, Signed
    <2>2. d \in Seq(Char)
      BY <1>7, <1>8
    <2>3. exact => digits = d
      <3>1. exact => m = arg % WORD /\ m >= 0
        BY <1>1, <1>6, <1>11
      <3>. QED  BY <1>1, <2>1, <3>1 DEF digits, m
    <2>4. NumberText(At(i), arg) = IF At(i) = "p" THEN <<"0", "x">> \o d ELSE Padded(d)
      BY <1>1, <1>5, <1>11 DEF NumberText
    <2>. HIDE DEF d
    <2>5. <<"0", "x">> \o d \in Seq(Char)
      BY <1>9, <2>2, ConcatProperties
    <2>6. Padded(d) \in Seq(Char)
      BY <2>2, PaddedType
    <2>. QED  BY <1>3, <1>4, <2>3, <2>4, <2>5, <2>6 DEF digits
  <1>. QED  BY <1>10, <1>11

\* Writing keeps the buffer and the text strings, and the buffer in its bounds.
LEMMA WriteType ==
    ASSUME PrintfTypeOK, NEW s \in Seq(Char), NEW r \in Seq(Char), Write(s, r)
    PROVE  /\ p' \in Seq(Char) /\ Len(p') < SIZE /\ text' \in Seq(Char) /\ i' \in Nat
           /\ text' = text \o r /\ p' = Put(s) /\ UNCHANGED <<fmt, pad_width, pad_char>>
  <1>1. p \in Seq(Char) /\ Len(p) < SIZE /\ text \in Seq(Char) /\ i \in Nat
    BY DEF PrintfTypeOK
  <1>2. /\ p' = Put(s) /\ text' = text \o r /\ i' = i + 1
        /\ UNCHANGED <<fmt, pad_width, pad_char>>
    BY DEF Write, specVars
  <1>3. text \o r \in Seq(Char)
    BY <1>1, ConcatProperties
  <1>4. Put(s) \in Seq(Char) /\ Len(Put(s)) < SIZE
    BY <1>1, PutType
  <1>. QED  BY <1>1, <1>2, <1>3, <1>4

\* Writing what the reference asks for keeps the buffer the cut of the text.
LEMMA WriteText ==
    ASSUME PrintfTypeOK, NEW s \in Seq(Char), NEW r \in Seq(Char), NEW q \in Seq(Char),
           Write(s, r), p = Cut(text \o q), r = q \o s
    PROVE  p' = Cut(text')
  <1>1. text \in Seq(Char) /\ text \o q \in Seq(Char)
    BY ConcatProperties DEF PrintfTypeOK
  <1>2. p' = Cut((text \o q) \o s)
    BY <1>1, PutCut DEF Write
  <1>3. (text \o q) \o s = text \o r
    BY <1>1, ConcatAssociative
  <1>. QED  BY <1>2, <1>3 DEF Write

\* The prefix of %p is written when there is room for all of it.
LEMMA PrefixType ==
    ASSUME PrintfTypeOK
    PROVE  /\ Prefix \in Seq(Char) /\ Len(Prefix) < SIZE
           /\ At(i) = "p" /\ ~(Room < 2) => Prefix = Put(<<"0", "x">>)
           /\ At(i) # "p" => Prefix = p
  <1>. DEFINE q == <<"0", "x">>
  <1>1. p \in Seq(Char) /\ Len(p) < SIZE /\ Len(p) \in Nat
    BY DEF PrintfTypeOK
  <1>2. q \in Seq(Char) /\ Len(q) = 2
    BY FormatFacts
  <1>3. Room \in Int
    BY <1>1, PrintfAssumption DEF Room
  <1>. HIDE DEF q
  <1>4. 2 <= Room => Put(q) = p \o q
    BY <1>1, <1>2, PutType
  <1>5. Put(q) \in Seq(Char) /\ Len(Put(q)) < SIZE
    BY <1>1, <1>2, PutType
  <1>6. Prefix = IF At(i) = "p" /\ Room > 1 THEN p \o q ELSE p
    BY DEF Prefix, q
  <1>7. Room > 1 <=> 2 <= Room
    BY <1>3
  <1>8. ~(Room < 2) <=> 2 <= Room
    BY <1>3
  <1>9. /\ Prefix \in Seq(Char) /\ Len(Prefix) < SIZE
        /\ At(i) = "p" /\ ~(Room < 2) => Prefix = Put(q)
        /\ At(i) # "p" => Prefix = p
    BY <1>1, <1>4, <1>5, <1>6, <1>7, <1>8
  <1>. QED  BY <1>9 DEF q

\* Every action keeps the variables in their domains and the buffers in their bounds.
LEMMA TypeStep ==
    ASSUME PrintfTypeOK, ScanInv, WidthInv, DigitsInv, [Next]_vars
    PROVE  PrintfTypeOK'
  <1>0. /\ Len(fmt) \in Nat /\ i \in Nat /\ i >= 1 /\ SIZE \in Nat \ {0}
        /\ At(i) \in Char /\ <<At(i)>> \in Seq(Char)
        /\ TmpSize \in Nat \ {0} /\ INT_LIMIT \in Nat \ {0}
    <2>1. Len(fmt) \in Nat /\ i \in Nat /\ i >= 1
      BY FormatFacts DEF PrintfTypeOK, ScanInv
    <2>2. At(i) \in Char
      BY <2>1, FormatFacts DEF At
    <2>. QED  BY <2>1, <2>2, PrintfAssumption DEF TmpSize
  <1>1. ASSUME NEW s \in Seq(Char), NEW r \in Seq(Char), Write(s, r),
               UNCHANGED <<numVars, exact>>, pc' \in {"loop", "overrun"}
        PROVE  PrintfTypeOK'
    <2>1. /\ p' \in Seq(Char) /\ Len(p') < SIZE /\ text' \in Seq(Char) /\ i' \in Nat
          /\ UNCHANGED <<fmt, pad_width, pad_char>>
      BY <1>1, WriteType
    <2>. QED  BY <1>1, <2>1 DEF PrintfTypeOK, numVars
  <1>2. CASE Literal \/ ConvOther
    <2>1. /\ Write(<<At(i)>>, <<At(i)>>) /\ UNCHANGED <<numVars, exact>>
          /\ pc' \in {"loop", "overrun"}
      BY <1>2 DEF Literal, ConvOther, More
    <2>. QED  BY <1>0, <1>1, <2>1
  <1>3. ASSUME NEW s \in Seq(Char), pc = "spec", Write(Padded(s), Wanted(s)), pc' = "loop",
               UNCHANGED <<numVars, exact>>
        PROVE  PrintfTypeOK'
    <2>1. Padded(s) \in Seq(Char) /\ Wanted(s) = Padded(s)
      BY <1>3, PaddedType, WantedIsPadded
    <2>. QED  BY <1>1, <1>3, <2>1
  <1>4. ASSUME NEW s \in Strings, ConvString(s)  PROVE PrintfTypeOK'
    <2>1. s \in Seq(Char)
      BY PrintfAssumption
    <2>. QED  BY <1>3, <1>4, <2>1 DEF ConvString
  <1>5. ASSUME NEW c \in Chars, ConvChar(c)  PROVE PrintfTypeOK'
    <2>1. <<c>> \in Seq(Char)
      BY PrintfAssumption
    <2>. QED  BY <1>3, <1>5, <2>1 DEF ConvChar
  <1>6. CASE Percent
    <2>1. i + 1 \in Nat /\ i + 2 \in Nat
      BY <1>0
    <2>2. /\ pc' = "spec" /\ pad_width' = 0 /\ pad_char' \in {"0", SPACE}
          /\ i' \in {i + 1, i + 2} /\ UNCHANGED <<fmt, p, arg, num, tmp, text, exact>>
      BY <1>6 DEF Percent, numVars
    <2>3. pad_width' \in 0 .. INT_LIMIT - 1
      BY <1>0, <2>2
    <2>. QED  BY <2>1, <2>2, <2>3 DEF PrintfTypeOK
  <1>7. CASE Width
    <2>1. DigitValue(At(i)) \in 0 .. 9
      BY <1>7, DigitFacts DEF Width
    <2>2. pad_width' \in Nat /\ i' \in Nat
      <3>1. pad_width \in Nat
        BY <1>0 DEF PrintfTypeOK
      <3>2. pad_width' = 10 * pad_width + DigitValue(At(i)) /\ i' = i + 1
        BY <1>7 DEF Width
      <3>. QED  BY <1>0, <2>1, <3>1, <3>2
    <2>3. pad_width' < INT_LIMIT
      <3>1. fmt' = fmt /\ fmt \in Formats /\ i' = i + 1 /\ pc' = "spec"
        BY <1>7 DEF Width, PrintfTypeOK
      <3>2. PICK j \in 2 .. i + 1 : WidthAt(j)'
        BY <3>1, WidthStep DEF WidthInv
      <3>3. i \in 1 .. Len(fmt) /\ j \in 2 .. Len(fmt) + 1
        <4>1. At(i) # NUL
          BY <1>7, DigitFacts DEF Width
        <4>2. i <= Len(fmt)
          BY <1>0, <4>1, FormatFacts
        <4>. QED  BY <1>0, <4>2
      <3>4. i' - 1 = i
        BY <1>0, <3>1
      <3>5. /\ fmt[j - 1] = "%" /\ \A l \in j .. i : IsDigit(fmt[l])
            /\ pad_width' = Decimal(fmt, j)[i]
        BY <3>1, <3>2, <3>4 DEF WidthAt
      <3>. QED  BY <3>1, <3>3, <3>5, WidthAssumption
    <2>4. pad_width' \in 0 .. INT_LIMIT - 1
      BY <1>0, <2>2, <2>3
    <2>. QED  BY <1>7, <2>2, <2>4 DEF Width, PrintfTypeOK, numVars
  <1>8. ASSUME NEW n \in Ints, ConvNumber(n)  PROVE PrintfTypeOK'
    <2>1. n \in -INT_LIMIT .. INT_LIMIT - 1
      BY PrintfAssumption
    <2>2. Magnitude(At(i), n) \in Int
      BY <1>8, <2>1, MagnitudeFacts DEF ConvNumber
    <2>3. Prefix \in Seq(Char) /\ Len(Prefix) < SIZE
      BY PrefixType
    <2>4. /\ arg' = n /\ num' = Magnitude(At(i), n) /\ tmp' = << >> /\ p' = Prefix
          /\ pc' = "digits" /\ UNCHANGED <<fmt, i, pad_width, pad_char, text>>
          /\ exact' = (exact /\ Exact(At(i), n))
      BY <1>8 DEF ConvNumber, specVars
    <2>5. exact' \in BOOLEAN
      BY <2>4, Zenon
    <2>6. tmp' \in Seq(Char) /\ Len(tmp') < TmpSize'
      <3>1. TmpSize' = TmpSize
        BY <2>4 DEF TmpSize, At
      <3>. QED  BY <1>0, <2>4, <3>1
    <2>. QED  BY <2>1, <2>2, <2>3, <2>4, <2>5, <2>6 DEF PrintfTypeOK
  <1>9. CASE Digit
    <2>1. /\ pc = "digits" /\ tmp' = Append(tmp, DigitChar(CMod(num, Base)))
          /\ num' = CDiv(num, Base) /\ pc' \in {"digits", "emit"}
          /\ UNCHANGED <<fmt, i, p, pad_width, pad_char, arg, text, exact>>
      BY <1>9 DEF Digit, specVars
    <2>2. DigitChar(CMod(num, Base)) \in Char /\ CDiv(num, Base) \in Int
      BY <2>1, DigitType
    <2>3. tmp \in Seq(Char) /\ Len(tmp) < TmpSize
      BY <2>1 DEF DigitsInv, PrintfTypeOK
    <2>4. tmp' \in Seq(Char)
      BY <2>1, <2>2, <2>3
    <2>5. pc' = "digits" => Len(tmp') < TmpSize'
      <3>1. TmpSize' = TmpSize
        BY <2>1 DEF TmpSize, At
      <3>. QED  BY <1>9, <3>1 DEF Digit
    <2>6. pc' = "emit" => Len(Signed') <= TmpSize'
      <3>1. TmpSize' = TmpSize /\ At(i)' = At(i)
        BY <2>1 DEF TmpSize, At
      <3>2. Len(tmp') <= TmpSize
        BY <1>0, <2>1, <2>2, <2>3
      <3>3. CASE Len(tmp') < TmpSize
        <4>1. Len(Append(tmp', "-")) = Len(tmp') + 1 /\ Len(tmp') \in Nat
          BY <2>4, FormatFacts, PrintfAssumption
        <4>2. Signed' \in {Append(tmp', "-"), tmp'}
          BY DEF Signed
        <4>. QED  BY <1>0, <3>1, <3>3, <4>1, <4>2
      <3>4. CASE ~(Len(tmp') < TmpSize)
        <4>1. Signed' = tmp'
          BY <3>1, <3>4 DEF Signed
        <4>. QED  BY <3>1, <3>2, <4>1
      <3>. QED  BY <3>3, <3>4
    <2>. QED  BY <2>1, <2>2, <2>4, <2>5, <2>6 DEF PrintfTypeOK
  <1>10. CASE Emit
    <2>. DEFINE digits == Reversed(Signed)
                s == IF At(i) = "p" THEN digits ELSE Padded(digits)
                r == NumberText(At(i), arg)
    <2>1. /\ pc = "emit" /\ Write(s, r) /\ tmp' = Signed /\ pc' = "loop"
          /\ UNCHANGED <<arg, num, exact>>
      BY <1>10 DEF Emit
    <2>2. /\ Signed \in Seq(Char) /\ Len(Signed) <= TmpSize /\ digits \in Seq(Char)
          /\ r \in Seq(Char)
      BY <2>1, EmitText
    <2>. HIDE DEF digits, r
    <2>3. s \in Seq(Char)
      BY <2>2, PaddedType
    <2>. HIDE DEF s
    <2>4. /\ p' \in Seq(Char) /\ Len(p') < SIZE /\ text' \in Seq(Char) /\ i' \in Nat
          /\ UNCHANGED <<fmt, pad_width, pad_char>>
      BY <2>1, <2>2, <2>3, WriteType
    <2>. QED  BY <2>1, <2>2, <2>4 DEF PrintfTypeOK
  <1>11. CASE Return
    BY <1>11 DEF Return, specVars, numVars, PrintfTypeOK
  <1>12. CASE UNCHANGED vars
    <2>1. TmpSize' = TmpSize /\ Signed' = Signed
      BY <1>12 DEF vars, numVars, TmpSize, Signed, At
    <2>. QED  BY <1>12, <2>1 DEF vars, specVars, numVars, PrintfTypeOK
  <1>. QED  BY <1>2, <1>4, <1>5, <1>6, <1>7, <1>8, <1>9, <1>10, <1>11, <1>12
            DEF Next, Step, Ended

\* Every action keeps the buffer the text called for, cut to its room.
LEMMA TextStep ==
    ASSUME PrintfInv, [Next]_vars
    PROVE  TextInv'
  <1>0. PrintfTypeOK /\ ScanInv /\ WidthInv /\ DigitsInv /\ TextInv
    BY DEF PrintfInv
  <1>1. /\ text \in Seq(Char) /\ p \in Seq(Char) /\ At(i) \in Char
        /\ <<"0", "x">> \in Seq(Char) /\ << >> \in Seq(Char) /\ <<At(i)>> \in Seq(Char)
    <2>1. i \in Nat /\ i >= 1 /\ text \in Seq(Char) /\ p \in Seq(Char)
      BY <1>0 DEF PrintfTypeOK, ScanInv
    <2>2. At(i) \in Char
      BY <1>0, <2>1, FormatFacts DEF At
    <2>. QED  BY <1>0, <2>1, <2>2, FormatFacts
  <1>2. \A s \in Seq(Char) : << >> \o s = s /\ s \o << >> = s
    BY ConcatEmptySeq
  <1>3. ASSUME exact, pc \in {"loop", "spec", "done"}  PROVE p = Cut(text) /\ p = Cut(text \o << >>)
    BY <1>0, <1>1, <1>2, <1>3 DEF TextInv, Sent
  <1>4. ASSUME p' = Cut(text'), text' \in Seq(Char), pc' \in {"loop", "spec", "done"}
        PROVE  TextInv'
    <2>1. Sent' = << >>
      BY <1>4 DEF Sent
    <2>2. text' \o << >> = text'
      BY <1>2, <1>4
    <2>. QED  BY <1>4, <2>1, <2>2 DEF TextInv, Cut
  <1>5. ASSUME NEW s \in Seq(Char), Write(s, s), pc \in {"loop", "spec"}, exact' = exact,
               pc' \in {"loop", "overrun"}
        PROVE  TextInv'
    <2>1. CASE exact /\ pc' = "loop"
      <3>1. p' = Cut(text')
        BY <1>0, <1>1, <1>2, <1>3, <1>5, <2>1, WriteText
      <3>2. text' \in Seq(Char)
        BY <1>0, <1>5, WriteType
      <3>. QED  BY <1>4, <2>1, <3>1, <3>2
    <2>2. CASE ~(exact /\ pc' = "loop")
      BY <1>5, <2>2 DEF TextInv
    <2>. QED  BY <2>1, <2>2
  <1>6. CASE Literal \/ ConvOther
    <2>1. /\ Write(<<At(i)>>, <<At(i)>>) /\ exact' = exact
          /\ pc' \in {"loop", "overrun"} /\ pc \in {"loop", "spec"}
      BY <1>6 DEF Literal, ConvOther, More
    <2>. QED  BY <1>1, <1>5, <2>1
  <1>7. ASSUME NEW s \in Seq(Char), pc = "spec", Write(Padded(s), Wanted(s)), pc' = "loop",
               exact' = exact
        PROVE  TextInv'
    <2>1. Padded(s) \in Seq(Char) /\ Wanted(s) = Padded(s)
      BY <1>0, <1>7, PaddedType, WantedIsPadded
    <2>. QED  BY <1>5, <1>7, <2>1
  <1>8. ASSUME NEW s \in Strings, ConvString(s)  PROVE TextInv'
    <2>1. s \in Seq(Char)
      BY PrintfAssumption
    <2>. QED  BY <1>7, <1>8, <2>1 DEF ConvString
  <1>9. ASSUME NEW c \in Chars, ConvChar(c)  PROVE TextInv'
    <2>1. <<c>> \in Seq(Char)
      BY PrintfAssumption
    <2>. QED  BY <1>7, <1>9, <2>1 DEF ConvChar
  <1>10. CASE Percent \/ Width \/ Return
    <2>1. /\ pc \in {"loop", "spec"} /\ pc' \in {"spec", "done"} /\ UNCHANGED <<p, text, exact>>
      BY <1>10 DEF Percent, Width, Return, More
    <2>2. CASE exact
      BY <1>1, <1>3, <1>4, <2>1, <2>2
    <2>3. CASE ~exact
      BY <2>1, <2>3 DEF TextInv
    <2>. QED  BY <2>2, <2>3
  <1>11. ASSUME NEW n \in Ints, ConvNumber(n)  PROVE TextInv'
    <2>1. /\ pc = "spec" /\ pc' = "digits" /\ p' = Prefix /\ UNCHANGED <<text, fmt, i>>
          /\ exact' = (exact /\ Exact(At(i), n))
      BY <1>11 DEF ConvNumber
    <2>2. At(i)' = At(i)
      BY <2>1 DEF At
    <2>3. CASE exact'
      <3>1. exact /\ Exact(At(i), n)
        BY <2>1, <2>3
      <3>2. p = Cut(text)
        BY <1>3, <2>1, <3>1
      <3>3. CASE At(i) = "p"
        <4>1. Prefix = Put(<<"0", "x">>)
          BY <1>0, <3>1, <3>3, PrefixType DEF Exact
        <4>2. Put(<<"0", "x">>) = Cut(text \o <<"0", "x">>)
          BY <1>1, <3>2, PutCut
        <4>3. Sent' = <<"0", "x">>
          BY <2>1, <2>2, <3>3 DEF Sent
        <4>. QED  BY <2>1, <4>1, <4>2, <4>3 DEF TextInv, Cut
      <3>4. CASE At(i) # "p"
        <4>1. Prefix = p
          BY <1>0, <3>4, PrefixType
        <4>2. Sent' = << >>
          BY <2>2, <3>4 DEF Sent
        <4>3. text \o << >> = text
          BY <1>1, <1>2
        <4>. QED  BY <2>1, <3>2, <4>1, <4>2, <4>3 DEF TextInv, Cut
      <3>. QED  BY <3>3, <3>4
    <2>. QED  BY <2>3 DEF TextInv
  <1>12. CASE Digit \/ Ended \/ UNCHANGED vars
    <2>1. UNCHANGED <<p, text, exact, fmt, i>>
      BY <1>12 DEF Digit, Ended, vars
    <2>2. /\ (pc' = "overrun" <=> pc = "overrun")
          /\ (pc' \in {"digits", "emit"} <=> pc \in {"digits", "emit"})
      BY <1>12 DEF Digit, Ended, vars
    <2>3. At(i)' = At(i)
      BY <2>1 DEF At
    <2>4. Sent' = Sent
      BY <2>2, <2>3 DEF Sent
    <2>. QED  BY <1>0, <2>1, <2>2, <2>4 DEF TextInv, Cut
  <1>13. CASE Emit
    <2>. DEFINE digits == Reversed(Signed)
                s == IF At(i) = "p" THEN digits ELSE Padded(digits)
                r == NumberText(At(i), arg)
                q == Sent
    <2>1. pc = "emit" /\ Write(s, r) /\ pc' = "loop" /\ exact' = exact
      BY <1>13 DEF Emit
    <2>2. digits \in Seq(Char) /\ r \in Seq(Char)
      BY <1>0, <2>1, EmitText
    <2>3. exact => r = IF At(i) = "p" THEN <<"0", "x">> \o digits ELSE Padded(digits)
      BY <1>0, <2>1, EmitText
    <2>. HIDE DEF digits, r
    <2>4. s \in Seq(Char)
      BY <1>0, <2>2, PaddedType
    <2>5. q = IF At(i) = "p" THEN <<"0", "x">> ELSE << >>
      BY <2>1 DEF Sent
    <2>. HIDE DEF q
    <2>6. q \in Seq(Char) /\ (exact => r = q \o s)
      BY <1>1, <1>2, <2>3, <2>4, <2>5
    <2>. HIDE DEF s
    <2>7. CASE exact
      <3>1. p = Cut(text \o q)
        BY <1>0, <2>1, <2>7 DEF TextInv, q
      <3>2. p' = Cut(text')
        BY <1>0, <2>1, <2>2, <2>4, <2>6, <2>7, <3>1, WriteText
      <3>3. text' \in Seq(Char)
        BY <1>0, <2>1, <2>2, <2>4, WriteType
      <3>. QED  BY <1>4, <2>1, <3>2, <3>3
    <2>8. CASE ~exact
      BY <2>1, <2>8 DEF TextInv
    <2>. QED  BY <2>7, <2>8
  <1>. QED  BY <1>6, <1>8, <1>9, <1>10, <1>11, <1>12, <1>13 DEF Next, Step

-----------------------------------------------------------------------------
(* The theorems.                                                           *)

\* The invariant holds when my_vsnprintf is called.
LEMMA InitPrintfInv == Init => PrintfInv
  <1>. SUFFICES ASSUME Init  PROVE PrintfInv
    OBVIOUS
  <1>1. fmt \in Seq(Char \ {NUL}) /\ Len(fmt) \in Nat
    BY PrintfAssumption DEF Init
  <1>2. PrintfTypeOK
    <2>1. /\ 0 \in -INT_LIMIT .. INT_LIMIT - 1 /\ 0 \in 0 .. INT_LIMIT - 1
          /\ Len(<< >>) < SIZE
      BY PrintfAssumption
    <2>. QED  BY <2>1 DEF Init, PrintfTypeOK
  <1>3. ScanInv /\ WidthInv /\ DigitsInv
    BY <1>1 DEF Init, ScanInv, WidthInv, DigitsInv
  <1>4. TextInv
    <2>1. Sent = << >> /\ text = << >> /\ p = << >>
      BY DEF Init, Sent
    <2>2. << >> \in Seq(Char) /\ Len(<< >>) = 0 /\ << >> \o << >> = << >>
      BY ConcatEmptySeq
    <2>3. Cut(<< >>) \in Seq(Char) /\ Len(Cut(<< >>)) = 0
      <3>1. 0 < SIZE
        BY PrintfAssumption
      <3>2. ASSUME NEW s \in Seq(Char), Len(s) = 0
            PROVE  Cut(s) \in Seq(Char) /\ Len(Cut(s)) = 0
        BY <3>1, <3>2, CutValue
      <3>. QED  BY <2>2, <3>2
    <2>4. Cut(<< >>) = << >>
      BY <2>3
    <2>. QED  BY <2>1, <2>2, <2>4 DEF TextInv
  <1>. QED  BY <1>2, <1>3, <1>4 DEF PrintfInv

\* The inductive invariant holds throughout.
THEOREM PrintfInvHolds == Spec => []PrintfInv
  <1>1. PrintfInv /\ [Next]_vars => PrintfInv'
    <2>. SUFFICES ASSUME PrintfInv, [Next]_vars  PROVE PrintfInv'
      OBVIOUS
    <2>1. PrintfTypeOK /\ ScanInv /\ WidthInv /\ DigitsInv
      BY DEF PrintfInv
    <2>2. PrintfTypeOK' /\ ScanInv' /\ WidthInv' /\ DigitsInv'
      BY <2>1, TypeStep, ScanStep, WidthStep, DigitsStep
    <2>3. TextInv'
      BY TextStep
    <2>. QED  BY <2>2, <2>3 DEF PrintfInv
  <1>. QED  BY <1>1, InitPrintfInv, PTL DEF Spec

\* my_vsnprintf never writes past the caller's buffer, its terminator included, nor
\* past the tmp[] of the conversion at hand, and its width never overflows an int, for
\* every argument, every size and every format whose widths are ints.
THEOREM PrintfTypeCorrect == Spec => []PrintfTypeOK
  <1>1. PrintfInv => PrintfTypeOK
    BY DEF PrintfInv
  <1>. QED  BY <1>1, PrintfInvHolds, PTL

\* my_vsnprintf prints what the reference asks for, cut to the buffer, for every
\* width of int whose numbers fit tmp[] and as long as no argument met one of the two
\* limits that Exact names.
THEOREM PrintsReference == Spec => []FormattedText
  <1>1. PrintfInv => FormattedText
    <2>. SUFFICES ASSUME PrintfInv, exact, pc \in {"loop", "done"}
                  PROVE  p = SubSeq(text, 1, IF Len(text) < SIZE THEN Len(text) ELSE SIZE - 1)
      BY DEF FormattedText
    <2>1. Sent = << >> /\ text \in Seq(Char)
      BY DEF Sent, PrintfInv, PrintfTypeOK
    <2>2. text \o << >> = text
      BY <2>1, ConcatEmptySeq
    <2>. QED  BY <2>1, <2>2 DEF PrintfInv, TextInv, Cut
  <1>. QED  BY <1>1, PrintfInvHolds, PTL

\* my_vsnprintf reads no character past the terminator of a format whose
\* conversions are closed.
THEOREM ScanInFormat == Spec => []ScanStaysInFormat
  <1>1. PrintfInv => ScanStaysInFormat
    BY DEF PrintfInv, ScanInv, ScanStaysInFormat
  <1>. QED  BY <1>1, PrintfInvHolds, PTL

=============================================================================
