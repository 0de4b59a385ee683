--------------------------- MODULE ConsoleProofs ---------------------------
(***************************************************************************)
(* Proofs about printk, vprintk and panik on top of the ring log and the   *)
(* VGA driver, for every size of the log, of the screen and of the         *)
(* buffers, and for every text.                                            *)
(*                                                                         *)
(* Every step is a step or a stutter of the ring and of the driver, so     *)
(* that their invariants hold here.  The rest of ConsoleInv follows a call *)
(* string by string: PrintkInv for printk, KindsInv, RecordInv and         *)
(* ScreenInv for a panik that halts.                                       *)
(***************************************************************************)
EXTENDS Console, RingLogProofs, VgaProofs, SequenceTheorems, WellFoundedInduction

\* What a call has still to write: a string, and where it goes.
Item == [to : {"log", "screen", "halt"}, text : Seq(Char), color : Color]

\* Strings fit their buffers, and no NUL is on its way to the screen.
TodoInv ==
    /\ todo \in Seq(Item)
    /\ \A k \in 1 .. Len(todo) :
         /\ Len(todo[k].text) < LOG_BUF_SIZE
         /\ todo[k].to = "screen" => todo[k].text \in Seq(Glyph \cup {NL})
         /\ todo[k].to = "halt" => todo[k].text = << >>

\* The other variables above the ring and the screen.
PanikTypeInv ==
    /\ panik_mode \in {"NORMAL", "TEST"} /\ panik_called \in BOOLEAN
    /\ last_panik_msg \in Seq(Char) /\ Len(last_panik_msg) < PANIK_MSG_SIZE
    /\ logged \in Seq(Char) /\ shown \in Seq(Char)

\* How many of the last bytes of L the log still holds.
Kept(L) == IF Len(L) < LOG_BUF_SIZE THEN Len(L) ELSE LOG_BUF_SIZE - 1

\* CallIsLogged, byte by byte: the log C ends with what it can hold of L.
EndsWith(C, L) ==
    /\ Kept(L) <= Len(C)
    /\ \A k \in 1 .. Kept(L) : C[Len(C) - Kept(L) + k] = L[Len(L) - Kept(L) + k]
LogInv == EndsWith(Contents, logged)

\* w is what is in s after the first b characters, followed by a.
Follows(s, b, a, w) ==
    /\ b <= Len(s) /\ Len(w) = Len(s) - b + Len(a)
    /\ \A k \in 1 .. Len(s) - b : w[k] = s[b + k]
    /\ \A k \in 1 .. Len(a) : w[Len(s) - b + k] = a[k]

NoNul(s) == \A k \in 1 .. Len(s) : s[k] # NUL

\* printk with a level first logs and shows the prefix; vprintk then logs and
\* shows the text.  The string that is shown is what was logged just before.
LogsPrefix ==
    /\ Len(todo) = 4
    /\ todo[1].to = "log" /\ todo[2].to = "screen"
    /\ todo[3].to = "log" /\ todo[4].to = "screen"
    /\ shown = << >>
    /\ \E w \in Seq(Char) :
         Follows(logged, 0, todo[1].text, w) /\ todo[2].text = CString(w)
    /\ todo[4].text = CString(todo[3].text)
ShowsPrefix ==
    /\ Len(todo) = 3
    /\ todo[1].to = "screen" /\ todo[2].to = "log" /\ todo[3].to = "screen"
    /\ NoNul(logged) => Follows(shown, 0, todo[1].text, logged)
    /\ todo[3].text = CString(todo[2].text)
LogsText ==
    /\ Len(todo) = 2
    /\ todo[1].to = "log" /\ todo[2].to = "screen"
    /\ NoNul(logged) =>
         /\ Len(shown) <= Len(logged)
         /\ \A k \in 1 .. Len(shown) : shown[k] = logged[k]
         /\ \E w \in Seq(Char) :
              Follows(logged, Len(shown), todo[1].text, w) /\ todo[2].text = CString(w)
ShowsText ==
    /\ Len(todo) = 1
    /\ todo[1].to = "screen"
    /\ NoNul(logged) => Follows(shown, 0, todo[1].text, logged)
PrintkInv ==
    calling = "printk" => LogsPrefix \/ ShowsPrefix \/ LogsText \/ ShowsText

\* A call that will halt is panik in normal mode, by the number of strings left.
Halting == \E k \in 1 .. Len(todo) : todo[k].to = "halt"
KindsInv ==
    Halting =>
      /\ Len(todo) \in 1 .. 8
      /\ \A k \in 1 .. Len(todo) :
           /\ k <= Len(todo) - 5 => todo[k].to = "log"
           /\ k \in Len(todo) - 4 .. Len(todo) - 1 => todo[k].to = "screen"
           /\ k = Len(todo) => todo[k].to = "halt"

\* The k-th byte of the record panik logs.
RecordLen == Len(PanikTag) + Len(last_panik_msg) + 1
RecordByte(k) ==
    IF k <= Len(PanikTag) THEN PanikTag[k]
    ELSE IF k < RecordLen THEN last_panik_msg[k - Len(PanikTag)] ELSE NL

\* The string being logged is the record's, up to its byte m.
LogsUpTo(m) ==
    /\ Len(logged) + Len(todo[1].text) = m
    /\ \A k \in 1 .. Len(todo[1].text) : todo[1].text[k] = RecordByte(Len(logged) + k)

\* What a halting call has logged is the record so far.
RecordInv ==
    Halting =>
      /\ Len(logged) <= RecordLen
      /\ \A k \in 1 .. Len(logged) : logged[k] = RecordByte(k)
      /\ Len(todo) = 8 => /\ LogsUpTo(Len(PanikTag))
                          /\ todo[2].text = last_panik_msg /\ todo[3].text = <<NL>>
      /\ Len(todo) = 7 => LogsUpTo(RecordLen - 1) /\ todo[2].text = <<NL>>
      /\ Len(todo) = 6 => LogsUpTo(RecordLen)
      /\ Len(todo) < 6 => Len(logged) = RecordLen

HaltCell(k) == [ch |-> HaltedText[k], color |-> HALT_COLOR]

\* The line above the cursor is the last message.
HaltShown ==
    /\ cursor_row >= 1
    /\ \A k \in 1 .. Len(HaltedText) - 1 :
         vga[Offset(cursor_row - 1, k - 1)] = HaltCell(k)

\* The last message is shown up to its character n, on a line of its own.
HaltShows(n) ==
    /\ n \in 0 .. Len(HaltedText)
    /\ \A k \in 1 .. Len(todo[1].text) : todo[1].text[k] = HaltedText[n + k]
    /\ n < Len(HaltedText) =>
         /\ cursor_col = n
         /\ \A k \in 1 .. n : vga[Offset(cursor_row, k - 1)] = HaltCell(k)
    /\ n = Len(HaltedText) => HaltShown

\* A halting call breaks the line before its last message.
ScreenInv ==
    Halting =>
      /\ Len(todo) >= 4 => todo[Len(todo) - 2].text = <<NL>>
      /\ Len(todo) >= 3 => todo[Len(todo) - 1].text = HaltedText
      /\ Len(todo) >= 2 => todo[Len(todo) - 1].color = HALT_COLOR
      /\ Len(todo) = 3 => todo[1].text = <<NL>> \/ (todo[1].text = << >> /\ cursor_col = 0)
      /\ Len(todo) = 2 => HaltShows(Len(HaltedText) - Len(todo[1].text))
      /\ Len(todo) = 1 => HaltShown

ConsoleInv ==
    /\ RingTypeOK /\ VgaInv /\ TodoInv /\ PanikTypeInv
    /\ LogInv /\ PrintkInv /\ KindsInv /\ RecordInv /\ ScreenInv

-----------------------------------------------------------------------------
(* Strings. *)

\* A set of natural numbers that is not empty has a least element.
LEMMA LeastElement ==
    ASSUME NEW T, T \subseteq Nat, T # {}
    PROVE  \E x \in T : \A y \in T : x <= y
  <1>. DEFINE R == OpToRel(<, Nat)
  <1>1. R = {ss \in Nat \X Nat : ss[1] < ss[2]}
    BY Zenon DEF OpToRel
  <1>2. IsWellFoundedOn(R, Nat)
    BY NatLessThanWellFounded, Zenon
  <1>. HIDE DEF R
  <1>3. PICK x \in T : \A y \in T : ~(<<y, x>> \in R)
    BY <1>2, WFMin
  <1>4. ASSUME NEW y \in T  PROVE x <= y
    <2>1. x \in Nat /\ y \in Nat
      OBVIOUS
    <2>2. CASE y < x
      <3>1. <<y, x>> \in Nat \X Nat /\ <<y, x>>[1] = y /\ <<y, x>>[2] = x
        BY <2>1
      <3>2. <<y, x>> \in R
        BY <1>1, <2>2, <3>1
      <3>. QED  BY <1>3, <3>2
    <2>. QED  BY <2>1, <2>2
  <1>. QED  BY <1>4

\* A piece of a string, character by character.
LEMMA SubSeqValue ==
    ASSUME NEW S, NEW s \in Seq(S), NEW m \in Int, NEW n \in Int,
           1 <= m, m <= n + 1, n <= Len(s)
    PROVE  /\ SubSeq(s, m, n) \in Seq(S)
           /\ Len(SubSeq(s, m, n)) = n - m + 1
           /\ \A i \in 1 .. n - m + 1 : SubSeq(s, m, n)[i] = s[m + i - 1]
  <1>1. \A i \in m .. n : s[i] \in S
    OBVIOUS
  <1>. QED  BY <1>1, SubSeqProperties

\* What vga_print_string prints of a text has no NUL, and is all of a text
\* that has none.
LEMMA CStringType ==
    ASSUME NEW text \in Seq(Char)
    PROVE  /\ CString(text) \in Seq(Char) /\ CString(text) \in Seq(Glyph \cup {NL})
           /\ Len(CString(text)) <= Len(text)
           /\ NoNul(text) => CString(text) = text
  <1>. DEFINE ends == {i \in 1 .. Len(text) : text[i] = NUL}
  <1>0. Len(text) \in Nat /\ \A i \in 1 .. Len(text) : text[i] \in Char
    OBVIOUS
  <1>1. \A c \in Char : c # NUL => c \in Glyph \cup {NL}
    BY ConsoleAssumption
  <1>2. CASE ends = {}
    <2>1. \A i \in 1 .. Len(text) : text[i] \in Glyph \cup {NL}
      BY <1>0, <1>1, <1>2
    <2>2. CString(text) = text
      BY <1>2 DEF CString
    <2>3. text \in Seq(Glyph \cup {NL})
      <3>. DEFINE S == Glyph \cup {NL}
      <3>1. \A i \in 1 .. Len(text) : text[i] \in S
        BY <2>1
      <3>. HIDE DEF S
      <3>2. text \in Seq(S)
        BY <3>1
      <3>. QED  BY <3>2 DEF S
    <2>. QED  BY <1>0, <2>2, <2>3
  <1>3. CASE ends # {}
    <2>. DEFINE m == CHOOSE i \in ends : \A j \in ends : i <= j
    <2>1. ends \subseteq Nat
      OBVIOUS
    <2>2. \E i \in ends : \A j \in ends : i <= j
      <3>. HIDE DEF ends
      <3>. QED  BY <1>3, <2>1, LeastElement
    <2>3. m \in ends /\ \A j \in ends : m <= j
      <3>. HIDE DEF ends
      <3>. QED  BY <2>2
    <2>4. CString(text) = SubSeq(text, 1, m - 1)
      BY <1>3 DEF CString
    <2>. HIDE DEF m
    <2>5. m \in Nat /\ m >= 1 /\ m <= Len(text)
      BY <1>0, <2>3
    <2>6. ASSUME NEW i \in 1 .. m - 1
          PROVE  text[i] \in Char /\ text[i] \in Glyph \cup {NL}
      <3>1. i \in 1 .. Len(text) /\ ~(m <= i)
        BY <1>0, <2>5
      <3>2. i \notin ends
        <4>. HIDE DEF ends
        <4>. QED  BY <2>3, <3>1
      <3>. QED  BY <1>0, <1>1, <3>1, <3>2
    <2>7. 1 \in Int /\ m - 1 \in Int
      BY <2>5
    <2>8. SubSeq(text, 1, m - 1) \in Seq(Glyph \cup {NL})
      BY <2>6, <2>7, SubSeqProperties, Zenon
    <2>9. /\ SubSeq(text, 1, m - 1) \in Seq(Char)
          /\ Len(SubSeq(text, 1, m - 1)) = (m - 1) - 1 + 1
      BY <1>0, <2>5, <2>7, SubSeqValue
    <2>10. ~NoNul(text)
      BY <1>3 DEF NoNul
    <2>. QED  BY <1>0, <2>4, <2>5, <2>8, <2>9, <2>10
  <1>. QED  BY <1>2, <1>3

\* my_vsnprintf leaves room for the terminator.
LEMMA FormattedType ==
    ASSUME NEW text \in Seq(Char), NEW size \in Nat \ {0}
    PROVE  Formatted(text, size) \in Seq(Char) /\ Len(Formatted(text, size)) < size
  <1>. DEFINE n == IF Len(text) < size THEN Len(text) ELSE size - 1
  <1>1. n \in Int /\ 1 \in Int /\ n >= 0 /\ n < size /\ n <= Len(text) /\ Len(text) \in Nat
    OBVIOUS
  <1>. HIDE DEF n
  <1>3. /\ SubSeq(text, 1, n) \in Seq(Char)
        /\ Len(SubSeq(text, 1, n)) = n - 1 + 1
    BY <1>1, SubSeqValue
  <1>4. Formatted(text, size) = SubSeq(text, 1, n)
    BY DEF Formatted, n
  <1>. QED  BY <1>1, <1>3, <1>4

\* The last bytes of a string, one by one.
LEMMA LastBytesValue ==
    ASSUME NEW S, NEW s \in Seq(S), NEW n \in Nat
    PROVE  LET r == LastBytes(s, n) IN
           /\ r \in Seq(S)
           /\ Len(r) = IF Len(s) <= n THEN Len(s) ELSE n
           /\ \A k \in 1 .. Len(r) : r[k] = s[Len(s) - Len(r) + k]
  <1>. DEFINE r == LastBytes(s, n)
  <1>0. Len(s) \in Nat /\ \A i \in 1 .. Len(s) : s[i] \in S
    OBVIOUS
  <1>1. CASE Len(s) <= n
    <2>1. r = s
      BY <1>1 DEF LastBytes
    <2>. HIDE DEF r
    <2>. QED  BY <1>0, <1>1, <2>1 DEF r
  <1>2. CASE ~(Len(s) <= n)
    <2>. DEFINE m == Len(s) - n + 1  e == Len(s)
    <2>1. r = SubSeq(s, m, e)
      BY <1>2 DEF LastBytes
    <2>2. m \in Int /\ e \in Int /\ m >= 1 /\ e - m + 1 = n /\ n < Len(s) /\ m = Len(s) - n + 1
      BY <1>0, <1>2
    <2>. HIDE DEF m, e, r
    <2>3. e = Len(s)
      BY DEF e
    <2>4. /\ SubSeq(s, m, e) \in Seq(S)
          /\ Len(SubSeq(s, m, e)) = e - m + 1
          /\ \A i \in 1 .. e - m + 1 : SubSeq(s, m, e)[i] = s[m + i - 1]
      BY <1>0, <2>2, <2>3, SubSeqValue
    <2>5. Len(r) = n
      BY <2>1, <2>2, <2>4
    <2>6. ASSUME NEW k \in 1 .. n  PROVE r[k] = s[Len(s) - n + k]
      <3>1. m + k - 1 = Len(s) - n + k
        BY <1>0, <2>2
      <3>. QED  BY <2>1, <2>2, <2>4, <3>1
    <2>. QED  BY <1>2, <2>1, <2>4, <2>5, <2>6 DEF r
  <1>. QED  BY <1>1, <1>2

\* Moving the first character of a to the end of s.
LEMMA FollowsStep ==
    ASSUME NEW s \in Seq(Char), NEW b \in Nat, NEW a \in Seq(Char), NEW w \in Seq(Char),
           a # << >>, Follows(s, b, a, w)
    PROVE  Follows(Append(s, Head(a)), b, Tail(a), w)
  <1>1. /\ Len(s) \in Nat /\ Len(a) \in Nat /\ Len(a) >= 1
        /\ Len(Append(s, Head(a))) = Len(s) + 1 /\ Len(Tail(a)) = Len(a) - 1
        /\ \A k \in 1 .. Len(s) : Append(s, Head(a))[k] = s[k]
        /\ Append(s, Head(a))[Len(s) + 1] = a[1]
        /\ \A k \in 1 .. Len(a) - 1 : Tail(a)[k] = a[k + 1]
    OBVIOUS
  <1>2. /\ b <= Len(s) /\ Len(w) = Len(s) - b + Len(a)
        /\ \A k \in 1 .. Len(s) - b : w[k] = s[b + k]
        /\ \A k \in 1 .. Len(a) : w[Len(s) - b + k] = a[k]
    BY DEF Follows
  <1>. DEFINE t == Append(s, Head(a))  c == Tail(a)
  <1>3. Len(t) = Len(s) + 1 /\ Len(c) = Len(a) - 1
    BY <1>1
  <1>4. \A k \in 1 .. Len(t) - b : w[k] = t[b + k]
    <2>. SUFFICES ASSUME NEW k \in 1 .. Len(t) - b  PROVE w[k] = t[b + k]
      OBVIOUS
    <2>1. CASE k \in 1 .. Len(s) - b
      <3>1. b + k \in 1 .. Len(s)
        BY <1>1, <2>1
      <3>. QED  BY <1>1, <1>2, <2>1, <3>1
    <2>2. CASE k = Len(s) + 1 - b
      <3>1. b + k = Len(s) + 1 /\ k = Len(s) - b + 1 /\ 1 \in 1 .. Len(a)
        BY <1>1, <2>2
      <3>2. w[Len(s) - b + 1] = a[1]
        BY <1>2, <3>1
      <3>3. t[b + k] = a[1]
        BY <1>1, <3>1
      <3>4. w[k] = a[1]
        BY <3>1, <3>2
      <3>. QED  BY <3>3, <3>4
    <2>3. k \in 1 .. Len(s) - b \/ k = Len(s) + 1 - b
      BY <1>1, <1>2, <1>3
    <2>. QED  BY <2>1, <2>2, <2>3
  <1>5. \A k \in 1 .. Len(c) : w[Len(t) - b + k] = c[k]
    <2>. SUFFICES ASSUME NEW k \in 1 .. Len(c)  PROVE w[Len(t) - b + k] = c[k]
      OBVIOUS
    <2>1. /\ k \in 1 .. Len(a) - 1 /\ k + 1 \in 1 .. Len(a)
          /\ Len(t) - b + k = Len(s) - b + (k + 1)
      BY <1>1, <1>3
    <2>2. c[k] = a[k + 1]
      BY <1>1, <2>1
    <2>3. w[Len(s) - b + (k + 1)] = a[k + 1]
      BY <1>2, <2>1
    <2>. HIDE DEF t, c
    <2>. QED  BY <2>1, <2>2, <2>3
  <1>6. b <= Len(t) /\ Len(w) = Len(t) - b + Len(c)
    BY <1>1, <1>2, <1>3
  <1>. HIDE DEF t, c
  <1>7. Follows(t, b, c, w)
    BY <1>4, <1>5, <1>6 DEF Follows
  <1>. QED  BY <1>7 DEF t, c

-----------------------------------------------------------------------------
(* The log. *)

\* A byte more, with room in the log.
LEMMA EndsWithRoom ==
    ASSUME NEW S, NEW C \in Seq(S), NEW L \in Seq(S), NEW ch \in S,
           Len(C) < LOG_BUF_SIZE - 1, EndsWith(C, L)
    PROVE  EndsWith(Append(C, ch), Append(L, ch))
  <1>. DEFINE D == Append(C, ch)  M == Append(L, ch)  N == LOG_BUF_SIZE
  <1>1. /\ N \in Nat /\ N >= 2 /\ Len(C) \in Nat /\ Len(L) \in Nat
        /\ Len(D) = Len(C) + 1 /\ D[Len(C) + 1] = ch
        /\ \A k \in 1 .. Len(C) : D[k] = C[k]
        /\ Len(M) = Len(L) + 1 /\ M[Len(L) + 1] = ch
        /\ \A k \in 1 .. Len(L) : M[k] = L[k]
    BY RingAssumption
  <1>2. Kept(L) = Len(L) /\ Len(L) <= Len(C) /\ Kept(M) = Len(L) + 1
    BY <1>1 DEF EndsWith, Kept
  <1>3. \A k \in 1 .. Len(L) : C[Len(C) - Len(L) + k] = L[k]
    <2>1. \A k \in 1 .. Len(L) : C[Len(C) - Len(L) + k] = L[Len(L) - Len(L) + k]
      BY <1>2 DEF EndsWith
    <2>2. \A k \in 1 .. Len(L) : Len(L) - Len(L) + k = k
      BY <1>1
    <2>. QED  BY <2>1, <2>2
  <1>. HIDE DEF D, M
  <1>4. ASSUME NEW k \in 1 .. Len(L) + 1
        PROVE  D[Len(D) - (Len(L) + 1) + k] = M[Len(M) - (Len(L) + 1) + k]
    <2>1. Len(M) - (Len(L) + 1) + k = k /\ Len(D) - (Len(L) + 1) + k = Len(C) - Len(L) + k
      BY <1>1
    <2>2. CASE k \in 1 .. Len(L)
      <3>1. Len(C) - Len(L) + k \in 1 .. Len(C)
        BY <1>1, <1>2, <2>2
      <3>. QED  BY <1>1, <1>3, <2>1, <2>2, <3>1
    <2>3. CASE k = Len(L) + 1
      <3>1. Len(C) - Len(L) + k = Len(C) + 1
        BY <1>1, <2>3
      <3>. QED  BY <1>1, <2>1, <2>3, <3>1
    <2>4. k \in 1 .. Len(L) \/ k = Len(L) + 1
      BY <1>1
    <2>. QED  BY <2>2, <2>3, <2>4
  <1>5. EndsWith(D, M)
    BY <1>1, <1>2, <1>4 DEF EndsWith
  <1>. QED  BY <1>5 DEF D, M

\* A byte more, in a full log.
LEMMA EndsWithFull ==
    ASSUME NEW S, NEW C \in Seq(S), NEW L \in Seq(S), NEW ch \in S,
           Len(C) = LOG_BUF_SIZE - 1, EndsWith(C, L)
    PROVE  EndsWith(Append(Tail(C), ch), Append(L, ch))
  <1>. DEFINE D == Append(Tail(C), ch)  M == Append(L, ch)  N == LOG_BUF_SIZE
              n == Kept(L)  m == Kept(M)
  <1>0. N \in Nat /\ N >= 2 /\ Len(C) = N - 1 /\ C # << >>
    BY RingAssumption
  <1>1. /\ Tail(C) \in Seq(S) /\ Len(Tail(C)) = N - 2
        /\ \A k \in 1 .. N - 2 : Tail(C)[k] = C[k + 1]
    BY <1>0
  <1>2. /\ Len(D) = N - 1 /\ D[N - 1] = ch
        /\ \A k \in 1 .. N - 2 : D[k] = C[k + 1]
    BY <1>0, <1>1
  <1>3. /\ Len(L) \in Nat /\ Len(M) = Len(L) + 1 /\ M[Len(L) + 1] = ch
        /\ \A k \in 1 .. Len(L) : M[k] = L[k]
    OBVIOUS
  <1>4. /\ n = IF Len(L) < N THEN Len(L) ELSE N - 1
        /\ m = IF Len(L) + 1 < N THEN Len(L) + 1 ELSE N - 1
    BY <1>3 DEF Kept
  <1>5. /\ n <= N - 1
        /\ \A k \in 1 .. n : C[(N - 1) - n + k] = L[Len(L) - n + k]
    BY <1>0 DEF EndsWith
  <1>. HIDE DEF D, M, N, n, m
  <1>6. n \in Nat /\ m \in Nat /\ m <= N - 1 /\ m <= n + 1 /\ n <= Len(L) /\ m >= 1
    BY <1>0, <1>3, <1>4
  <1>7. ASSUME NEW k \in 1 .. m
        PROVE  D[Len(D) - m + k] = M[Len(M) - m + k]
    <2>1. CASE k = m
      <3>1. Len(D) - m + k = N - 1 /\ Len(M) - m + k = Len(L) + 1
        BY <1>0, <1>2, <1>3, <1>6, <2>1
      <3>. QED  BY <1>2, <1>3, <3>1
    <2>2. CASE k < m
      <3>. DEFINE j == n - m + 1 + k
      <3>1. /\ j \in 1 .. n
            /\ Len(D) - m + k \in 1 .. N - 2
            /\ (Len(D) - m + k) + 1 = (N - 1) - n + j
            /\ Len(M) - m + k \in 1 .. Len(L)
            /\ Len(M) - m + k = Len(L) - n + j
        BY <1>0, <1>2, <1>3, <1>6, <2>2
      <3>. HIDE DEF j
      <3>2. D[Len(D) - m + k] = C[(N - 1) - n + j]
        BY <1>2, <3>1
      <3>3. M[Len(M) - m + k] = L[Len(L) - n + j]
        BY <1>3, <3>1
      <3>. QED  BY <1>5, <3>1, <3>2, <3>3
    <2>. QED  BY <1>6, <2>1, <2>2
  <1>8. m <= Len(D) /\ m = Kept(M)
    BY <1>2, <1>6 DEF m
  <1>9. EndsWith(D, M)
    BY <1>7, <1>8 DEF EndsWith
  <1>. QED  BY <1>9 DEF D, M

\* The log keeps ending with what the call has logged.
LEMMA LogInvStep ==
    ASSUME RingTypeOK, RingTypeOK', LogInv, logged \in Seq(Char),
           NEW ch \in Char, ringbuf_putc(ch), logged' = Append(logged, ch)
    PROVE  LogInv'
  <1>. DEFINE S == Char \cup {NUL}
  <1>1. Contents \in Seq(S) /\ logged \in Seq(S) /\ ch \in S
    <2>1. Contents \in Seq(S)
      BY ContentsType
    <2>2. \A k \in 1 .. Len(logged) : logged[k] \in S
      OBVIOUS
    <2>. HIDE DEF S
    <2>3. logged \in Seq(S)
      BY <2>2
    <2>. QED  BY <2>1, <2>3 DEF S
  <1>. HIDE DEF S
  <1>2. CASE rb_head' # rb_tail
    <2>1. Len(Contents) < LOG_BUF_SIZE - 1 /\ Contents' = Append(Contents, ch)
      BY <1>2, PutWithRoom
    <2>2. EndsWith(Append(Contents, ch), Append(logged, ch))
      BY <1>1, <2>1, EndsWithRoom DEF LogInv
    <2>. QED  BY <2>1, <2>2 DEF LogInv
  <1>3. CASE rb_head' = rb_tail
    <2>1. Len(Contents) = LOG_BUF_SIZE - 1 /\ Contents' = Append(Tail(Contents), ch)
      BY <1>3, PutWhenFull
    <2>2. EndsWith(Append(Tail(Contents), ch), Append(logged, ch))
      BY <1>1, <2>1, EndsWithFull DEF LogInv
    <2>. QED  BY <2>1, <2>2 DEF LogInv
  <1>. QED  BY <1>2, <1>3

\* At the start of a call nothing is owed to the log.
LEMMA LogInvEmpty ==
    ASSUME RingTypeOK, logged = << >>
    PROVE  LogInv
  BY ContentsType, RingAssumption DEF LogInv, EndsWith, Kept

\* The same, for the state after a step.
LEMMA LogInvEmptyNext ==
    ASSUME RingTypeOK', logged' = << >>
    PROVE  LogInv'
  BY ContentsTypeNext, RingAssumption DEF LogInv, EndsWith, Kept

-----------------------------------------------------------------------------
(* The strings a call writes. *)

\* A byte of the current string is taken.
LEMMA ByteTaken ==
    ASSUME TodoInv, ~Idle, Head(todo).text # << >>,
           todo' = [todo EXCEPT ![1].text = Tail(Head(todo).text)]
    PROVE  /\ TodoInv'
           /\ Head(todo) = todo[1] /\ todo[1] \in Item
           /\ todo[1].text \in Seq(Char) /\ todo[1].text # << >> /\ todo[1].to # "halt"
           /\ Len(todo') = Len(todo) /\ Len(todo) \in Nat /\ Len(todo) >= 1
           /\ todo'[1].to = todo[1].to /\ todo'[1].color = todo[1].color
           /\ todo'[1].text = Tail(todo[1].text)
           /\ \A k \in 2 .. Len(todo) : todo'[k] = todo[k]
           /\ \A k \in 1 .. Len(todo) : todo'[k].to = todo[k].to
  <1>. DEFINE t == todo[1].text
  <1>1. /\ todo \in Seq(Item) /\ Len(todo) \in Nat /\ Len(todo) >= 1
        /\ Head(todo) = todo[1] /\ todo[1] \in Item
        /\ \A k \in 1 .. Len(todo) : todo[k] \in Item
    <2>. HIDE DEF t
    <2>. QED  BY DEF TodoInv, Idle
  <1>2. /\ t \in Seq(Char) /\ t # << >> /\ Len(t) < LOG_BUF_SIZE
        /\ todo[1].to = "screen" => t \in Seq(Glyph \cup {NL})
        /\ todo[1].to # "halt"
    <2>1. 1 \in 1 .. Len(todo)
      BY <1>1
    <2>2. /\ Len(t) < LOG_BUF_SIZE
          /\ todo[1].to = "screen" => t \in Seq(Glyph \cup {NL})
          /\ todo[1].to = "halt" => t = << >>
      BY <2>1 DEF TodoInv
    <2>3. t \in Seq(Char)
      BY <1>1 DEF Item
    <2>4. t # << >>
      BY <1>1
    <2>. HIDE DEF t
    <2>. QED  BY <2>2, <2>3, <2>4
  <1>3. /\ Tail(t) \in Seq(Char) /\ Len(Tail(t)) < LOG_BUF_SIZE
        /\ todo[1].to = "screen" => Tail(t) \in Seq(Glyph \cup {NL})
    <2>. DEFINE S == Glyph \cup {NL}
    <2>1. todo[1].to = "screen" => t \in Seq(S)
      BY <1>2
    <2>. HIDE DEF t, S
    <2>2. t \in Seq(S) => Tail(t) \in Seq(S)
      BY <1>2
    <2>3. Tail(t) \in Seq(Char) /\ Len(Tail(t)) < LOG_BUF_SIZE
      BY <1>2, RingAssumption
    <2>. QED  BY <2>1, <2>2, <2>3 DEF S
  <1>4. todo' = [todo EXCEPT ![1] = [todo[1] EXCEPT !.text = Tail(t)]]
    BY <1>1
  <1>. DEFINE item == [todo[1] EXCEPT !.text = Tail(t)]
  <1>5. /\ item \in Item /\ item.to = todo[1].to /\ item.color = todo[1].color
        /\ item.text = Tail(t)
    BY <1>1, <1>3 DEF Item
  <1>. HIDE DEF item, t
  <1>6. /\ todo' \in Seq(Item) /\ Len(todo') = Len(todo)
        /\ todo'[1] = item /\ \A k \in 2 .. Len(todo) : todo'[k] = todo[k]
    <2>1. todo' = [todo EXCEPT ![1] = item]
      BY <1>4 DEF item
    <2>2. 1 \in 1 .. Len(todo)
      BY <1>1
    <2>3. /\ [todo EXCEPT ![1] = item] \in Seq(Item)
          /\ Len([todo EXCEPT ![1] = item]) = Len(todo)
          /\ \A k \in 1 .. Len(todo) :
               [todo EXCEPT ![1] = item][k] = IF k = 1 THEN item ELSE todo[k]
      <3>. HIDE DEF Item
      <3>. QED  BY <1>1, <1>5, <2>2, ExceptSeq
    <2>4. \A k \in 2 .. Len(todo) : k \in 1 .. Len(todo) /\ k # 1
      BY <1>1
    <2>. HIDE DEF Item
    <2>. QED  BY <2>1, <2>2, <2>3, <2>4
  <1>7. \A k \in 1 .. Len(todo) : k = 1 \/ k \in 2 .. Len(todo)
    BY <1>1
  <1>8. \A k \in 1 .. Len(todo) : todo'[k].to = todo[k].to
    BY <1>5, <1>6, <1>7
  <1>9. TodoInv'
    <2>1. ASSUME NEW k \in 1 .. Len(todo)
          PROVE  /\ Len(todo'[k].text) < LOG_BUF_SIZE
                 /\ todo'[k].to = "screen" => todo'[k].text \in Seq(Glyph \cup {NL})
                 /\ todo'[k].to = "halt" => todo'[k].text = << >>
      <3>1. CASE k = 1
        BY <1>2, <1>3, <1>5, <1>6, <3>1
      <3>2. CASE k \in 2 .. Len(todo)
        BY <1>6, <3>2 DEF TodoInv
      <3>. QED  BY <1>7, <3>1, <3>2
    <2>. QED  BY <1>6, <2>1 DEF TodoInv
  <1>. QED  BY <1>1, <1>2, <1>5, <1>6, <1>8, <1>9 DEF t

\* The current string is done.
LEMMA StringTaken ==
    ASSUME TodoInv, ~Idle, todo' = Tail(todo)
    PROVE  /\ TodoInv'
           /\ Head(todo) = todo[1] /\ todo[1] \in Item
           /\ Len(todo) \in Nat /\ Len(todo) >= 1 /\ Len(todo') = Len(todo) - 1
           /\ \A k \in 1 .. Len(todo) - 1 : todo'[k] = todo[k + 1] /\ todo'[k] \in Item
  <1>1. /\ todo \in Seq(Item) /\ Len(todo) \in Nat /\ Len(todo) >= 1 /\ todo # << >>
    BY DEF TodoInv, Idle
  <1>2. /\ Head(todo) = todo[1] /\ todo[1] \in Item
        /\ todo' \in Seq(Item) /\ Len(todo') = Len(todo) - 1
        /\ \A k \in 1 .. Len(todo) - 1 : todo'[k] = todo[k + 1]
    <2>. HIDE DEF Item
    <2>. QED  BY <1>1
  <1>3. \A k \in 1 .. Len(todo) - 1 : k + 1 \in 1 .. Len(todo)
    BY <1>1
  <1>4. \A k \in 1 .. Len(todo) - 1 : todo'[k] \in Item
    BY <1>2
  <1>5. TodoInv'
    BY <1>2, <1>3 DEF TodoInv
  <1>. QED  BY <1>1, <1>2, <1>4, <1>5

-----------------------------------------------------------------------------
(* The steps of a call. *)

\* A string, then the empty one.
LEMMA FollowsDone ==
    ASSUME NEW s \in Seq(Char), NEW w \in Seq(Char), Follows(s, 0, << >>, w)
    PROVE  s = w
  <1>1. Len(s) \in Nat /\ Len(w) = Len(s) /\ \A k \in 1 .. Len(s) : w[k] = s[k]
    BY DEF Follows
  <1>. QED  BY <1>1

\* The empty string, then a string.
LEMMA FollowsNothing ==
    ASSUME NEW s \in Seq(Char), NEW a \in Seq(Char)
    PROVE  Follows(s, Len(s), a, a)
  <1>1. Len(s) \in Nat /\ Len(a) \in Nat
    OBVIOUS
  <1>2. Len(s) - Len(s) = 0
    BY <1>1
  <1>3. \A k \in 1 .. Len(a) : 0 + k = k
    BY <1>1
  <1>. QED  BY <1>1, <1>2, <1>3 DEF Follows

\* A log byte keeps what printk's strings say.
LEMMA LogBytePrintk ==
    ASSUME TodoInv, PanikTypeInv, PrintkInv, LogByte
    PROVE  PrintkInv'
  <1>0. /\ Head(todo) = todo[1] /\ todo[1].to = "log"
        /\ todo[1].text \in Seq(Char) /\ todo[1].text # << >>
        /\ Len(todo') = Len(todo) /\ Len(todo) \in Nat
        /\ todo'[1].to = todo[1].to /\ todo'[1].text = Tail(todo[1].text)
        /\ \A k \in 2 .. Len(todo) : todo'[k] = todo[k]
    BY ByteTaken DEF LogByte
  <1>1. /\ logged' = Append(logged, Head(todo[1].text)) /\ shown' = shown
        /\ calling' = calling
    BY <1>0 DEF LogByte
  <1>2. logged \in Seq(Char) /\ shown \in Seq(Char) /\ Len(shown) \in Nat /\ Len(logged) \in Nat
    BY DEF PanikTypeInv
  <1>3. NoNul(logged') => NoNul(logged)
    BY <1>0, <1>1, <1>2 DEF NoNul
  <1>. DEFINE a == todo[1].text
  <1>. SUFFICES ASSUME calling = "printk"
                PROVE  (LogsPrefix \/ ShowsPrefix \/ LogsText \/ ShowsText)'
    BY <1>1 DEF PrintkInv
  <1>4. CASE LogsPrefix
    <2>1. PICK w \in Seq(Char) : Follows(logged, 0, a, w) /\ todo[2].text = CString(w)
      BY <1>4 DEF LogsPrefix
    <2>2. Follows(logged', 0, todo'[1].text, w)
      BY <1>0, <1>1, <1>2, <2>1, FollowsStep
    <2>3. todo'[2] = todo[2] /\ todo'[3] = todo[3] /\ todo'[4] = todo[4]
      BY <1>0, <1>4 DEF LogsPrefix
    <2>4. LogsPrefix'
      BY <1>0, <1>1, <1>4, <2>1, <2>2, <2>3 DEF LogsPrefix
    <2>. QED  BY <2>4
  <1>5. CASE LogsText
    <2>1. todo'[2] = todo[2]
      BY <1>0, <1>5 DEF LogsText
    <2>2. ASSUME NoNul(logged')
          PROVE  /\ Len(shown') <= Len(logged')
                 /\ \A k \in 1 .. Len(shown') : shown'[k] = logged'[k]
                 /\ \E w \in Seq(Char) :
                      /\ Follows(logged', Len(shown'), todo'[1].text, w)
                      /\ todo'[2].text = CString(w)
      <3>1. PICK w \in Seq(Char) :
              Follows(logged, Len(shown), a, w) /\ todo[2].text = CString(w)
        BY <1>3, <1>5, <2>2 DEF LogsText
      <3>2. Follows(logged', Len(shown), todo'[1].text, w)
        BY <1>0, <1>1, <1>2, <3>1, FollowsStep
      <3>3. /\ Len(shown) <= Len(logged)
            /\ \A k \in 1 .. Len(shown) : shown[k] = logged[k]
        BY <1>3, <1>5, <2>2 DEF LogsText
      <3>4. Len(logged') = Len(logged) + 1 /\ \A k \in 1 .. Len(logged) : logged'[k] = logged[k]
        BY <1>0, <1>1, <1>2
      <3>5. \A k \in 1 .. Len(shown) : k \in 1 .. Len(logged)
        BY <1>2, <3>3
      <3>. QED  BY <1>1, <1>2, <2>1, <3>1, <3>2, <3>3, <3>4, <3>5
    <2>3. LogsText'
      BY <1>0, <1>5, <2>1, <2>2 DEF LogsText
    <2>. QED  BY <2>3
  <1>. QED  BY <1>0, <1>4, <1>5 DEF PrintkInv, ShowsPrefix, ShowsText

\* A screen byte keeps what printk's strings say.
LEMMA ShowBytePrintk ==
    ASSUME TodoInv, PanikTypeInv, PrintkInv, ShowByte
    PROVE  PrintkInv'
  <1>0. /\ Head(todo) = todo[1] /\ todo[1].to = "screen"
        /\ todo[1].text \in Seq(Char) /\ todo[1].text # << >>
        /\ Len(todo') = Len(todo) /\ Len(todo) \in Nat
        /\ todo'[1].to = todo[1].to /\ todo'[1].text = Tail(todo[1].text)
        /\ \A k \in 2 .. Len(todo) : todo'[k] = todo[k]
    BY ByteTaken DEF ShowByte
  <1>1. /\ shown' = Append(shown, Head(todo[1].text)) /\ logged' = logged
        /\ calling' = calling
    BY <1>0 DEF ShowByte
  <1>2. logged \in Seq(Char) /\ shown \in Seq(Char)
    BY DEF PanikTypeInv
  <1>. SUFFICES ASSUME calling = "printk"
                PROVE  (LogsPrefix \/ ShowsPrefix \/ LogsText \/ ShowsText)'
    BY <1>1 DEF PrintkInv
  <1>3. Follows(shown, 0, todo[1].text, logged) => Follows(shown', 0, todo'[1].text, logged')
    BY <1>0, <1>1, <1>2, FollowsStep
  <1>4. CASE ShowsPrefix
    <2>1. todo'[2] = todo[2] /\ todo'[3] = todo[3]
      BY <1>0, <1>4 DEF ShowsPrefix
    <2>2. ShowsPrefix'
      BY <1>0, <1>1, <1>3, <1>4, <2>1 DEF ShowsPrefix
    <2>. QED  BY <2>2
  <1>5. CASE ShowsText
    <2>1. ShowsText'
      BY <1>0, <1>1, <1>3, <1>5 DEF ShowsText
    <2>. QED  BY <2>1
  <1>. QED  BY <1>0, <1>4, <1>5 DEF PrintkInv, LogsPrefix, LogsText

\* A printk that goes on to its next string shows what it has just logged.
LEMMA StringDonePrintk ==
    ASSUME TodoInv, PanikTypeInv, PrintkInv, StringDone
    PROVE  PrintkInv'
  <1>0. /\ Head(todo) = todo[1] /\ todo[1].text = << >>
        /\ Len(todo) \in Nat /\ Len(todo) >= 1 /\ Len(todo') = Len(todo) - 1
        /\ \A k \in 1 .. Len(todo) - 1 : todo'[k] = todo[k + 1] /\ todo'[k] \in Item
    BY StringTaken DEF StringDone
  <1>1. /\ shown' = shown /\ logged' = logged /\ todo' = Tail(todo)
        /\ calling' = IF todo' = << >> THEN "none" ELSE calling
    BY DEF StringDone
  <1>2. logged \in Seq(Char) /\ shown \in Seq(Char) /\ Len(shown) \in Nat /\ Len(logged) \in Nat
    BY DEF PanikTypeInv
  <1>. SUFFICES ASSUME calling = "printk", calling' = "printk"
                PROVE  (LogsPrefix \/ ShowsPrefix \/ LogsText \/ ShowsText)'
    BY <1>1 DEF PrintkInv
  <1>3. CASE LogsPrefix
    <2>1. PICK w \in Seq(Char) : Follows(logged, 0, << >>, w) /\ todo[2].text = CString(w)
      BY <1>0, <1>3 DEF LogsPrefix
    <2>2. w = logged
      BY <1>2, <2>1, FollowsDone
    <2>3. todo'[1] = todo[1 + 1] /\ todo'[2] = todo[2 + 1] /\ todo'[3] = todo[3 + 1]
      BY <1>0, <1>3 DEF LogsPrefix
    <2>4. NoNul(logged) => todo'[1].text = logged
      BY <1>2, <2>1, <2>2, <2>3, CStringType
    <2>5. shown = << >> /\ Follows(shown, 0, logged, logged)
      <3>1. shown = << >> /\ Len(shown) = 0
        BY <1>3 DEF LogsPrefix
      <3>. QED  BY <1>2, <3>1, FollowsNothing
    <2>6. NoNul(logged') => Follows(shown', 0, todo'[1].text, logged')
      BY <1>1, <2>4, <2>5
    <2>7. /\ Len(todo') = 3 /\ todo'[3].text = CString(todo'[2].text)
          /\ todo'[1].to = "screen" /\ todo'[2].to = "log" /\ todo'[3].to = "screen"
      BY <1>0, <1>3, <2>3 DEF LogsPrefix
    <2>8. ShowsPrefix'
      BY <2>6, <2>7 DEF ShowsPrefix
    <2>. QED  BY <2>8
  <1>4. CASE ShowsPrefix
    <2>1. todo'[1] = todo[1 + 1] /\ todo'[2] = todo[2 + 1] /\ todo'[1] \in Item
      BY <1>0, <1>4 DEF ShowsPrefix
    <2>2. todo'[1].text \in Seq(Char)
      BY <2>1 DEF Item
    <2>3. ASSUME NoNul(logged')
          PROVE  /\ Len(shown') <= Len(logged')
                 /\ \A k \in 1 .. Len(shown') : shown'[k] = logged'[k]
                 /\ \E w \in Seq(Char) :
                      /\ Follows(logged', Len(shown'), todo'[1].text, w)
                      /\ todo'[2].text = CString(w)
      <3>1. Follows(shown, 0, << >>, logged)
        BY <1>0, <1>1, <1>4, <2>3 DEF ShowsPrefix
      <3>2. shown = logged
        BY <1>2, <3>1, FollowsDone
      <3>3. Follows(logged, Len(logged), todo'[1].text, todo'[1].text)
        BY <1>2, <2>2, FollowsNothing
      <3>4. todo'[2].text = CString(todo'[1].text)
        BY <1>4, <2>1 DEF ShowsPrefix
      <3>5. Len(shown') <= Len(logged') /\ \A k \in 1 .. Len(shown') : shown'[k] = logged'[k]
        BY <1>1, <1>2, <3>2
      <3>6. Follows(logged', Len(shown'), todo'[1].text, todo'[1].text)
        BY <1>1, <3>2, <3>3
      <3>. QED  BY <2>2, <3>4, <3>5, <3>6
    <2>4. LogsText'
      BY <1>0, <1>4, <2>1, <2>3 DEF LogsText, ShowsPrefix
    <2>. QED  BY <2>4
  <1>5. CASE LogsText
    <2>1. todo'[1] = todo[1 + 1]
      BY <1>0, <1>5 DEF LogsText
    <2>2. ASSUME NoNul(logged')
          PROVE  Follows(shown', 0, todo'[1].text, logged')
      <3>1. PICK w \in Seq(Char) :
              Follows(logged, Len(shown), << >>, w) /\ todo[2].text = CString(w)
        BY <1>0, <1>1, <1>5, <2>2 DEF LogsText
      <3>2. /\ Len(w) = Len(logged) - Len(shown) /\ Len(w) \in Nat
            /\ \A k \in 1 .. Len(logged) - Len(shown) : w[k] = logged[Len(shown) + k]
        <4>1. /\ Len(w) = Len(logged) - Len(shown) + Len(<< >>) /\ Len(shown) <= Len(logged)
              /\ \A k \in 1 .. Len(logged) - Len(shown) : w[k] = logged[Len(shown) + k]
          BY <3>1 DEF Follows
        <4>2. Len(w) = Len(logged) - Len(shown) /\ Len(w) \in Nat
          BY <1>2, <4>1
        <4>. QED  BY <4>1, <4>2
      <3>3. \A k \in 1 .. Len(w) : Len(shown) + k \in 1 .. Len(logged)
        BY <1>2, <3>2
      <3>4. NoNul(w)
        BY <1>1, <2>2, <3>2, <3>3 DEF NoNul
      <3>5. todo'[1].text = w
        BY <2>1, <3>1, <3>4, CStringType
      <3>6. /\ Len(shown) <= Len(logged)
            /\ \A k \in 1 .. Len(shown) : shown[k] = logged[k]
        BY <1>1, <1>5, <2>2 DEF LogsText
      <3>7. Follows(shown, 0, w, logged)
        <4>1. 0 <= Len(shown) /\ Len(logged) = Len(shown) - 0 + Len(w) /\ Len(shown) - 0 = Len(shown)
          BY <1>2, <3>2
        <4>2. \A k \in 1 .. Len(shown) - 0 : logged[k] = shown[0 + k]
          BY <1>2, <3>6
        <4>3. \A k \in 1 .. Len(w) : logged[Len(shown) - 0 + k] = w[k]
          BY <3>2, <4>1
        <4>. QED  BY <4>1, <4>2, <4>3 DEF Follows
      <3>. QED  BY <1>1, <3>5, <3>7
    <2>3. ShowsText'
      BY <1>0, <1>5, <2>1, <2>2 DEF ShowsText, LogsText
    <2>. QED  BY <2>3
  <1>6. CASE ShowsText
    <2>1. todo' = << >>
      BY <1>0, <1>1, <1>6, StringTaken DEF ShowsText, TodoInv, StringDone
    <2>. QED  BY <1>1, <2>1
  <1>. QED  BY <1>3, <1>4, <1>5, <1>6 DEF PrintkInv

\* Taking a byte leaves the kinds of the strings alone.
LEMMA ByteKinds ==
    ASSUME TodoInv, ~Idle, Head(todo).text # << >>,
           todo' = [todo EXCEPT ![1].text = Tail(Head(todo).text)], KindsInv
    PROVE  KindsInv' /\ (Halting' => Halting)
  <1>1. /\ Len(todo') = Len(todo)
        /\ \A k \in 1 .. Len(todo) : todo'[k].to = todo[k].to
    BY ByteTaken
  <1>2. Halting' => Halting
    BY <1>1 DEF Halting
  <1>. QED  BY <1>1, <1>2 DEF KindsInv

\* A log byte of a halting call is the next byte of the record.
LEMMA LogByteHalting ==
    ASSUME TodoInv, PanikTypeInv, KindsInv, RecordInv, ScreenInv, LogByte
    PROVE  KindsInv' /\ RecordInv' /\ ScreenInv'
  <1>0. /\ Head(todo) = todo[1] /\ todo[1].to = "log"
        /\ todo[1].text \in Seq(Char) /\ todo[1].text # << >>
        /\ Len(todo') = Len(todo) /\ Len(todo) \in Nat /\ Len(todo) >= 1
        /\ todo'[1].text = Tail(todo[1].text)
        /\ \A k \in 2 .. Len(todo) : todo'[k] = todo[k]
    BY ByteTaken DEF LogByte
  <1>1. KindsInv' /\ (Halting' => Halting)
    BY ByteKinds DEF LogByte
  <1>. SUFFICES ASSUME Halting  PROVE RecordInv' /\ ScreenInv'
    BY <1>1 DEF RecordInv, ScreenInv
  <1>2. Len(todo) \in 6 .. 8
    <2>. DEFINE n == Len(todo)
    <2>1. n \in 1 .. 8 /\ 1 \in 1 .. n
      <3>1. n \in 1 .. 8
        BY DEF KindsInv
      <3>2. 1 \in 1 .. n
        BY <1>0
      <3>. QED  BY <3>1, <3>2
    <2>2. /\ 1 \in n - 4 .. n - 1 => todo[1].to = "screen"
          /\ 1 = n => todo[1].to = "halt"
      BY <2>1 DEF KindsInv
    <2>3. ~(1 \in n - 4 .. n - 1) /\ 1 # n
      BY <1>0, <2>2
    <2>. HIDE DEF n
    <2>4. n \in 6 .. 8
      BY <2>1, <2>3
    <2>. QED  BY <2>4 DEF n
  <1>3. /\ logged' = Append(logged, Head(todo[1].text)) /\ last_panik_msg' = last_panik_msg
        /\ vga' = vga /\ cursor_row' = cursor_row /\ cursor_col' = cursor_col
    BY <1>0 DEF LogByte, panikVars, vgaVars
  <1>. DEFINE a == todo[1].text
  <1>4. /\ a \in Seq(Char) /\ Len(a) \in Nat /\ Len(a) >= 1 /\ Head(a) = a[1]
        /\ Len(todo'[1].text) = Len(a) - 1
        /\ \A k \in 1 .. Len(a) - 1 : todo'[1].text[k] = a[k + 1]
    BY <1>0
  <1>5. /\ logged \in Seq(Char) /\ Len(logged) \in Nat /\ Len(logged') = Len(logged) + 1
        /\ logged'[Len(logged) + 1] = a[1]
        /\ \A k \in 1 .. Len(logged) : logged'[k] = logged[k]
    <2>1. logged \in Seq(Char)
      BY DEF PanikTypeInv
    <2>2. Head(a) \in Char /\ logged' = Append(logged, Head(a))
      BY <1>3, <1>4
    <2>. HIDE DEF a
    <2>. QED  BY <1>4, <2>1, <2>2
  <1>6. RecordLen' = RecordLen /\ \A k : RecordByte(k)' = RecordByte(k)
    BY <1>3 DEF RecordLen, RecordByte
  <1>7. RecordLen \in Nat /\ Len(PanikTag) \in Nat /\ RecordLen >= 1 + Len(PanikTag)
    BY ConsoleAssumption DEF RecordLen, PanikTypeInv
  <1>. HIDE DEF a
  \* the string being logged, whatever its end m in the record
  <1>8. ASSUME NEW m \in Nat, LogsUpTo(m), m <= RecordLen
        PROVE  /\ Len(logged') + Len(todo'[1].text) = m
               /\ \A k \in 1 .. Len(todo'[1].text) :
                    todo'[1].text[k] = RecordByte(Len(logged') + k)
               /\ Len(logged') <= RecordLen
               /\ \A k \in 1 .. Len(logged') : logged'[k] = RecordByte(k)
    <2>1. /\ Len(logged) + Len(a) = m
          /\ \A k \in 1 .. Len(a) : a[k] = RecordByte(Len(logged) + k)
      BY <1>8 DEF LogsUpTo, a
    <2>2. ASSUME NEW k \in 1 .. Len(todo'[1].text)
          PROVE  todo'[1].text[k] = RecordByte(Len(logged') + k)
      <3>1. k \in 1 .. Len(a) - 1 /\ k + 1 \in 1 .. Len(a)
        BY <1>4
      <3>2. Len(logged') + k = Len(logged) + (k + 1)
        BY <1>5
      <3>. QED  BY <1>4, <2>1, <3>1, <3>2
    <2>3. ASSUME NEW k \in 1 .. Len(logged')  PROVE logged'[k] = RecordByte(k)
      <3>1. CASE k \in 1 .. Len(logged)
        BY <1>5, <3>1 DEF RecordInv
      <3>2. CASE k = Len(logged) + 1
        <4>1. a[1] = RecordByte(Len(logged) + 1)
          BY <1>4, <2>1
        <4>. QED  BY <1>5, <3>2, <4>1
      <3>. QED  BY <1>5, <3>1, <3>2
    <2>4. Len(logged') + Len(todo'[1].text) = m /\ Len(logged') <= RecordLen
      <3>. DEFINE x == Len(logged)  y == Len(a)  u == Len(logged')  v == Len(todo'[1].text)
      <3>1. /\ x \in Nat /\ y \in Nat /\ y >= 1 /\ u = x + 1 /\ v = y - 1 /\ x + y = m
            /\ RecordLen \in Nat /\ m <= RecordLen
        BY <1>4, <1>5, <1>7, <1>8, <2>1
      <3>. HIDE DEF x, y, u, v
      <3>2. u + v = m /\ u <= RecordLen
        BY <3>1
      <3>. QED  BY <3>2 DEF u, v
    <2>. QED  BY <2>2, <2>3, <2>4
  <1>9. RecordInv'
    <2>. DEFINE m == IF Len(todo) = 8 THEN Len(PanikTag)
                     ELSE IF Len(todo) = 7 THEN RecordLen - 1 ELSE RecordLen
    <2>1. m \in Nat /\ m <= RecordLen /\ LogsUpTo(m)
      <3>1. m \in Nat /\ m <= RecordLen
        BY <1>7
      <3>2. LogsUpTo(m)
        BY <1>2 DEF RecordInv
      <3>. QED  BY <3>1, <3>2
    <2>. HIDE DEF m
    <2>2. /\ Len(logged') + Len(todo'[1].text) = m
          /\ \A k \in 1 .. Len(todo'[1].text) :
               todo'[1].text[k] = RecordByte(Len(logged') + k)
          /\ Len(logged') <= RecordLen
          /\ \A k \in 1 .. Len(logged') : logged'[k] = RecordByte(k)
      BY <1>8, <2>1
    <2>3. m = IF Len(todo) = 8 THEN Len(PanikTag)
              ELSE IF Len(todo) = 7 THEN RecordLen - 1 ELSE RecordLen
      BY DEF m
    <2>4. Len(todo) = 8 => LogsUpTo(Len(PanikTag))'
      BY <1>6, <2>2, <2>3 DEF LogsUpTo
    <2>5. Len(todo) = 7 => LogsUpTo(RecordLen - 1)'
      BY <1>6, <2>2, <2>3 DEF LogsUpTo
    <2>6. Len(todo) = 6 => LogsUpTo(RecordLen)'
      BY <1>6, <2>2, <2>3 DEF LogsUpTo
    <2>7. /\ Len(todo) = 8 => /\ todo'[2].text = last_panik_msg'
                              /\ todo'[3].text = <<NL>>
          /\ Len(todo) = 7 => todo'[2].text = <<NL>>
      <3>1. Len(todo) = 8 => todo'[2] = todo[2] /\ todo'[3] = todo[3]
        BY <1>0
      <3>2. Len(todo) = 7 => todo'[2] = todo[2]
        BY <1>0
      <3>. QED  BY <1>3, <3>1, <3>2 DEF RecordInv
    <2>8. /\ Len(logged') <= RecordLen'
          /\ \A k \in 1 .. Len(logged') : logged'[k] = RecordByte(k)'
      BY <1>6, <2>2
    <2>9. ~(Len(todo') < 6) /\ Len(todo') = Len(todo)
      BY <1>0, <1>2
    <2>. QED  BY <2>4, <2>5, <2>6, <2>7, <2>8, <2>9 DEF RecordInv
  <1>10. ScreenInv'
    <2>. DEFINE n == Len(todo)
    <2>0. n \in 6 .. 8
      BY <1>2
    <2>1. /\ n - 2 \in 2 .. n /\ n - 1 \in 2 .. n /\ n >= 4 /\ n >= 3 /\ n >= 2
          /\ n # 3 /\ n # 2 /\ n # 1
      <3>. HIDE DEF n
      <3>. QED  BY <2>0
    <2>2. todo'[Len(todo) - 2] = todo[Len(todo) - 2] /\ todo'[Len(todo) - 1] = todo[Len(todo) - 1]
      BY <1>0, <2>1
    <2>3. Len(todo') = n /\ Len(todo) = n
      BY <1>0
    <2>4. /\ todo[n - 2].text = <<NL>> /\ todo[n - 1].text = HaltedText
          /\ todo[n - 1].color = HALT_COLOR
      BY <2>1 DEF ScreenInv
    <2>5. todo'[n - 2] = todo[n - 2] /\ todo'[n - 1] = todo[n - 1]
      BY <2>2
    <2>. HIDE DEF n
    <2>. QED  BY <2>1, <2>3, <2>4, <2>5 DEF ScreenInv
  <1>. QED  BY <1>9, <1>10

\* A halting call that goes on to its next string.
LEMMA StringDoneHalting ==
    ASSUME VgaInv, TodoInv, PanikTypeInv, KindsInv, RecordInv, ScreenInv, StringDone
    PROVE  KindsInv' /\ RecordInv' /\ ScreenInv'
  <1>0. /\ Head(todo) = todo[1] /\ todo[1].text = << >> /\ todo[1].to # "halt"
        /\ Len(todo) \in Nat /\ Len(todo) >= 1 /\ Len(todo') = Len(todo) - 1
        /\ \A k \in 1 .. Len(todo) - 1 : todo'[k] = todo[k + 1]
    BY StringTaken DEF StringDone, Halted
  <1>1. Halting' => Halting
    <2>. SUFFICES ASSUME NEW k \in 1 .. Len(todo'), todo'[k].to = "halt"  PROVE Halting
      BY DEF Halting
    <2>1. k + 1 \in 1 .. Len(todo) /\ todo'[k] = todo[k + 1]
      BY <1>0
    <2>. QED  BY <2>1 DEF Halting
  <1>. SUFFICES ASSUME Halting  PROVE KindsInv' /\ RecordInv' /\ ScreenInv'
    BY <1>1 DEF KindsInv, RecordInv, ScreenInv
  <1>2. /\ Len(todo) \in 1 .. 8
        /\ \A k \in 1 .. Len(todo) :
             /\ k <= Len(todo) - 5 => todo[k].to = "log"
             /\ k \in Len(todo) - 4 .. Len(todo) - 1 => todo[k].to = "screen"
             /\ k = Len(todo) => todo[k].to = "halt"
    BY DEF KindsInv
  <1>3. Len(todo) \in 2 .. 8
    <2>1. Len(todo) # 1
      BY <1>0, <1>2
    <2>. QED  BY <1>2, <2>1
  <1>4. KindsInv'
    <2>1. ASSUME NEW k \in 1 .. Len(todo')
          PROVE  /\ k <= Len(todo') - 5 => todo'[k].to = "log"
                 /\ k \in Len(todo') - 4 .. Len(todo') - 1 => todo'[k].to = "screen"
                 /\ k = Len(todo') => todo'[k].to = "halt"
      <3>1. k + 1 \in 1 .. Len(todo) /\ todo'[k] = todo[k + 1]
        BY <1>0
      <3>2. /\ k <= Len(todo') - 5 => k + 1 <= Len(todo) - 5
            /\ k \in Len(todo') - 4 .. Len(todo') - 1 => k + 1 \in Len(todo) - 4 .. Len(todo) - 1
            /\ k = Len(todo') => k + 1 = Len(todo)
        BY <1>0
      <3>. QED  BY <1>2, <3>1, <3>2
    <2>2. Len(todo') \in 1 .. 8
      <3>. DEFINE n == Len(todo)
      <3>1. n \in 2 .. 8 /\ Len(todo') = n - 1
        BY <1>0, <1>3
      <3>. HIDE DEF n
      <3>. QED  BY <3>1
    <2>. QED  BY <2>1, <2>2 DEF KindsInv
  <1>5. /\ logged' = logged /\ last_panik_msg' = last_panik_msg
        /\ vga' = vga /\ cursor_row' = cursor_row /\ cursor_col' = cursor_col
    BY DEF StringDone, panikVars, vgaVars
  <1>6. /\ RecordLen' = RecordLen /\ \A k : RecordByte(k)' = RecordByte(k)
    BY <1>5 DEF RecordLen, RecordByte
  <1>7. /\ RecordLen = Len(PanikTag) + Len(last_panik_msg) + 1
        /\ Len(PanikTag) \in Nat /\ Len(last_panik_msg) \in Nat /\ Len(logged) \in Nat
    BY ConsoleAssumption DEF RecordLen, PanikTypeInv
  <1>8. todo'[1] = todo[1 + 1] /\ (Len(todo) >= 3 => todo'[2] = todo[2 + 1])
    BY <1>0, <1>3
  <1>9. RecordInv'
    <2>1. /\ Len(todo) = 8 => Len(logged) = Len(PanikTag)
          /\ Len(todo) = 7 => Len(logged) = RecordLen - 1
          /\ Len(todo) = 6 => Len(logged) = RecordLen
          /\ Len(todo) < 6 => Len(logged) = RecordLen
      <3>1. ASSUME NEW m \in Int, LogsUpTo(m)  PROVE Len(logged) = m
        <4>1. Len(logged) + Len(<< >>) = m
          BY <1>0, <3>1 DEF LogsUpTo
        <4>. QED  BY <1>7, <4>1
      <3>2. Len(PanikTag) \in Int /\ RecordLen \in Int /\ RecordLen - 1 \in Int
        BY <1>7
      <3>. QED  BY <3>1, <3>2 DEF RecordInv
    <2>2. CASE Len(todo) = 8
      <3>1. todo'[1].text = last_panik_msg /\ todo'[2].text = <<NL>>
        BY <1>8, <2>2 DEF RecordInv
      <3>2. ASSUME NEW k \in 1 .. Len(last_panik_msg)
            PROVE  last_panik_msg[k] = RecordByte(Len(logged) + k)
        <4>1. /\ ~(Len(logged) + k <= Len(PanikTag)) /\ Len(logged) + k < RecordLen
              /\ (Len(logged) + k) - Len(PanikTag) = k
          BY <1>7, <2>1, <2>2
        <4>. QED  BY <4>1 DEF RecordByte
      <3>3. Len(logged) + Len(last_panik_msg) = RecordLen - 1
        BY <1>7, <2>1, <2>2
      <3>4. LogsUpTo(RecordLen - 1)'
        BY <1>5, <1>6, <3>1, <3>2, <3>3 DEF LogsUpTo
      <3>5. Len(todo') = 7
        BY <1>0, <2>2
      <3>. QED  BY <1>5, <1>6, <3>1, <3>4, <3>5 DEF RecordInv
    <2>3. CASE Len(todo) = 7
      <3>1. todo'[1].text = <<NL>>
        BY <1>8, <2>3 DEF RecordInv
      <3>2. RecordByte(Len(logged) + 1) = NL
        <4>1. ~(Len(logged) + 1 <= Len(PanikTag)) /\ ~(Len(logged) + 1 < RecordLen)
          BY <1>7, <2>1, <2>3
        <4>. QED  BY <4>1 DEF RecordByte
      <3>3. Len(todo'[1].text) = 1 /\ todo'[1].text[1] = NL
        BY <3>1
      <3>4. Len(logged) + 1 = RecordLen
        BY <1>7, <2>1, <2>3
      <3>5. LogsUpTo(RecordLen)'
        BY <1>5, <1>6, <3>2, <3>3, <3>4 DEF LogsUpTo
      <3>6. Len(todo') = 6
        BY <1>0, <2>3
      <3>. QED  BY <1>5, <1>6, <3>5, <3>6 DEF RecordInv
    <2>4. CASE Len(todo) < 7
      <3>1. Len(todo') < 6 /\ Len(logged) = RecordLen
        BY <1>0, <1>3, <2>1, <2>4
      <3>2. /\ Len(logged') = RecordLen' /\ RecordLen' \in Int
            /\ \A k \in 1 .. Len(logged') : logged'[k] = RecordByte(k)'
        BY <1>5, <1>6, <1>7, <3>1 DEF RecordInv
      <3>3. Len(logged') <= RecordLen'
        <4>. DEFINE u == RecordLen'
        <4>1. u \in Int /\ Len(logged') = u
          BY <3>2
        <4>. HIDE DEF u
        <4>. QED  BY <4>1 DEF u
      <3>4. Len(todo') # 8 /\ Len(todo') # 7 /\ Len(todo') # 6
        BY <1>0, <2>4
      <3>. QED  BY <3>1, <3>2, <3>3, <3>4 DEF RecordInv
    <2>5. Len(todo) = 8 \/ Len(todo) = 7 \/ Len(todo) < 7
      <3>. DEFINE n == Len(todo)
      <3>1. n \in 2 .. 8
        BY <1>3
      <3>. HIDE DEF n
      <3>2. n = 8 \/ n = 7 \/ n < 7
        BY <3>1
      <3>. QED  BY <3>2 DEF n
    <2>. QED  BY <2>2, <2>3, <2>4, <2>5
  <1>10. ScreenInv'
    <2>1. CASE Len(todo) >= 5
      <3>1. /\ Len(todo') - 2 \in 1 .. Len(todo) - 1 /\ Len(todo') - 1 \in 1 .. Len(todo) - 1
            /\ (Len(todo') - 2) + 1 = Len(todo) - 2 /\ (Len(todo') - 1) + 1 = Len(todo) - 1
            /\ Len(todo') >= 4
        BY <1>0, <1>3, <2>1
      <3>2. /\ todo'[Len(todo') - 2] = todo[Len(todo) - 2]
            /\ todo'[Len(todo') - 1] = todo[Len(todo) - 1]
        BY <1>0, <3>1
      <3>3. /\ todo[Len(todo) - 2].text = <<NL>> /\ todo[Len(todo) - 1].text = HaltedText
            /\ todo[Len(todo) - 1].color = HALT_COLOR
        BY <1>3, <2>1 DEF ScreenInv
      <3>4. Len(todo') # 3 /\ Len(todo') # 2 /\ Len(todo') # 1
        BY <1>0, <3>1
      <3>. QED  BY <3>2, <3>3, <3>4 DEF ScreenInv
    <2>2. CASE Len(todo) = 4
      <3>1. /\ todo[2].text = <<NL>> /\ todo[3].text = HaltedText /\ todo[3].color = HALT_COLOR
        BY <2>2 DEF ScreenInv
      <3>2. Len(todo') = 3 /\ todo'[1] = todo[2] /\ todo'[2] = todo[3]
        BY <1>0, <1>8, <2>2
      <3>. QED  BY <3>1, <3>2 DEF ScreenInv
    <2>3. CASE Len(todo) = 3
      <3>1. todo[2].text = HaltedText /\ todo[2].color = HALT_COLOR /\ cursor_col = 0
        BY <1>0, <2>3 DEF ScreenInv
      <3>2. Len(todo') = 2 /\ todo'[1] = todo[2]
        BY <1>0, <1>8, <2>3
      <3>3. Len(HaltedText) \in Nat /\ Len(HaltedText) > 0
        BY ConsoleAssumption
      <3>4. HaltShows(0)'
        BY <1>5, <3>1, <3>2, <3>3 DEF HaltShows
      <3>5. Len(HaltedText) - Len(todo'[1].text) = 0
        BY <3>1, <3>2, <3>3
      <3>6. HaltShows(Len(HaltedText) - Len(todo[1].text))'
        BY <3>4, <3>5
      <3>. QED  BY <3>1, <3>2, <3>6 DEF ScreenInv
    <2>4. CASE Len(todo) = 2
      <3>1. Len(HaltedText) - Len(todo[1].text) = Len(HaltedText)
        BY <1>0, ConsoleAssumption
      <3>2. HaltShown
        BY <2>4, <3>1 DEF ScreenInv, HaltShows
      <3>3. HaltShown'
        BY <1>5, <3>2 DEF HaltShown
      <3>4. Len(todo') = 1
        BY <1>0, <2>4
      <3>. QED  BY <3>3, <3>4 DEF ScreenInv
    <2>5. Len(todo) >= 5 \/ Len(todo) = 4 \/ Len(todo) = 3 \/ Len(todo) = 2
      <3>. DEFINE n == Len(todo)
      <3>1. n \in 2 .. 8
        BY <1>3
      <3>. HIDE DEF n
      <3>2. n >= 5 \/ n = 4 \/ n = 3 \/ n = 2
        BY <3>1
      <3>. QED  BY <3>2 DEF n
    <2>. QED  BY <2>1, <2>2, <2>3, <2>4, <2>5
  <1>. QED  BY <1>4, <1>9, <1>10

\* Where a character of the last message goes: all but the line break are put
\* side by side on one row; the line break moves the cursor below them.
LEMMA HaltCharShown ==
    ASSUME VgaInv, NEW n \in 0 .. Len(HaltedText) - 1, cursor_col = n,
           \A k \in 1 .. n : vga[Offset(cursor_row, k - 1)] = HaltCell(k),
           vga_print_char(HaltedText[n + 1], HALT_COLOR)
    PROVE  /\ n + 1 < Len(HaltedText) =>
                /\ cursor_col' = n + 1
                /\ \A k \in 1 .. n + 1 : vga'[Offset(cursor_row', k - 1)] = HaltCell(k)
           /\ n + 1 = Len(HaltedText) => HaltShown'
  <1>. DEFINE ch == HaltedText[n + 1]  cell == [ch |-> ch, color |-> HALT_COLOR]
              L == Len(HaltedText)
              written == IF ch = NL THEN vga
                         ELSE [vga EXCEPT ![Offset(cursor_row, cursor_col)] = cell]
              goes  == /\ ch # NL /\ cursor_col + 1 < VGA_WIDTH
                       /\ vga' = written
                       /\ cursor_row' = cursor_row /\ cursor_col' = cursor_col + 1
              feeds == /\ ch = NL \/ cursor_col + 1 = VGA_WIDTH
                       /\ cursor_row + 1 < VGA_HEIGHT
                       /\ vga' = written
                       /\ cursor_row' = cursor_row + 1 /\ cursor_col' = 0
              scrolls == /\ ch = NL \/ cursor_col + 1 = VGA_WIDTH
                         /\ cursor_row + 1 = VGA_HEIGHT
                         /\ vga' = ScrolledUp(written)
                         /\ cursor_row' = VGA_HEIGHT - 1 /\ cursor_col' = 0
  <1>0. /\ L \in Nat /\ L >= 1 /\ L <= VGA_WIDTH /\ VGA_HEIGHT >= 2
        /\ VGA_WIDTH \in Nat /\ VGA_HEIGHT \in Nat
        /\ HaltedText \in Seq(Char) /\ HALT_COLOR \in Color
        /\ \A k \in 1 .. L - 1 : HaltedText[k] # NL /\ HaltedText[k] # NUL
        /\ HaltedText[L] = NL
    <2>1. HaltedText \in Seq(Char) /\ HaltedText # << >>
      BY ConsoleAssumption
    <2>2. L \in Nat /\ L >= 1
      BY <2>1
    <2>. QED  BY <2>1, <2>2, ConsoleAssumption, VgaAssumption
  <1>1. /\ vga \in [Cells -> Cell]
        /\ cursor_row \in 0 .. VGA_HEIGHT - 1 /\ cursor_col \in 0 .. VGA_WIDTH - 1
    BY DEF VgaInv, VgaTypeOK, Cell
  <1>2. n \in Nat /\ n + 1 \in 1 .. L /\ n + 1 <= VGA_WIDTH
    BY <1>0
  <1>3. ch \in Glyph \cup {NL}
    <2>1. ch \in Char
      BY <1>0, <1>2
    <2>2. ch # NUL
      <3>1. CASE n + 1 = L
        BY <1>0, <3>1 DEF NL, NUL
      <3>2. CASE n + 1 \in 1 .. L - 1
        BY <1>0, <3>2
      <3>. QED  BY <1>0, <1>2, <3>1, <3>2
    <2>. HIDE DEF ch
    <2>. QED  BY <2>1, <2>2, ConsoleAssumption
  <1>4. goes \/ feeds \/ scrolls
    <2>. HIDE DEF ch
    <2>1. vga_print_char(ch, HALT_COLOR)
      BY DEF ch
    <2>. QED  BY <1>0, <1>3, <2>1, PrintCharCases DEF VgaInv
  \* the columns 0 .. n of the current row are on the screen
  <1>5. \A k \in 1 .. L : k - 1 \in 0 .. VGA_WIDTH - 1 /\ Offset(cursor_row, k - 1) \in Cells
    <2>1. \A k \in 1 .. L : k - 1 \in 0 .. VGA_WIDTH - 1
      BY <1>0
    <2>. QED  BY <1>1, <2>1, OffsetInCells
  <1>6. ASSUME n + 1 < L
        PROVE  /\ cursor_col' = n + 1
               /\ \A k \in 1 .. n + 1 : vga'[Offset(cursor_row', k - 1)] = HaltCell(k)
    <2>1. ch # NL
      BY <1>0, <1>2, <1>6
    <2>2. goes
      BY <1>0, <1>2, <1>4, <1>6, <2>1
    <2>3. vga' = [vga EXCEPT ![Offset(cursor_row, cursor_col)] = cell]
      BY <2>1, <2>2
    <2>4. cell = HaltCell(n + 1)
      BY DEF HaltCell
    <2>5. ASSUME NEW k \in 1 .. n + 1
          PROVE  vga'[Offset(cursor_row, k - 1)] = HaltCell(k)
      <3>0. k \in 1 .. L
        BY <1>0, <1>2
      <3>1. Offset(cursor_row, k - 1) \in Cells /\ k - 1 \in 0 .. VGA_WIDTH - 1
        BY <1>5, <3>0
      <3>. HIDE DEF cell
      <3>2. CASE k = n + 1
        <4>1. k - 1 = cursor_col
          BY <1>2, <3>2
        <4>. QED  BY <1>1, <2>3, <2>4, <3>1, <3>2, <4>1
      <3>3. CASE k \in 1 .. n
        <4>1. cursor_row \in Nat /\ k - 1 # cursor_col
          BY <1>0, <1>1, <1>2, <3>3
        <4>2. Offset(cursor_row, k - 1) # Offset(cursor_row, cursor_col)
          BY <1>1, <3>1, <4>1, OffsetInjective
        <4>3. vga'[Offset(cursor_row, k - 1)] = vga[Offset(cursor_row, k - 1)]
          BY <1>1, <2>3, <3>1, <4>2
        <4>. QED  BY <3>3, <4>3
      <3>4. k = n + 1 \/ k \in 1 .. n
        BY <1>2
      <3>. QED  BY <3>2, <3>3, <3>4
    <2>6. cursor_row' = cursor_row /\ cursor_col' = n + 1
      BY <2>2
    <2>. QED  BY <2>5, <2>6
  <1>7. ASSUME n + 1 = L
        PROVE  HaltShown'
    <2>1. ch = NL /\ written = vga
      BY <1>0, <1>7
    <2>2. L - 1 = n
      BY <1>0, <1>2, <1>7
    <2>. HIDE DEF written
    <2>3. CASE feeds
      <3>1. vga' = vga /\ cursor_row' >= 1 /\ cursor_row' - 1 = cursor_row
        BY <1>0, <1>1, <2>1, <2>3
      <3>. QED  BY <2>2, <3>1 DEF HaltShown
    <2>4. CASE scrolls
      <3>1. /\ vga' = ScrolledUp(vga) /\ cursor_row' >= 1
            /\ cursor_row' - 1 \in 0 .. VGA_HEIGHT - 1 /\ cursor_row' - 1 < VGA_HEIGHT - 1
            /\ (cursor_row' - 1) + 1 = cursor_row
        BY <1>0, <1>1, <2>1, <2>4
      <3>2. ASSUME NEW k \in 1 .. n
            PROVE  vga'[Offset(cursor_row' - 1, k - 1)] = HaltCell(k)
        <4>. DEFINE r == cursor_row' - 1
        <4>1. k - 1 \in 0 .. VGA_WIDTH - 1
          BY <1>0, <1>2
        <4>2. r \in 0 .. VGA_HEIGHT - 1 /\ r < VGA_HEIGHT - 1 /\ r + 1 = cursor_row
          BY <3>1
        <4>. HIDE DEF r
        <4>3. /\ Offset(r, k - 1) \in Cells
              /\ Offset(r, k - 1) + VGA_WIDTH = Offset(r + 1, k - 1)
              /\ Offset(r, k - 1) + VGA_WIDTH \in Cells
          BY <4>1, <4>2, OffsetInCells, OffsetBelow
        <4>4. ScrolledUp(vga)[Offset(r, k - 1)] = vga[Offset(cursor_row, k - 1)]
          BY <4>2, <4>3 DEF ScrolledUp
        <4>. QED  BY <3>1, <4>4 DEF r
      <3>. QED  BY <2>2, <3>1, <3>2 DEF HaltShown
    <2>5. ~goes
      BY <2>1
    <2>. QED  BY <1>4, <2>3, <2>4, <2>5
  <1>. QED  BY <1>6, <1>7

\* A screen byte of a halting call.
LEMMA ShowByteHalting ==
    ASSUME VgaInv, TodoInv, PanikTypeInv, KindsInv, RecordInv, ScreenInv, ShowByte
    PROVE  KindsInv' /\ RecordInv' /\ ScreenInv'
  <1>. DEFINE a == todo[1].text  n == Len(todo)
  <1>0. /\ Head(todo) = todo[1] /\ todo[1].to = "screen" /\ todo[1] \in Item
        /\ a \in Seq(Char) /\ a # << >>
        /\ Len(todo') = n /\ n \in Nat /\ n >= 1
        /\ todo'[1].text = Tail(a) /\ todo'[1].color = todo[1].color
        /\ \A k \in 2 .. n : todo'[k] = todo[k]
    BY ByteTaken DEF ShowByte
  <1>1. KindsInv' /\ (Halting' => Halting)
    BY ByteKinds DEF ShowByte
  <1>. SUFFICES ASSUME Halting  PROVE RecordInv' /\ ScreenInv'
    BY <1>1 DEF RecordInv, ScreenInv
  <1>2. n \in 2 .. 5
    <2>1. n \in 1 .. 8
      BY DEF KindsInv
    <2>2. 1 \in 1 .. n
      BY <1>0
    <2>3. (1 <= n - 5 => todo[1].to = "log") /\ (1 = n => todo[1].to = "halt")
      BY <2>2 DEF KindsInv
    <2>4. ~(1 <= n - 5) /\ 1 # n
      BY <1>0, <2>3
    <2>. HIDE DEF n
    <2>. QED  BY <2>1, <2>4
  <1>3. /\ logged' = logged /\ last_panik_msg' = last_panik_msg
        /\ vga_print_char(Head(a), todo[1].color)
    BY <1>0 DEF ShowByte, panikVars
  <1>4. /\ Len(a) \in Nat /\ Len(a) >= 1 /\ Head(a) = a[1] /\ Len(Tail(a)) = Len(a) - 1
        /\ \A k \in 1 .. Len(a) - 1 : Tail(a)[k] = a[k + 1]
    BY <1>0
  <1>5. n < 6 /\ n # 8 /\ n # 7 /\ n # 6 /\ n # 1 /\ n >= 2
    <2>. HIDE DEF n
    <2>. QED  BY <1>2
  <1>6. RecordInv'
    <2>1. /\ RecordLen' = RecordLen /\ \A k : RecordByte(k)' = RecordByte(k)
      BY <1>3 DEF RecordLen, RecordByte
    <2>2. /\ Len(logged) = RecordLen /\ Len(logged) <= RecordLen
          /\ \A k \in 1 .. Len(logged) : logged[k] = RecordByte(k)
      BY <1>5 DEF RecordInv
    <2>. QED  BY <1>0, <1>3, <1>5, <2>1, <2>2 DEF RecordInv
  <1>7. ScreenInv'
    <2>1. CASE n = 4 \/ n = 5
      <3>1. n - 2 \in 2 .. n /\ n - 1 \in 2 .. n /\ n >= 4 /\ n >= 3 /\ n >= 2 /\ n # 3 /\ n # 2 /\ n # 1
        <4>. HIDE DEF n
        <4>. QED  BY <2>1
      <3>2. todo'[n - 2] = todo[n - 2] /\ todo'[n - 1] = todo[n - 1]
        BY <1>0, <3>1
      <3>3. /\ todo[n - 2].text = <<NL>> /\ todo[n - 1].text = HaltedText
            /\ todo[n - 1].color = HALT_COLOR
        BY <3>1 DEF ScreenInv
      <3>4. Len(todo') = n
        BY <1>0
      <3>. HIDE DEF n
      <3>. QED  BY <3>1, <3>2, <3>3, <3>4 DEF ScreenInv
    <2>2. CASE n = 3
      <3>1. a = <<NL>> /\ todo[2].text = HaltedText /\ todo[2].color = HALT_COLOR
        BY <1>0, <2>2 DEF ScreenInv
      <3>2. Head(a) = NL /\ Tail(a) = << >>
        BY <3>1
      <3>3. cursor_col' = 0
        BY <1>3, <3>2 DEF vga_print_char
      <3>4. todo'[2] = todo[2] /\ Len(todo') = 3
        BY <1>0, <2>2
      <3>. QED  BY <1>0, <3>1, <3>2, <3>3, <3>4 DEF ScreenInv
    <2>3. CASE n = 2
      <3>. DEFINE L == Len(HaltedText)  m == L - Len(a)
      <3>1. HaltShows(m) /\ todo[1].color = HALT_COLOR
        BY <2>3 DEF ScreenInv
      <3>2. L \in Nat
        BY ConsoleAssumption
      <3>3. /\ m \in 0 .. L - 1 /\ m + 1 \in 0 .. L /\ m < L
            /\ L - Len(Tail(a)) = m + 1
        <4>1. m \in 0 .. L
          BY <3>1 DEF HaltShows
        <4>. DEFINE z == Len(a)  y == Len(Tail(a))
        <4>2. z \in Nat /\ z >= 1 /\ m = L - z /\ y = z - 1
          BY <1>4
        <4>. HIDE DEF L, m, z, y
        <4>3. m \in 0 .. L - 1 /\ m + 1 \in 0 .. L /\ m < L /\ L - y = m + 1
          BY <3>2, <4>1, <4>2
        <4>. QED  BY <4>3 DEF y
      <3>4. /\ \A k \in 1 .. Len(a) : a[k] = HaltedText[m + k]
            /\ cursor_col = m
            /\ \A k \in 1 .. m : vga[Offset(cursor_row, k - 1)] = HaltCell(k)
        <4>1. m < L
          BY <3>3
        <4>. HIDE DEF m
        <4>. QED  BY <3>1, <4>1 DEF HaltShows
      <3>5. vga_print_char(HaltedText[m + 1], HALT_COLOR)
        <4>1. Head(a) = HaltedText[m + 1]
          <5>. HIDE DEF m, a
          <5>1. 1 \in 1 .. Len(a)
            BY <1>4
          <5>2. a[1] = HaltedText[m + 1]
            BY <3>4, <5>1
          <5>. QED  BY <1>4, <5>2
        <4>. QED  BY <1>3, <3>1, <4>1
      <3>6. /\ m + 1 < L => /\ cursor_col' = m + 1
                            /\ \A k \in 1 .. m + 1 :
                                 vga'[Offset(cursor_row', k - 1)] = HaltCell(k)
            /\ m + 1 = L => HaltShown'
        <4>. HIDE DEF m
        <4>. QED  BY <3>3, <3>4, <3>5, HaltCharShown
      <3>7. \A k \in 1 .. Len(Tail(a)) : Tail(a)[k] = HaltedText[(m + 1) + k]
        <4>. SUFFICES ASSUME NEW k \in 1 .. Len(Tail(a))
                      PROVE  Tail(a)[k] = HaltedText[(m + 1) + k]
          OBVIOUS
        <4>1. k \in 1 .. Len(a) - 1 /\ k + 1 \in 1 .. Len(a)
          BY <1>4
        <4>2. m + (k + 1) = (m + 1) + k
          BY <3>3
        <4>. QED  BY <1>4, <3>4, <4>1, <4>2
      <3>8. HaltShows(L - Len(todo[1].text))'
        <4>. DEFINE q == m + 1
        <4>1. (L - Len(todo[1].text))' = q
          BY <1>0, <3>3
        <4>2. /\ q \in 0 .. L
              /\ \A k \in 1 .. Len(todo'[1].text) : todo'[1].text[k] = HaltedText[q + k]
              /\ q < L => /\ cursor_col' = q
                          /\ \A k \in 1 .. q :
                               vga'[Offset(cursor_row', k - 1)] = HaltCell(k)
              /\ q = L => HaltShown'
          BY <1>0, <3>3, <3>6, <3>7
        <4>. HIDE DEF q
        <4>. QED  BY <4>1, <4>2 DEF HaltShows
      <3>9. Len(todo') = 2 /\ todo'[1].color = HALT_COLOR
        BY <1>0, <2>3, <3>1
      <3>. QED  BY <3>8, <3>9 DEF ScreenInv
    <2>4. n = 5 \/ n = 4 \/ n = 3 \/ n = 2
      <3>. HIDE DEF n
      <3>. QED  BY <1>2
    <2>. QED  BY <2>1, <2>2, <2>3, <2>4
  <1>. QED  BY <1>6, <1>7

-----------------------------------------------------------------------------
(* The beginning of a call. *)

\* What is written to the log and what is shown are items.
LEMMA ItemTypes ==
    ASSUME NEW text \in Seq(Char), NEW color \in Color
    PROVE  /\ Log(text) \in Item /\ Show(text, color) \in Item /\ Halt \in Item
           /\ Log(text).to = "log" /\ Log(text).text = text
           /\ Show(text, color).to = "screen" /\ Show(text, color).color = color
           /\ Show(text, color).text = CString(text)
           /\ Show(text, color).text \in Seq(Glyph \cup {NL})
           /\ Len(Show(text, color).text) <= Len(text)
           /\ Halt.to = "halt" /\ Halt.text = << >>
  <1>1. CString(text) \in Seq(Char) /\ CString(text) \in Seq(Glyph \cup {NL})
        /\ Len(CString(text)) <= Len(text)
    BY CStringType
  <1>2. WHITE_ON_BLACK \in Color /\ << >> \in Seq(Char)
    BY VgaAssumption
  <1>. QED  BY <1>1, <1>2 DEF Log, Show, Halt, Item

\* The strings of printk, with a level and without.
LEMMA PrintkStrings ==
    ASSUME NEW level, NEW text
    PROVE  PrintkWrites(level, text) =
             LET tmp == Formatted(text, LOG_BUF_SIZE) IN
             IF level = NoLevel
             THEN <<Log(tmp), Show(tmp, WHITE_ON_BLACK)>>
             ELSE <<Log(Prefix[level]), Show(Prefix[level], LevelColor[level]),
                    Log(tmp), Show(tmp, WHITE_ON_BLACK)>>
  <1>. DEFINE tmp == Formatted(text, LOG_BUF_SIZE)
              a == Log(Prefix[level])  b == Show(Prefix[level], LevelColor[level])
              c == Log(tmp)  d == Show(tmp, WHITE_ON_BLACK)
  <1>1. PrintkWrites(level, text) = (IF level = NoLevel THEN << >> ELSE <<a, b>>) \o <<c, d>>
    BY DEF PrintkWrites, VprintkWrites
  <1>. HIDE DEF a, b, c, d
  <1>2. << >> \o <<c, d>> = <<c, d>>
    OBVIOUS
  <1>3. <<a, b>> \o <<c, d>> = <<a, b, c, d>>
    <2>. DEFINE S == {a, b, c, d}  s == <<a, b>>  t == <<c, d>>  w == <<a, b, c, d>>
    <2>1. /\ s \in Seq(S) /\ Len(s) = 2 /\ s[1] = a /\ s[2] = b
          /\ t \in Seq(S) /\ Len(t) = 2 /\ t[1] = c /\ t[2] = d
          /\ w \in Seq(S) /\ Len(w) = 4
          /\ w[1] = a /\ w[2] = b /\ w[3] = c /\ w[4] = d
      OBVIOUS
    <2>. HIDE DEF S, s, t, w
    <2>2. /\ s \o t \in Seq(S) /\ Len(s \o t) = 4
          /\ \A k \in 1 .. 4 : (s \o t)[k] = IF k <= 2 THEN s[k] ELSE t[k - 2]
      <3>1. /\ s \o t \in Seq(S) /\ Len(s \o t) = Len(s) + Len(t)
            /\ \A k \in 1 .. Len(s) + Len(t) :
                 (s \o t)[k] = IF k <= Len(s) THEN s[k] ELSE t[k - Len(s)]
        BY <2>1, ConcatProperties
      <3>2. Len(s) = 2 /\ Len(t) = 2 /\ Len(s) + Len(t) = 4
        BY <2>1
      <3>. QED  BY <3>1, <3>2
    <2>3. \A k \in 1 .. 4 : (s \o t)[k] = w[k]
      <3>1. (s \o t)[1] = a /\ (s \o t)[2] = b /\ (s \o t)[3] = c /\ (s \o t)[4] = d
        BY <2>1, <2>2
      <3>2. \A k \in 1 .. 4 : k = 1 \/ k = 2 \/ k = 3 \/ k = 4
        OBVIOUS
      <3>. DEFINE st == s \o t
      <3>3. st[1] = w[1] /\ st[2] = w[2] /\ st[3] = w[3] /\ st[4] = w[4]
        BY <2>1, <3>1
      <3>. HIDE DEF st
      <3>4. \A k \in 1 .. 4 : st[k] = w[k]
        BY <3>2, <3>3
      <3>. QED  BY <3>4 DEF st
    <2>4. s \o t = w
      <3>. DEFINE st == s \o t
      <3>1. st \in Seq(S) /\ Len(st) = 4 /\ \A k \in 1 .. 4 : st[k] = w[k]
        BY <2>2, <2>3
      <3>. HIDE DEF st
      <3>2. st = w
        BY <2>1, <3>1, SeqEqual
      <3>. QED  BY <3>2 DEF st
    <2>. QED  BY <2>4 DEF s, t, w
  <1>4. PrintkWrites(level, text) = IF level = NoLevel THEN <<c, d>> ELSE <<a, b, c, d>>
    BY <1>1, <1>2, <1>3
  <1>. QED  BY <1>4 DEF a, b, c, d

\* A call of printk owes the log and the screen what its definition says.
LEMMA PrintkBegins ==
    ASSUME NEW level \in Levels \cup {NoLevel}, NEW text \in Seq(Char),
           todo' = PrintkWrites(level, text), logged' = << >>, shown' = << >>
    PROVE  /\ TodoInv' /\ ~Halting'
           /\ (LogsPrefix \/ LogsText)'
  <1>. DEFINE tmp == Formatted(text, LOG_BUF_SIZE)
              c == Log(tmp)  d == Show(tmp, WHITE_ON_BLACK)
  <1>0. WHITE_ON_BLACK \in Color /\ LOG_BUF_SIZE \in Nat \ {0} /\ << >> \in Seq(Char)
    BY VgaAssumption, RingAssumption
  <1>1. tmp \in Seq(Char) /\ Len(tmp) < LOG_BUF_SIZE /\ Len(tmp) \in Nat
    <2>1. tmp \in Seq(Char) /\ Len(tmp) < LOG_BUF_SIZE
      BY <1>0, FormattedType
    <2>. HIDE DEF tmp
    <2>. QED  BY <2>1
  <1>2. /\ c \in Item /\ c.to = "log" /\ c.text = tmp
        /\ d \in Item /\ d.to = "screen" /\ d.text = CString(tmp)
        /\ d.text \in Seq(Glyph \cup {NL}) /\ Len(d.text) < LOG_BUF_SIZE
    <2>. HIDE DEF tmp
    <2>1. /\ c \in Item /\ c.to = "log" /\ c.text = tmp
          /\ d \in Item /\ d.to = "screen" /\ d.text = CString(tmp)
          /\ d.text \in Seq(Glyph \cup {NL}) /\ Len(d.text) <= Len(tmp)
      BY <1>0, <1>1, ItemTypes
    <2>2. Len(d.text) \in Nat
      <3>. DEFINE u == d.text  S == Glyph \cup {NL}
      <3>1. u \in Seq(S)
        BY <2>1
      <3>. HIDE DEF u, S
      <3>2. Len(u) \in Nat
        BY <3>1
      <3>. QED  BY <3>2 DEF u
    <2>. QED  BY <1>0, <1>1, <2>1, <2>2
  <1>3. CASE level = NoLevel
    <2>1. todo' = <<c, d>>
      BY <1>3, PrintkStrings
    <2>. HIDE DEF c, d, tmp
    <2>2. /\ todo' \in Seq(Item) /\ Len(todo') = 2 /\ todo'[1] = c /\ todo'[2] = d
      <3>. HIDE DEF Item
      <3>. QED  BY <1>2, <2>1
    <2>3. \A k \in 1 .. 2 : k = 1 \/ k = 2
      OBVIOUS
    <2>4. TodoInv' /\ ~Halting'
      <3>1. \A k \in 1 .. Len(todo') :
              /\ Len(todo'[k].text) < LOG_BUF_SIZE
              /\ todo'[k].to = "screen" => todo'[k].text \in Seq(Glyph \cup {NL})
              /\ todo'[k].to # "halt"
        BY <1>1, <1>2, <2>2, <2>3
      <3>. QED  BY <2>2, <3>1 DEF TodoInv, Halting
    <2>5. Follows(logged', Len(shown'), todo'[1].text, todo'[1].text)
      <3>1. Follows(<< >>, Len(<< >>), tmp, tmp)
        BY <1>0, <1>1, FollowsNothing
      <3>. QED  BY <1>2, <2>2, <3>1
    <2>6. LogsText'
      <3>1. Len(shown') = 0 /\ Len(logged') = 0
        OBVIOUS
      <3>2. /\ Len(shown') <= Len(logged')
            /\ \A k \in 1 .. Len(shown') : shown'[k] = logged'[k]
        BY <3>1
      <3>3. todo'[1].text \in Seq(Char) /\ todo'[2].text = CString(todo'[1].text)
        BY <1>1, <1>2, <2>2
      <3>. QED  BY <1>2, <2>2, <2>5, <3>2, <3>3 DEF LogsText
    <2>. QED  BY <2>4, <2>6
  <1>4. CASE level # NoLevel
    <2>. DEFINE p == Prefix[level]  q == LevelColor[level]  a == Log(p)  b == Show(p, q)
    <2>0. p \in Seq(Char) /\ Len(p) < LOG_BUF_SIZE /\ Len(p) \in Nat /\ q \in Color
      <3>1. level \in Levels
        BY <1>4
      <3>2. p \in Seq(Char) /\ Len(p) < LOG_BUF_SIZE /\ q \in Color
        BY <3>1, ConsoleAssumption
      <3>. HIDE DEF p
      <3>. QED  BY <3>2
    <2>1. todo' = <<a, b, c, d>>
      BY <1>4, PrintkStrings
    <2>2. /\ a \in Item /\ a.to = "log" /\ a.text = p
          /\ b \in Item /\ b.to = "screen" /\ b.text = CString(p)
          /\ b.text \in Seq(Glyph \cup {NL}) /\ Len(b.text) < LOG_BUF_SIZE
      <3>. HIDE DEF p, q
      <3>1. /\ a \in Item /\ a.to = "log" /\ a.text = p
            /\ b \in Item /\ b.to = "screen" /\ b.text = CString(p)
            /\ b.text \in Seq(Glyph \cup {NL}) /\ Len(b.text) <= Len(p)
        BY <2>0, ItemTypes
      <3>2. Len(b.text) \in Nat
        <4>. DEFINE u == b.text  S == Glyph \cup {NL}
        <4>1. u \in Seq(S)
          BY <3>1
        <4>. HIDE DEF u, S
        <4>2. Len(u) \in Nat
          BY <4>1
        <4>. QED  BY <4>2 DEF u
      <3>. QED  BY <1>0, <2>0, <3>1, <3>2
    <2>. HIDE DEF a, b, c, d, tmp, p, q
    <2>3. /\ todo' \in Seq(Item) /\ Len(todo') = 4
          /\ todo'[1] = a /\ todo'[2] = b /\ todo'[3] = c /\ todo'[4] = d
      <3>. HIDE DEF Item
      <3>. QED  BY <1>2, <2>1, <2>2
    <2>4. \A k \in 1 .. 4 : k = 1 \/ k = 2 \/ k = 3 \/ k = 4
      OBVIOUS
    <2>5. TodoInv' /\ ~Halting'
      <3>1. \A k \in 1 .. Len(todo') :
              /\ Len(todo'[k].text) < LOG_BUF_SIZE
              /\ todo'[k].to = "screen" => todo'[k].text \in Seq(Glyph \cup {NL})
              /\ todo'[k].to # "halt"
        BY <1>1, <1>2, <2>0, <2>2, <2>3, <2>4
      <3>. QED  BY <2>3, <3>1 DEF TodoInv, Halting
    <2>6. Follows(logged', 0, todo'[1].text, p)
      <3>1. Follows(<< >>, Len(<< >>), p, p) /\ Len(<< >>) = 0
        BY <1>0, <2>0, FollowsNothing
      <3>. QED  BY <2>2, <2>3, <3>1
    <2>7. LogsPrefix'
      BY <1>2, <2>0, <2>2, <2>3, <2>6 DEF LogsPrefix
    <2>. QED  BY <2>5, <2>7
  <1>. QED  BY <1>3, <1>4

\* An item of panik's list fits its buffer.
LEMMA PanikItems ==
    ASSUME NEW text \in Seq(Char), Len(text) < LOG_BUF_SIZE, NEW color \in Color
    PROVE  \A item \in {Log(text), Show(text, color), Halt} :
             /\ item \in Item /\ Len(item.text) < LOG_BUF_SIZE
             /\ item.to = "screen" => item.text \in Seq(Glyph \cup {NL})
             /\ item.to = "halt" => item.text = << >>
  <1>1. /\ Log(text) \in Item /\ Show(text, color) \in Item /\ Halt \in Item
        /\ Log(text).to = "log" /\ Log(text).text = text
        /\ Show(text, color).to = "screen" /\ Show(text, color).text \in Seq(Glyph \cup {NL})
        /\ Len(Show(text, color).text) <= Len(text)
        /\ Halt.to = "halt" /\ Halt.text = << >>
    BY ItemTypes
  <1>2. Len(Show(text, color).text) < LOG_BUF_SIZE
    <2>. DEFINE u == Show(text, color).text  S == Glyph \cup {NL}
    <2>1. u \in Seq(S) /\ Len(u) <= Len(text)
      BY <1>1
    <2>. HIDE DEF u, S
    <2>2. Len(u) < LOG_BUF_SIZE
      BY <2>1, RingAssumption
    <2>. QED  BY <2>2 DEF u
  <1>3. Len(<< >>) < LOG_BUF_SIZE
    BY RingAssumption
  <1>. QED  BY <1>1, <1>2, <1>3

\* A halting call owes the record to the log and the last message to the screen.
LEMMA PanikBegins ==
    ASSUME NEW msg \in Seq(Char), Len(msg) < PANIK_MSG_SIZE,
           todo' = PanikWrites(msg), logged' = << >>, last_panik_msg' = msg
    PROVE  TodoInv' /\ KindsInv' /\ RecordInv' /\ ScreenInv'
  <1>. DEFINE i1 == Log(PanikTag)  i2 == Log(msg)  i3 == Log(<<NL>>)
              i4 == Show(PanicTag, PANIC_COLOR)  i5 == Show(msg, MSG_COLOR)
              i6 == Show(<<NL>>, WHITE_ON_BLACK)  i7 == Show(HaltedText, HALT_COLOR)
              i8 == Halt
  <1>0. /\ PanikTag \in Seq(Char) /\ PanicTag \in Seq(Char) /\ HaltedText \in Seq(Char)
        /\ <<NL>> \in Seq(Char) /\ Len(<<NL>>) = 1
        /\ {PANIC_COLOR, MSG_COLOR, HALT_COLOR, WHITE_ON_BLACK} \subseteq Color
        /\ Len(PanikTag) \in Nat /\ Len(msg) \in Nat
    BY ConsoleAssumption, VgaAssumption
  <1>1. /\ Len(PanikTag) < LOG_BUF_SIZE /\ Len(msg) < LOG_BUF_SIZE /\ Len(<<NL>>) < LOG_BUF_SIZE
        /\ Len(PanicTag) < LOG_BUF_SIZE /\ Len(HaltedText) < LOG_BUF_SIZE
    BY <1>0, ConsoleAssumption, RingAssumption
  <1>2. \A item \in {i1, i2, i3, i4, i5, i6, i7, i8} :
          /\ item \in Item /\ Len(item.text) < LOG_BUF_SIZE
          /\ item.to = "screen" => item.text \in Seq(Glyph \cup {NL})
          /\ item.to = "halt" => item.text = << >>
    <2>. DEFINE Fine(item) == /\ item \in Item /\ Len(item.text) < LOG_BUF_SIZE
                              /\ item.to = "screen" => item.text \in Seq(Glyph \cup {NL})
                              /\ item.to = "halt" => item.text = << >>
    <2>1. Fine(i1)
      BY <1>0, <1>1, PanikItems
    <2>2. Fine(i2)
      BY <1>0, <1>1, PanikItems
    <2>3. Fine(i3)
      BY <1>0, <1>1, PanikItems
    <2>4. Fine(i4)
      BY <1>0, <1>1, PanikItems
    <2>5. Fine(i5)
      BY <1>0, <1>1, PanikItems
    <2>6. Fine(i6)
      BY <1>0, <1>1, PanikItems
    <2>7. Fine(i7)
      BY <1>0, <1>1, PanikItems
    <2>8. Fine(i8)
      BY <1>0, <1>1, PanikItems
    <2>. HIDE DEF Fine, i1, i2, i3, i4, i5, i6, i7, i8
    <2>9. \A item \in {i1, i2, i3, i4, i5, i6, i7, i8} : Fine(item)
      BY <2>1, <2>2, <2>3, <2>4, <2>5, <2>6, <2>7, <2>8
    <2>. QED  BY <2>9 DEF Fine
  <1>3. /\ i1.to = "log" /\ i2.to = "log" /\ i3.to = "log"
        /\ i4.to = "screen" /\ i5.to = "screen" /\ i6.to = "screen" /\ i7.to = "screen"
        /\ i8.to = "halt"
        /\ i1.text = PanikTag /\ i2.text = msg /\ i3.text = <<NL>>
        /\ i7.color = HALT_COLOR
    BY DEF Log, Show, Halt
  <1>4. i6.text = <<NL>> /\ i7.text = HaltedText
    <2>1. NoNul(<<NL>>)
      BY DEF NoNul, NL, NUL
    <2>2. NoNul(HaltedText)
      <3>. SUFFICES ASSUME NEW k \in 1 .. Len(HaltedText)  PROVE HaltedText[k] # NUL
        BY DEF NoNul
      <3>1. CASE k = Len(HaltedText)
        <4>1. HaltedText[k] = NL
          BY <3>1, ConsoleAssumption
        <4>. QED  BY <4>1 DEF NL, NUL
      <3>2. CASE k \in 1 .. Len(HaltedText) - 1
        BY <3>2, ConsoleAssumption
      <3>3. Len(HaltedText) \in Nat
        BY <1>0
      <3>. QED  BY <3>1, <3>2, <3>3
    <2>3. CString(<<NL>>) = <<NL>> /\ CString(HaltedText) = HaltedText
      BY <1>0, <2>1, <2>2, CStringType
    <2>. QED  BY <2>3 DEF Show
  <1>5. todo' = <<i1, i2, i3, i4, i5, i6, i7, i8>>
    BY DEF PanikWrites
  <1>. HIDE DEF i1, i2, i3, i4, i5, i6, i7, i8
  <1>6. /\ Len(todo') = 8
        /\ todo'[1] = i1 /\ todo'[2] = i2 /\ todo'[3] = i3 /\ todo'[4] = i4
        /\ todo'[5] = i5 /\ todo'[6] = i6 /\ todo'[7] = i7 /\ todo'[8] = i8
    BY <1>5
  <1>7. \A k \in 1 .. 8 : \/ k = 1 \/ k = 2 \/ k = 3 \/ k = 4
                          \/ k = 5 \/ k = 6 \/ k = 7 \/ k = 8
    OBVIOUS
  <1>8. TodoInv'
    <2>1. todo' \in Seq(Item)
      <3>. HIDE DEF Item
      <3>. QED  BY <1>2, <1>5
    <2>2. \A k \in 1 .. Len(todo') : todo'[k] \in {i1, i2, i3, i4, i5, i6, i7, i8}
      BY <1>6, <1>7
    <2>3. ASSUME NEW k \in 1 .. Len(todo')
          PROVE  /\ Len(todo'[k].text) < LOG_BUF_SIZE
                 /\ todo'[k].to = "screen" => todo'[k].text \in Seq(Glyph \cup {NL})
                 /\ todo'[k].to = "halt" => todo'[k].text = << >>
      <3>1. PICK item \in {i1, i2, i3, i4, i5, i6, i7, i8} : todo'[k] = item
        BY <2>2
      <3>. QED  BY <1>2, <3>1
    <2>. QED  BY <2>1, <2>3 DEF TodoInv
  <1>9. KindsInv'
    <2>1. ASSUME NEW k \in 1 .. 8
          PROVE  /\ k <= 8 - 5 => todo'[k].to = "log"
                 /\ k \in 8 - 4 .. 8 - 1 => todo'[k].to = "screen"
                 /\ k = 8 => todo'[k].to = "halt"
      <3>1. /\ k <= 8 - 5 => k = 1 \/ k = 2 \/ k = 3
            /\ k \in 8 - 4 .. 8 - 1 => k = 4 \/ k = 5 \/ k = 6 \/ k = 7
        OBVIOUS
      <3>. QED  BY <1>3, <1>6, <3>1
    <2>. QED  BY <1>6, <2>1 DEF KindsInv
  <1>10. RecordInv'
    <2>1. Len(logged') = 0 /\ RecordLen' = Len(PanikTag) + Len(msg) + 1
      BY DEF RecordLen
    <2>2. ASSUME NEW k \in 1 .. Len(PanikTag)
          PROVE  PanikTag[k] = RecordByte(0 + k)'
      <3>1. 0 + k <= Len(PanikTag) /\ 0 + k = k
        BY <1>0
      <3>. QED  BY <3>1 DEF RecordByte
    <2>3. LogsUpTo(Len(PanikTag))'
      <3>1. todo'[1].text = PanikTag
        BY <1>3, <1>6
      <3>2. \A k \in 1 .. Len(PanikTag) : RecordByte(Len(logged) + k)' = RecordByte(0 + k)'
        BY <2>1 DEF RecordByte, RecordLen
      <3>. QED  BY <1>0, <2>1, <2>2, <3>1, <3>2 DEF LogsUpTo
    <2>4. Len(logged') <= RecordLen'
      BY <1>0, <2>1
    <2>. QED  BY <1>3, <1>6, <2>1, <2>3, <2>4 DEF RecordInv
  <1>11. ScreenInv'
    BY <1>3, <1>4, <1>6 DEF ScreenInv
  <1>. QED  BY <1>8, <1>9, <1>10, <1>11

-----------------------------------------------------------------------------
(* The invariant. *)

\* Every step writes at most one byte to the ring and one to the screen.
LEMMA DeviceStep ==
    ASSUME TodoInv, ConsoleNext
    PROVE  [RingNext]_ringVars /\ [VgaNext]_vgaVars
  <1>1. ASSUME NEW text \in Texts, panik(text)
        PROVE  UNCHANGED <<ringVars, vgaVars>>
    BY <1>1 DEF panik
  <1>2. ASSUME NEW text \in Texts, NEW level \in Levels \cup {NoLevel}, printk(level, text)
        PROVE  UNCHANGED <<ringVars, vgaVars>>
    BY <1>2 DEF printk
  <1>3. ASSUME NEW mode \in {"NORMAL", "TEST"}, set_panik_mode(mode)
        PROVE  UNCHANGED <<ringVars, vgaVars>>
    BY <1>3 DEF set_panik_mode
  <1>4. ASSUME reset_panik_state
        PROVE  UNCHANGED <<ringVars, vgaVars>>
    BY <1>4 DEF reset_panik_state
  <1>5. CASE LogByte
    <2>1. Head(todo) = todo[1] /\ todo[1].text \in Seq(Char) /\ todo[1].text # << >>
      BY <1>5, ByteTaken DEF LogByte
    <2>2. Head(Head(todo).text) \in Char
      BY <2>1
    <2>. QED  BY <1>5, <2>2 DEF LogByte, RingNext
  <1>6. CASE ShowByte
    <2>. DEFINE S == Glyph \cup {NL}  a == todo[1].text
    <2>1. /\ Head(todo) = todo[1] /\ a # << >> /\ todo[1] \in Item /\ todo[1].to = "screen"
          /\ Len(todo) \in Nat /\ Len(todo) >= 1
      BY <1>6, ByteTaken DEF ShowByte
    <2>2. a \in Seq(S)
      <3>1. 1 \in 1 .. Len(todo)
        BY <2>1
      <3>. QED  BY <2>1, <3>1 DEF TodoInv
    <2>3. todo[1].color \in Color
      BY <2>1 DEF Item
    <2>4. Head(a) \in S
      <3>. HIDE DEF S, a
      <3>. QED  BY <2>1, <2>2
    <2>5. VgaNext
      BY <1>6, <2>1, <2>3, <2>4 DEF ShowByte, VgaNext
    <2>. QED  BY <1>6, <2>5 DEF ShowByte
  <1>7. CASE StringDone
    BY <1>7 DEF StringDone
  <1>8. CASE HaltLoop
    BY <1>8 DEF HaltLoop, allVars
  <1>. QED  BY <1>1, <1>2, <1>3, <1>4, <1>5, <1>6, <1>7, <1>8 DEF ConsoleNext, Write

\* What stays when the ring and the history do.
LEMMA LogInvStays ==
    ASSUME LogInv, UNCHANGED ringVars, logged' = logged
    PROVE  LogInv'
  BY DEF LogInv, Contents, Held, ringVars

\* The parts that speak of the strings to write, when none is written.
LEMMA CallStays ==
    ASSUME PrintkInv, TodoInv, todo' = todo, calling' = calling, logged' = logged, shown' = shown
    PROVE  PrintkInv' /\ TodoInv'
  BY DEF PrintkInv, LogsPrefix, ShowsPrefix, LogsText, ShowsText, Follows, NoNul, TodoInv

\* An idle kernel is not halting.
LEMMA IdleParts ==
    ASSUME todo' = << >>
    PROVE  ~Halting' /\ KindsInv' /\ RecordInv' /\ ScreenInv'
  <1>1. Len(todo') = 0
    OBVIOUS
  <1>2. ~Halting'
    BY <1>1 DEF Halting
  <1>. QED  BY <1>2 DEF KindsInv, RecordInv, ScreenInv

\* Every step of the console keeps the invariant.
LEMMA ConsoleInvStep ==
    ASSUME ConsoleInv, [ConsoleNext]_allVars
    PROVE  ConsoleInv'
  <1>0. /\ RingTypeOK /\ VgaInv /\ TodoInv /\ PanikTypeInv
        /\ LogInv /\ PrintkInv /\ KindsInv /\ RecordInv /\ ScreenInv
    BY DEF ConsoleInv
  <1>a. CASE UNCHANGED allVars
    <2>1. /\ UNCHANGED <<todo, panik_mode, panik_called, last_panik_msg, calling, logged, shown>>
          /\ UNCHANGED ringVars /\ UNCHANGED vgaVars
      BY <1>a DEF allVars, consoleVars, panikVars
    <2>2. RingTypeOK' /\ VgaInv'
      BY <1>0, <2>1, RingTypeStep, VgaInvStep
    <2>3. TodoInv' /\ PrintkInv' /\ LogInv'
      BY <1>0, <2>1, CallStays, LogInvStays
    <2>4. PanikTypeInv'
      BY <1>0, <2>1 DEF PanikTypeInv
    <2>5. vga' = vga /\ cursor_row' = cursor_row /\ cursor_col' = cursor_col
      BY <2>1 DEF vgaVars
    <2>6. KindsInv' /\ RecordInv'
      BY <1>0, <2>1 DEF KindsInv, RecordInv, Halting, LogsUpTo, RecordByte, RecordLen
    <2>7. ScreenInv'
      BY <1>0, <2>1, <2>5 DEF ScreenInv, Halting, HaltShows, HaltShown
    <2>. QED  BY <2>2, <2>3, <2>4, <2>6, <2>7 DEF ConsoleInv
  <1>. SUFFICES ASSUME ConsoleNext  PROVE ConsoleInv'
    BY <1>a
  <1>1. RingTypeOK' /\ VgaInv'
    BY <1>0, DeviceStep, RingTypeStep, VgaInvStep
  <1>2. ASSUME NEW text \in Texts, NEW level \in Levels \cup {NoLevel}, printk(level, text)
        PROVE  ConsoleInv'
    <2>1. /\ todo' = PrintkWrites(level, text) /\ logged' = << >> /\ shown' = << >>
          /\ UNCHANGED panikVars
      BY <1>2 DEF printk, Begin
    <2>2. text \in Seq(Char)
      BY ConsoleAssumption
    <2>3. TodoInv' /\ ~Halting' /\ (LogsPrefix \/ LogsText)'
      BY <2>1, <2>2, PrintkBegins
    <2>4. PanikTypeInv'
      BY <1>0, <2>1 DEF PanikTypeInv, panikVars
    <2>5. LogInv'
      BY <1>1, <2>1, LogInvEmptyNext
    <2>6. PrintkInv' /\ KindsInv' /\ RecordInv' /\ ScreenInv'
      BY <2>3 DEF PrintkInv, KindsInv, RecordInv, ScreenInv
    <2>. QED  BY <1>1, <2>3, <2>4, <2>5, <2>6 DEF ConsoleInv
  <1>3. ASSUME NEW text \in Texts, panik(text)
        PROVE  ConsoleInv'
    <2>. DEFINE msg == Formatted(text, PANIK_MSG_SIZE)
                line == TestTag \o CString(msg) \o <<NL>>
    <2>1. msg \in Seq(Char) /\ Len(msg) < PANIK_MSG_SIZE
      BY FormattedType, ConsoleAssumption
    <2>2. /\ panik_called' = TRUE /\ last_panik_msg' = msg /\ panik_mode' = panik_mode
          /\ logged' = << >> /\ shown' = << >> /\ calling' = "panik"
          /\ todo' = IF panik_mode = "TEST" THEN PrintkWrites(EMERG, line) ELSE PanikWrites(msg)
      BY <1>3 DEF panik, Begin
    <2>. HIDE DEF msg
    <2>3. PanikTypeInv' /\ PrintkInv' /\ LogInv'
      <3>1. PanikTypeInv'
        BY <1>0, <2>1, <2>2 DEF PanikTypeInv
      <3>2. PrintkInv'
        BY <2>2 DEF PrintkInv
      <3>3. LogInv'
        BY <1>1, <2>2, LogInvEmptyNext
      <3>. QED  BY <3>1, <3>2, <3>3
    <2>4. CASE panik_mode = "TEST"
      <3>1. line \in Seq(Char) /\ EMERG \in Levels \cup {NoLevel}
        <4>1. TestTag \in Seq(Char) /\ CString(msg) \in Seq(Char) /\ NL \in Char
          BY <2>1, ConsoleAssumption, CStringType
        <4>. QED  BY <4>1, ConsoleAssumption
      <3>. HIDE DEF line
      <3>2. TodoInv' /\ ~Halting'
        BY <2>2, <2>4, <3>1, PrintkBegins
      <3>3. KindsInv' /\ RecordInv' /\ ScreenInv'
        BY <3>2 DEF KindsInv, RecordInv, ScreenInv
      <3>. QED  BY <1>1, <2>3, <3>2, <3>3 DEF ConsoleInv
    <2>5. CASE panik_mode # "TEST"
      <3>1. TodoInv' /\ KindsInv' /\ RecordInv' /\ ScreenInv'
        BY <2>1, <2>2, <2>5, PanikBegins
      <3>. QED  BY <1>1, <2>3, <3>1 DEF ConsoleInv
    <2>. QED  BY <2>4, <2>5
  <1>4. ASSUME NEW mode \in {"NORMAL", "TEST"}, set_panik_mode(mode)
        PROVE  ConsoleInv'
    <2>1. /\ panik_mode' = mode /\ todo = << >> /\ UNCHANGED ringVars
          /\ UNCHANGED <<todo, panik_called, last_panik_msg, calling, logged, shown>>
      BY <1>4 DEF set_panik_mode, Idle
    <2>2. PanikTypeInv'
      BY <1>0, <2>1 DEF PanikTypeInv
    <2>3. TodoInv' /\ PrintkInv' /\ LogInv'
      BY <1>0, <2>1, CallStays, LogInvStays
    <2>4. KindsInv' /\ RecordInv' /\ ScreenInv'
      BY <2>1, IdleParts
    <2>. QED  BY <1>1, <2>2, <2>3, <2>4 DEF ConsoleInv
  <1>5. CASE reset_panik_state
    <2>1. /\ panik_called' = FALSE /\ last_panik_msg' = << >> /\ todo = << >>
          /\ UNCHANGED ringVars /\ UNCHANGED <<todo, panik_mode, calling, logged, shown>>
      BY <1>5 DEF reset_panik_state, Idle
    <2>2. PanikTypeInv'
      <3>1. << >> \in Seq(Char) /\ Len(<< >>) = 0 /\ 0 < PANIK_MSG_SIZE
        BY ConsoleAssumption
      <3>2. last_panik_msg' \in Seq(Char) /\ Len(last_panik_msg') < PANIK_MSG_SIZE
        BY <2>1, <3>1
      <3>. QED  BY <1>0, <2>1, <3>2 DEF PanikTypeInv
    <2>3. TodoInv' /\ PrintkInv' /\ LogInv'
      BY <1>0, <2>1, CallStays, LogInvStays
    <2>4. KindsInv' /\ RecordInv' /\ ScreenInv'
      BY <2>1, IdleParts
    <2>. QED  BY <1>1, <2>2, <2>3, <2>4 DEF ConsoleInv
  <1>6. CASE LogByte
    <2>1. /\ TodoInv' /\ Head(todo) = todo[1]
          /\ todo[1].text \in Seq(Char) /\ todo[1].text # << >>
      BY <1>0, <1>6, ByteTaken DEF LogByte
    <2>. DEFINE ch == Head(todo[1].text)
    <2>2. ch \in Char
      BY <2>1
    <2>3. /\ ringbuf_putc(ch) /\ logged' = Append(logged, ch)
          /\ UNCHANGED panikVars /\ shown' = shown
      BY <1>6, <2>1 DEF LogByte
    <2>. HIDE DEF ch
    <2>4. PanikTypeInv'
      BY <1>0, <2>2, <2>3 DEF PanikTypeInv, panikVars
    <2>5. LogInv'
      BY <1>0, <1>1, <2>2, <2>3, LogInvStep DEF PanikTypeInv
    <2>6. PrintkInv' /\ KindsInv' /\ RecordInv' /\ ScreenInv'
      BY <1>0, <1>6, LogBytePrintk, LogByteHalting
    <2>. QED  BY <1>1, <2>1, <2>4, <2>5, <2>6 DEF ConsoleInv
  <1>7. CASE ShowByte
    <2>1. /\ TodoInv' /\ Head(todo) = todo[1]
          /\ todo[1].text \in Seq(Char) /\ todo[1].text # << >>
      BY <1>0, <1>7, ByteTaken DEF ShowByte
    <2>. DEFINE ch == Head(todo[1].text)
    <2>2. ch \in Char
      BY <2>1
    <2>3. /\ shown' = Append(shown, ch) /\ logged' = logged
          /\ UNCHANGED panikVars /\ UNCHANGED ringVars
      BY <1>7, <2>1 DEF ShowByte
    <2>. HIDE DEF ch
    <2>4. PanikTypeInv'
      BY <1>0, <2>2, <2>3 DEF PanikTypeInv, panikVars
    <2>5. LogInv'
      BY <1>0, <2>3, LogInvStays
    <2>6. PrintkInv' /\ KindsInv' /\ RecordInv' /\ ScreenInv'
      BY <1>0, <1>7, ShowBytePrintk, ShowByteHalting
    <2>. QED  BY <1>1, <2>1, <2>4, <2>5, <2>6 DEF ConsoleInv
  <1>8. CASE StringDone
    <2>1. TodoInv'
      BY <1>0, <1>8, StringTaken DEF StringDone
    <2>2. UNCHANGED ringVars /\ UNCHANGED panikVars /\ logged' = logged /\ shown' = shown
      BY <1>8 DEF StringDone
    <2>3. PanikTypeInv'
      BY <1>0, <2>2 DEF PanikTypeInv, panikVars
    <2>4. LogInv'
      BY <1>0, <2>2, LogInvStays
    <2>5. PrintkInv' /\ KindsInv' /\ RecordInv' /\ ScreenInv'
      BY <1>0, <1>8, StringDonePrintk, StringDoneHalting
    <2>. QED  BY <1>1, <2>1, <2>3, <2>4, <2>5 DEF ConsoleInv
  <1>9. CASE HaltLoop
    BY <1>a, <1>9 DEF HaltLoop
  <1>. QED  BY <1>2, <1>3, <1>4, <1>5, <1>6, <1>7, <1>8, <1>9 DEF ConsoleNext, Write

\* The console starts idle, with an empty log and a cleared screen.
LEMMA ConsoleInvInit ==
    ASSUME ConsoleInit
    PROVE  ConsoleInv
  <1>1. RingTypeOK /\ VgaInv
    BY RingStartsEmpty, VgaInvInit DEF ConsoleInit
  <1>2. /\ todo = << >> /\ Len(todo) = 0 /\ calling = "none"
        /\ logged = << >> /\ shown = << >> /\ last_panik_msg = << >>
        /\ panik_mode = "NORMAL" /\ panik_called = FALSE
    BY DEF ConsoleInit
  <1>3. TodoInv
    BY <1>2 DEF TodoInv
  <1>4. PanikTypeInv
    <2>1. << >> \in Seq(Char) /\ Len(<< >>) = 0 /\ 0 < PANIK_MSG_SIZE
      BY ConsoleAssumption
    <2>2. /\ last_panik_msg \in Seq(Char) /\ Len(last_panik_msg) < PANIK_MSG_SIZE
          /\ logged \in Seq(Char) /\ shown \in Seq(Char)
      BY <1>2, <2>1
    <2>. QED  BY <1>2, <2>2 DEF PanikTypeInv
  <1>5. LogInv
    BY <1>1, <1>2, LogInvEmpty
  <1>6. PrintkInv
    BY <1>2 DEF PrintkInv
  <1>7. ~Halting
    BY <1>2 DEF Halting
  <1>. QED  BY <1>1, <1>3, <1>4, <1>5, <1>6, <1>7 DEF ConsoleInv, KindsInv, RecordInv, ScreenInv

-----------------------------------------------------------------------------
(* The theorems. *)

\* The inductive invariant of printk, vprintk and panik.
THEOREM ConsoleInvHolds == ConsoleSpec => []ConsoleInv
  BY ConsoleInvInit, ConsoleInvStep, PTL DEF ConsoleSpec

\* No string of printk or panik fills the buffer it was formatted into, and
\* no write to the screen leaves video memory.
THEOREM ConsoleTypeCorrect == ConsoleSpec => []ConsoleTypeOK
  <1>1. ConsoleInv => ConsoleTypeOK
    BY DEF ConsoleInv, ConsoleTypeOK, TodoInv, PanikTypeInv, VgaInv
  <1>. QED  BY <1>1, ConsoleInvHolds, PTL

\* The invariant on the log is CallIsLogged.
LEMMA LogInvMeaning ==
    ASSUME RingTypeOK, logged \in Seq(Char), LogInv
    PROVE  CallIsLogged
  <1>. DEFINE S == Char \cup {NUL}  N == LOG_BUF_SIZE
              recent == LastBytes(logged, N - 1)
              last == LastBytes(Contents, Len(recent))
  <1>1. Contents \in Seq(S) /\ logged \in Seq(S) /\ N - 1 \in Nat
    <2>1. Contents \in Seq(S) /\ N - 1 \in Nat
      BY ContentsType, RingAssumption
    <2>2. \A k \in 1 .. Len(logged) : logged[k] \in S
      OBVIOUS
    <2>. HIDE DEF S
    <2>3. logged \in Seq(S)
      BY <2>2
    <2>. QED  BY <2>1, <2>3
  <1>. HIDE DEF S
  <1>2. /\ recent \in Seq(S)
        /\ Len(recent) = IF Len(logged) <= N - 1 THEN Len(logged) ELSE N - 1
        /\ \A k \in 1 .. Len(recent) : recent[k] = logged[Len(logged) - Len(recent) + k]
    BY <1>1, LastBytesValue
  <1>3. Len(recent) = Kept(logged) /\ Len(recent) \in Nat
    <2>1. Len(logged) \in Nat /\ N \in Nat
      BY <1>1, RingAssumption
    <2>. QED  BY <1>2, <2>1, RingAssumption DEF Kept
  <1>. HIDE DEF recent
  <1>4. /\ last \in Seq(S)
        /\ Len(last) = IF Len(Contents) <= Len(recent) THEN Len(Contents) ELSE Len(recent)
        /\ \A k \in 1 .. Len(last) : last[k] = Contents[Len(Contents) - Len(last) + k]
    BY <1>1, <1>3, LastBytesValue
  <1>5. /\ Len(recent) <= Len(Contents)
        /\ \A k \in 1 .. Len(recent) :
             Contents[Len(Contents) - Len(recent) + k] = logged[Len(logged) - Len(recent) + k]
    BY <1>3 DEF LogInv, EndsWith
  <1>6. Len(last) = Len(recent)
    <2>1. Len(Contents) \in Nat
      BY <1>1
    <2>. QED  BY <1>3, <1>4, <1>5, <2>1
  <1>. HIDE DEF last
  <1>7. \A k \in 1 .. Len(last) : last[k] = recent[k]
    BY <1>2, <1>4, <1>5, <1>6
  <1>8. last = recent
    BY <1>2, <1>4, <1>6, <1>7, SeqEqual
  <1>. QED  BY <1>8 DEF CallIsLogged, last, recent

\* At every moment the log ends with what the running call has logged: a
\* prefix and its text are one piece, and wrapping loses only what is older.
THEOREM CallLogged == ConsoleSpec => []CallIsLogged
  <1>1. ConsoleInv => CallIsLogged
    BY LogInvMeaning DEF ConsoleInv, PanikTypeInv
  <1>. QED  BY <1>1, ConsoleInvHolds, PTL

\* printk never shows what it has not logged before.
THEOREM LogLeads == ConsoleSpec => []LogAheadOfScreen
  <1>1. ConsoleInv => LogAheadOfScreen
    <2>. SUFFICES ASSUME ConsoleInv, calling = "printk", NoNul(logged)
                  PROVE  Len(shown) <= Len(logged) /\ shown = SubSeq(logged, 1, Len(shown))
      BY DEF LogAheadOfScreen, NoNul
    <2>1. /\ logged \in Seq(Char) /\ shown \in Seq(Char)
          /\ Len(shown) \in Nat /\ Len(logged) \in Nat
      BY DEF ConsoleInv, PanikTypeInv
    <2>2. LogsPrefix \/ ShowsPrefix \/ LogsText \/ ShowsText
      BY DEF ConsoleInv, PrintkInv
    <2>3. /\ Len(shown) <= Len(logged)
          /\ \A k \in 1 .. Len(shown) : shown[k] = logged[k]
      <3>1. CASE LogsPrefix
        <4>1. Len(shown) = 0
          BY <3>1 DEF LogsPrefix
        <4>. QED  BY <2>1, <4>1
      <3>2. CASE ShowsPrefix \/ ShowsText
        <4>1. Follows(shown, 0, todo[1].text, logged)
          BY <3>2 DEF ShowsPrefix, ShowsText
        <4>2. todo[1].text \in Seq(Char)
          <5>1. 1 \in 1 .. Len(todo)
            BY <3>2 DEF ShowsPrefix, ShowsText
          <5>2. todo[1] \in Item
            <6>. HIDE DEF Item
            <6>. QED  BY <5>1 DEF ConsoleInv, TodoInv
          <5>. QED  BY <5>2 DEF Item
        <4>3. Len(logged) = Len(shown) - 0 + Len(todo[1].text) /\ Len(todo[1].text) \in Nat
          BY <4>1, <4>2 DEF Follows
        <4>4. \A k \in 1 .. Len(shown) - 0 : logged[k] = shown[0 + k]
          BY <4>1 DEF Follows
        <4>5. Len(shown) - 0 = Len(shown) /\ \A k \in 1 .. Len(shown) : 0 + k = k
          BY <2>1
        <4>6. Len(shown) <= Len(logged)
          BY <2>1, <4>3
        <4>. QED  BY <4>4, <4>5, <4>6
      <3>3. CASE LogsText
        BY <3>3 DEF LogsText
      <3>. QED  BY <2>2, <3>1, <3>2, <3>3
    <2>4. /\ SubSeq(logged, 1, Len(shown)) \in Seq(Char)
          /\ Len(SubSeq(logged, 1, Len(shown))) = Len(shown)
          /\ \A k \in 1 .. Len(shown) : SubSeq(logged, 1, Len(shown))[k] = logged[k]
      <3>. DEFINE n == Len(shown)
      <3>1. n \in Int /\ 1 <= n + 1 /\ n <= Len(logged) /\ 1 \in Int
        BY <2>1, <2>3
      <3>. HIDE DEF n
      <3>2. /\ SubSeq(logged, 1, n) \in Seq(Char)
            /\ Len(SubSeq(logged, 1, n)) = n - 1 + 1
            /\ \A k \in 1 .. n - 1 + 1 : SubSeq(logged, 1, n)[k] = logged[1 + k - 1]
        BY <2>1, <3>1, SubSeqValue
      <3>3. n - 1 + 1 = n /\ \A k \in 1 .. n : 1 + k - 1 = k
        BY <3>1
      <3>. QED  BY <3>2, <3>3 DEF n
    <2>5. shown = SubSeq(logged, 1, Len(shown))
      <3>. DEFINE t == SubSeq(logged, 1, Len(shown))
      <3>1. t \in Seq(Char) /\ Len(t) = Len(shown) /\ \A k \in 1 .. Len(shown) : shown[k] = t[k]
        BY <2>3, <2>4
      <3>. HIDE DEF t
      <3>2. shown = t
        BY <2>1, <3>1, SeqEqual
      <3>. QED  BY <3>2 DEF t
    <2>. QED  BY <2>3, <2>5
  <1>. QED  BY <1>1, ConsoleInvHolds, PTL

\* A panik that halts leaves its whole record at the end of the log and its
\* last message on the line above the cursor.
THEOREM PanikOnRecord == ConsoleSpec => []PanikRecorded
  <1>1. ConsoleInv => PanikRecorded
    <2>. DEFINE record == PanikTag \o last_panik_msg \o <<NL>>
    <2>. SUFFICES ASSUME ConsoleInv, Halted
                  PROVE  /\ LastBytes(Contents, Len(record)) = record
                         /\ HaltShown
      BY DEF PanikRecorded, HaltShown, HaltCell
    <2>1. Halting /\ Len(todo) = 1
      <3>1. /\ todo \in Seq(Item) /\ Len(todo) \in Nat /\ Len(todo) >= 1
            /\ Head(todo) = todo[1] /\ todo[1].to = "halt"
        <4>. HIDE DEF Item
        <4>. QED  BY DEF ConsoleInv, TodoInv, Halted, Idle
      <3>2. 1 \in 1 .. Len(todo)
        BY <3>1
      <3>3. Halting
        BY <3>1, <3>2 DEF Halting
      <3>. DEFINE n == Len(todo)
      <3>4. n \in 1 .. 8
        BY <3>3 DEF ConsoleInv, KindsInv
      <3>5. ~(1 <= n - 5) /\ ~(1 \in n - 4 .. n - 1)
        BY <3>1, <3>2, <3>3 DEF ConsoleInv, KindsInv
      <3>6. n = 1
        <4>. HIDE DEF n
        <4>. QED  BY <3>4, <3>5
      <3>. QED  BY <3>3, <3>6
    <2>2. HaltShown
      BY <2>1 DEF ConsoleInv, ScreenInv
    <2>3. /\ Len(logged) = RecordLen
          /\ \A k \in 1 .. Len(logged) : logged[k] = RecordByte(k)
      BY <2>1 DEF ConsoleInv, RecordInv
    <2>4. /\ PanikTag \in Seq(Char) /\ last_panik_msg \in Seq(Char) /\ <<NL>> \in Seq(Char)
          /\ Len(PanikTag) \in Nat /\ Len(last_panik_msg) \in Nat /\ Len(<<NL>>) = 1
          /\ <<NL>>[1] = NL
          /\ logged \in Seq(Char) /\ Len(last_panik_msg) < PANIK_MSG_SIZE
      BY ConsoleAssumption DEF ConsoleInv, PanikTypeInv
    <2>5. record \in Seq(Char) /\ Len(record) = RecordLen
          /\ \A k \in 1 .. RecordLen : record[k] = RecordByte(k)
      <3>. DEFINE p == PanikTag  m == last_panik_msg  q == <<NL>>  pm == p \o m
      <3>1. /\ p \in Seq(Char) /\ m \in Seq(Char) /\ q \in Seq(Char)
            /\ Len(p) \in Nat /\ Len(m) \in Nat /\ Len(q) = 1 /\ q[1] = NL
        BY <2>4
      <3>. HIDE DEF q, p, m
      <3>2. /\ pm \in Seq(Char) /\ Len(pm) = Len(p) + Len(m)
            /\ \A k \in 1 .. Len(p) + Len(m) :
                 pm[k] = IF k <= Len(p) THEN p[k] ELSE m[k - Len(p)]
        BY <3>1, ConcatProperties
      <3>. HIDE DEF pm
      <3>3. /\ pm \o q \in Seq(Char) /\ Len(pm \o q) = Len(pm) + Len(q)
            /\ \A k \in 1 .. Len(pm) + Len(q) :
                 (pm \o q)[k] = IF k <= Len(pm) THEN pm[k] ELSE q[k - Len(pm)]
        <4>1. pm \in Seq(Char) /\ q \in Seq(Char)
          BY <3>1, <3>2
        <4>. QED  BY ONLY <4>1, ConcatProperties
      <3>4. record = pm \o q
        BY DEF pm, p, m, q
      <3>5. RecordLen = Len(p) + Len(m) + 1 /\ Len(pm) + Len(q) = RecordLen
        BY <3>1, <3>2 DEF RecordLen, p, m
      <3>. HIDE DEF record
      <3>6. ASSUME NEW k \in 1 .. RecordLen  PROVE record[k] = RecordByte(k)
        <4>1. k \in 1 .. Len(pm) + Len(q)
          BY <3>5
        <4>2. record[k] = IF k <= Len(pm) THEN pm[k] ELSE q[k - Len(pm)]
          BY <3>3, <3>4, <4>1
        <4>3. CASE k <= Len(p) + Len(m)
          <5>1. k \in 1 .. Len(p) + Len(m) /\ k <= Len(pm) /\ k < RecordLen
            BY <3>1, <3>2, <3>5, <4>3
          <5>. QED  BY <3>2, <4>2, <5>1 DEF RecordByte, p, m
        <4>4. CASE k = RecordLen
          <5>1. ~(k <= Len(pm)) /\ k - Len(pm) = 1 /\ ~(k <= Len(p)) /\ ~(k < RecordLen)
            BY <3>1, <3>2, <3>5, <4>4
          <5>. QED  BY <3>1, <4>2, <5>1 DEF RecordByte, p
        <4>. QED  BY <3>1, <3>5, <4>3, <4>4
      <3>. QED  BY <3>3, <3>4, <3>5, <3>6
    <2>. HIDE DEF record
    <2>6. record = logged
      BY <2>3, <2>4, <2>5, SeqEqual
    <2>7. LastBytes(logged, LOG_BUF_SIZE - 1) = logged
      <3>1. Len(logged) <= LOG_BUF_SIZE - 1
        BY <2>3, <2>4, ConsoleAssumption, RingAssumption DEF RecordLen
      <3>. QED  BY <3>1 DEF LastBytes
    <2>8. CallIsLogged
      BY <2>4, LogInvMeaning DEF ConsoleInv
    <2>. QED  BY <2>2, <2>6, <2>7, <2>8 DEF CallIsLogged
  <1>. QED  BY <1>1, ConsoleInvHolds, PTL

\* Whatever printk and panik do, the log keeps the most recent LOG_BUF_SIZE - 1
\* bytes written to it.
THEOREM ConsoleImplementsLog == ConsoleSpec => ImplementsBoundedLog
  <1>1. ConsoleInit => BL!Init
    BY RingStartsEmpty DEF ConsoleInit, BL!Init
  <1>2. ConsoleInv /\ ConsoleInv' /\ [ConsoleNext]_allVars => [BL!Next]_Contents
    <2>. SUFFICES ASSUME ConsoleInv, ConsoleInv', [ConsoleNext]_allVars
                  PROVE  [BL!Next]_Contents
      OBVIOUS
    <2>1. RingTypeOK /\ RingTypeOK' /\ TodoInv
      BY DEF ConsoleInv
    <2>2. [RingNext]_ringVars
      BY <2>1, DeviceStep DEF allVars
    <2>. QED  BY <2>1, <2>2, RingRefines
  <1>. QED  BY <1>1, <1>2, ConsoleInvHolds, PTL
            DEF ConsoleSpec, ImplementsBoundedLog, BL!Spec

=============================================================================
