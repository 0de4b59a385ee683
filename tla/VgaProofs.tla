------------------------------ MODULE VgaProofs ------------------------------
(***************************************************************************)
(* The text driver of vga.c never writes outside video memory nor over     *)
(* text, and its flat array implements the scrolling teletype of Terminal, *)
(* for every screen size.                                                  *)
(***************************************************************************)
EXTENDS Vga, TLAPS

Cell == [ch : Glyph \cup {SPACE}, color : Color]

\* The first n rows of video memory v, as Terminal sees them.
Screen(v, n) ==
    [r \in 1 .. n |-> [c \in 0 .. VGA_WIDTH - 1 |-> v[Offset(r - 1, c)]]]

\* The text printed so far ends at the cursor.
VgaInv == VgaTypeOK /\ NothingOverprinted

-----------------------------------------------------------------------------
(* Offsets.  Only these lemmas multiply. *)

\* The product of a smaller number of rows is smaller.
LEMMA RowsBelow ==
    ASSUME NEW w \in Nat, NEW a \in Nat, NEW b \in Nat, a < b
    PROVE  a * w + w <= b * w
  <1>1. PICK d \in Nat : b = a + 1 + d
    <2>1. b - a - 1 \in Nat /\ b = a + 1 + (b - a - 1)
      OBVIOUS
    <2>. QED  BY <2>1
  <1>2. b * w = a * w + w + d * w
    BY <1>1
  <1>3. d * w \in Nat /\ a * w \in Nat
    OBVIOUS
  <1>. QED  BY <1>2, <1>3

\* A place on the screen is a cell of video memory.
LEMMA OffsetInCells ==
    ASSUME NEW r \in 0 .. VGA_HEIGHT - 1, NEW c \in 0 .. VGA_WIDTH - 1
    PROVE  Offset(r, c) \in Cells
  <1>1. VGA_WIDTH \in Nat /\ VGA_HEIGHT \in Nat /\ r \in Nat /\ r < VGA_HEIGHT
    BY VgaAssumption
  <1>2. r * VGA_WIDTH + VGA_WIDTH <= VGA_HEIGHT * VGA_WIDTH
    BY <1>1, RowsBelow
  <1>3. /\ VGA_HEIGHT * VGA_WIDTH = VGA_WIDTH * VGA_HEIGHT
        /\ r * VGA_WIDTH \in Nat /\ VGA_WIDTH * VGA_HEIGHT \in Nat
    BY <1>1
  <1>. QED  BY <1>1, <1>2, <1>3 DEF Offset, Cells

\* Offsets are numbers, a row further is a width further, and a later row
\* starts after an earlier one has ended.
LEMMA OffsetOrder ==
    ASSUME NEW r \in Nat, NEW c \in 0 .. VGA_WIDTH - 1
    PROVE  /\ Offset(r, c) \in Nat /\ Offset(r, c) = Offset(r, 0) + c
           /\ Offset(r + 1, c) = Offset(r, c) + VGA_WIDTH
           /\ \A q \in Nat : r < q => Offset(q, 0) \in Nat /\ Offset(r, 0) + VGA_WIDTH <= Offset(q, 0)
  <1>1. VGA_WIDTH \in Nat \ {0} /\ r * VGA_WIDTH \in Nat /\ c \in Nat
    BY VgaAssumption
  <1>2. (r + 1) * VGA_WIDTH = r * VGA_WIDTH + VGA_WIDTH
    BY <1>1
  <1>3. \A q \in Nat : q * VGA_WIDTH \in Nat
    BY <1>1
  <1>4. \A q \in Nat : r < q => r * VGA_WIDTH + VGA_WIDTH <= q * VGA_WIDTH
    BY <1>1, RowsBelow
  <1>. QED  BY <1>1, <1>2, <1>3, <1>4 DEF Offset

\* Different places have different offsets.
LEMMA OffsetInjective ==
    ASSUME NEW r \in Nat, NEW c \in 0 .. VGA_WIDTH - 1,
           NEW q \in Nat, NEW d \in 0 .. VGA_WIDTH - 1,
           Offset(r, c) = Offset(q, d)
    PROVE  r = q /\ c = d
  <1>. DEFINE A == Offset(r, 0)  B == Offset(q, 0)  W == VGA_WIDTH
  <1>1. W \in Nat \ {0} /\ A \in Nat /\ B \in Nat
    <2>1. 0 \in 0 .. VGA_WIDTH - 1 /\ VGA_WIDTH \in Nat \ {0}
      BY VgaAssumption
    <2>. QED  BY <2>1, OffsetOrder
  <1>2. A + c = B + d
    <2>1. Offset(r, c) = A + c
      BY OffsetOrder
    <2>2. Offset(q, d) = B + d
      BY OffsetOrder
    <2>. QED  BY <2>1, <2>2
  <1>3. (r < q => A + W <= B) /\ (q < r => B + W <= A) /\ (r = q => A = B)
    BY OffsetOrder
  <1>4. c \in 0 .. W - 1 /\ d \in 0 .. W - 1
    OBVIOUS
  <1>. HIDE DEF A, B, W
  <1>5. r = q
    BY <1>1, <1>2, <1>3, <1>4
  <1>. QED  BY <1>1, <1>2, <1>3, <1>4, <1>5

\* The row below a place is on the screen unless it is on the last row.
LEMMA OffsetBelow ==
    ASSUME NEW r \in 0 .. VGA_HEIGHT - 1, NEW c \in 0 .. VGA_WIDTH - 1
    PROVE  /\ Offset(r, c) + VGA_WIDTH = Offset(r + 1, c)
           /\ Offset(r, c) + VGA_WIDTH \in Cells <=> r < VGA_HEIGHT - 1
  <1>1. VGA_WIDTH \in Nat \ {0} /\ VGA_HEIGHT \in Nat \ {0} /\ r \in Nat
    BY VgaAssumption
  <1>2. Offset(r, c) + VGA_WIDTH = Offset(r + 1, c)
    BY <1>1, OffsetOrder
  <1>3. CASE r < VGA_HEIGHT - 1
    <2>1. r + 1 \in 0 .. VGA_HEIGHT - 1
      BY <1>1, <1>3
    <2>. QED  BY <1>2, <1>3, <2>1, OffsetInCells
  <1>4. CASE r = VGA_HEIGHT - 1
    <2>1. Offset(r + 1, c) = VGA_WIDTH * VGA_HEIGHT + c
      BY <1>1, <1>4 DEF Offset
    <2>2. VGA_WIDTH * VGA_HEIGHT \in Nat /\ c \in Nat
      BY <1>1
    <2>. QED  BY <1>2, <1>4, <2>1, <2>2, <1>1 DEF Cells
  <1>. QED  BY <1>1, <1>3, <1>4

-----------------------------------------------------------------------------
(* The invariant. *)

\* What vga_clear_screen writes is a cell.
LEMMA BlankIsCell == Blank \in Cell
  BY VgaAssumption DEF Blank, Cell

\* Scrolling keeps video memory an array of cells and blanks the last row.
LEMMA ScrolledType ==
    ASSUME NEW v \in [Cells -> Cell]
    PROVE  /\ ScrolledUp(v) \in [Cells -> Cell]
           /\ \A o \in Cells : o >= Offset(VGA_HEIGHT - 1, 0) => ScrolledUp(v)[o] = Blank
  <1>1. ScrolledUp(v) \in [Cells -> Cell]
    BY BlankIsCell DEF ScrolledUp
  <1>2. ASSUME NEW o \in Cells, o >= Offset(VGA_HEIGHT - 1, 0)
        PROVE  ScrolledUp(v)[o] = Blank
    <2>1. VGA_HEIGHT - 1 \in 0 .. VGA_HEIGHT - 1 /\ 0 \in 0 .. VGA_WIDTH - 1
      BY VgaAssumption
    <2>2. /\ Offset(VGA_HEIGHT - 1, 0) \in Cells
          /\ Offset(VGA_HEIGHT - 1, 0) + VGA_WIDTH \notin Cells
      BY <2>1, OffsetInCells, OffsetBelow, VgaAssumption
    <2>3. VGA_WIDTH \in Nat /\ VGA_WIDTH * VGA_HEIGHT \in Nat
      BY VgaAssumption
    <2>4. o + VGA_WIDTH \notin Cells
      BY <1>2, <2>2, <2>3 DEF Cells
    <2>. QED  BY <2>4 DEF ScrolledUp
  <1>. QED  BY <1>1, <1>2

\* The CRTC registers receive a byte each.
LEMMA MoveCursorType ==
    ASSUME cursor_row' \in 0 .. VGA_HEIGHT - 1, cursor_col' \in 0 .. VGA_WIDTH - 1,
           vga_move_cursor
    PROVE  crtc_low' \in 0 .. BYTE - 1 /\ crtc_high' \in 0 .. BYTE - 1
  <1>. DEFINE pos == Offset(cursor_row', cursor_col')
  <1>1. pos \in Nat
    BY OffsetInCells, VgaAssumption DEF Cells
  <1>2. BYTE \in Nat \ {0}
    BY VgaAssumption
  <1>3. crtc_low' = pos % BYTE /\ crtc_high' = (pos \div BYTE) % BYTE
    BY DEF vga_move_cursor
  <1>. HIDE DEF pos
  <1>4. pos \div BYTE \in Int
    BY <1>1, <1>2
  <1>. QED  BY <1>1, <1>2, <1>3, <1>4

\* What vga_print_char does to the screen and the cursor, case by case: the
\* line goes on; a new line starts below; the screen scrolls.
LEMMA PrintCharCases ==
    ASSUME VgaTypeOK, NEW ch \in Glyph \cup {NL}, NEW color \in Color,
           vga_print_char(ch, color),
           NEW written, written = IF ch = NL THEN vga
                         ELSE [vga EXCEPT ![Offset(cursor_row, cursor_col)] =
                                 [ch |-> ch, color |-> color]]
    PROVE  /\ written \in [Cells -> Cell]
           /\ \/ /\ ch # NL /\ cursor_col + 1 < VGA_WIDTH
                 /\ vga' = written
                 /\ cursor_row' = cursor_row /\ cursor_col' = cursor_col + 1
              \/ /\ ch = NL \/ cursor_col + 1 = VGA_WIDTH
                 /\ cursor_row + 1 < VGA_HEIGHT
                 /\ vga' = written
                 /\ cursor_row' = cursor_row + 1 /\ cursor_col' = 0
              \/ /\ ch = NL \/ cursor_col + 1 = VGA_WIDTH
                 /\ cursor_row + 1 = VGA_HEIGHT
                 /\ vga' = ScrolledUp(written)
                 /\ cursor_row' = VGA_HEIGHT - 1 /\ cursor_col' = 0
  <1>1. /\ vga \in [Cells -> Cell]
        /\ cursor_row \in 0 .. VGA_HEIGHT - 1 /\ cursor_col \in 0 .. VGA_WIDTH - 1
        /\ VGA_WIDTH \in Nat \ {0} /\ VGA_HEIGHT \in Nat \ {0}
    BY VgaAssumption DEF VgaTypeOK, Cell
  <1>2. ch # NL => [ch |-> ch, color |-> color] \in Cell
    BY DEF Cell
  <1>3. written \in [Cells -> Cell]
    BY <1>1, <1>2
  <1>. DEFINE wraps == ch = NL \/ cursor_col + 1 >= VGA_WIDTH
              row   == IF wraps THEN cursor_row + 1 ELSE cursor_row
  <1>4. /\ vga' = IF row >= VGA_HEIGHT THEN ScrolledUp(written) ELSE written
        /\ cursor_row' = IF row >= VGA_HEIGHT THEN VGA_HEIGHT - 1 ELSE row
        /\ cursor_col' = IF wraps THEN 0 ELSE cursor_col + 1
    BY DEF vga_print_char
  <1>5. CASE ~wraps
    BY <1>1, <1>3, <1>4, <1>5
  <1>6. CASE wraps /\ cursor_row + 1 < VGA_HEIGHT
    BY <1>1, <1>3, <1>4, <1>6
  <1>7. CASE wraps /\ cursor_row + 1 = VGA_HEIGHT
    BY <1>1, <1>3, <1>4, <1>7
  <1>. QED  BY <1>1, <1>5, <1>6, <1>7

\* Every operation keeps the cursor on the screen and the rest of it blank.
LEMMA VgaInvStep ==
    ASSUME VgaInv, [VgaNext]_vgaVars
    PROVE  VgaInv'
  <1>1. CASE vga_clear_screen
    <2>1. /\ cursor_row' \in 0 .. VGA_HEIGHT - 1 /\ cursor_col' \in 0 .. VGA_WIDTH - 1
          /\ vga' = [o \in Cells |-> Blank]
      BY <1>1, VgaAssumption DEF vga_clear_screen
    <2>2. crtc_low' \in 0 .. BYTE - 1 /\ crtc_high' \in 0 .. BYTE - 1
      BY <1>1, <2>1, MoveCursorType DEF vga_clear_screen
    <2>. QED  BY <2>1, <2>2, BlankIsCell DEF VgaInv, VgaTypeOK, NothingOverprinted, Cell
  <1>2. ASSUME NEW ch \in Glyph \cup {NL}, NEW color \in Color, vga_print_char(ch, color)
        PROVE  VgaInv'
    <2>. DEFINE written == IF ch = NL THEN vga
                           ELSE [vga EXCEPT ![Offset(cursor_row, cursor_col)] =
                                   [ch |-> ch, color |-> color]]
                goes  == /\ ch # NL /\ cursor_col + 1 < VGA_WIDTH
                         /\ vga' = written
                         /\ cursor_row' = cursor_row /\ cursor_col' = cursor_col + 1
                feeds == /\ ch = NL \/ cursor_col + 1 = VGA_WIDTH
                         /\ cursor_row + 1 < VGA_HEIGHT
                         /\ vga' = written
                         /\ cursor_row' = cursor_row + 1 /\ cursor_col' = 0
                scrolls == /\ ch = NL \/ cursor_col + 1 = VGA_WIDTH
                           /\ cursor_row + 1 = VGA_HEIGHT
                           /\ vga' = ScrolledUp(written)
                           /\ cursor_row' = VGA_HEIGHT - 1 /\ cursor_col' = 0
    <2>0. /\ vga \in [Cells -> Cell]
          /\ cursor_row \in 0 .. VGA_HEIGHT - 1 /\ cursor_col \in 0 .. VGA_WIDTH - 1
          /\ VGA_WIDTH \in Nat \ {0} /\ VGA_HEIGHT \in Nat \ {0}
          /\ Cells \subseteq Int
      BY VgaAssumption DEF VgaInv, VgaTypeOK, Cell, Cells
    <2>1. written \in [Cells -> Cell] /\ (goes \/ feeds \/ scrolls)
      BY <1>2, PrintCharCases DEF VgaInv
    <2>2. /\ \A o \in Cells : o >= Offset(cursor_row, cursor_col) => vga[o] = Blank
          /\ ch = NL => written = vga
          /\ \A o \in Cells : o # Offset(cursor_row, cursor_col) => written[o] = vga[o]
      BY <2>0 DEF VgaInv, NothingOverprinted
    <2>3. \A o \in Cells : o > Offset(cursor_row, cursor_col) => written[o] = Blank
      <3>1. Offset(cursor_row, cursor_col) \in Int
        BY <2>0, OffsetInCells
      <3>. QED  BY <2>0, <2>2, <3>1
    <2>. HIDE DEF written
    <2>4. /\ cursor_row' \in 0 .. VGA_HEIGHT - 1 /\ cursor_col' \in 0 .. VGA_WIDTH - 1
          /\ vga' \in [Cells -> Cell]
      BY <2>0, <2>1, ScrolledType
    <2>5. crtc_low' \in 0 .. BYTE - 1 /\ crtc_high' \in 0 .. BYTE - 1
      BY <1>2, <2>4, MoveCursorType DEF vga_print_char
    <2>6. ASSUME NEW o \in Cells, o >= Offset(cursor_row', cursor_col')
          PROVE  vga'[o] = Blank
      <3>0. /\ Offset(cursor_row, cursor_col) = Offset(cursor_row, 0) + cursor_col
            /\ Offset(cursor_row, 0) \in Int
            /\ Offset(cursor_row + 1, 0) = Offset(cursor_row, 0) + VGA_WIDTH
        <4>1. cursor_row \in Nat /\ 0 \in 0 .. VGA_WIDTH - 1
          BY <2>0
        <4>. QED  BY <2>0, <4>1, OffsetOrder
      <3>1. CASE goes
        <4>1. cursor_col + 1 \in 0 .. VGA_WIDTH - 1 /\ cursor_row \in Nat
          BY <2>0, <3>1
        <4>2. Offset(cursor_row, cursor_col + 1) = Offset(cursor_row, 0) + (cursor_col + 1)
          BY <4>1, OffsetOrder
        <4>3. o > Offset(cursor_row, cursor_col)
          BY <2>0, <2>6, <3>0, <3>1, <4>2
        <4>. QED  BY <2>3, <3>1, <4>3
      <3>2. CASE feeds
        <4>1. o > Offset(cursor_row, cursor_col)
          BY <2>0, <2>6, <3>0, <3>2
        <4>. QED  BY <2>3, <3>2, <4>1
      <3>3. CASE scrolls
        BY <2>1, <2>6, <3>3, ScrolledType
      <3>. QED  BY <2>1, <3>1, <3>2, <3>3
    <2>. QED  BY <2>4, <2>5, <2>6 DEF VgaInv, VgaTypeOK, NothingOverprinted, Cell
  <1>3. CASE UNCHANGED vgaVars
    BY <1>3 DEF VgaInv, VgaTypeOK, NothingOverprinted, vgaVars
  <1>. QED  BY <1>1, <1>2, <1>3 DEF VgaNext

\* A cleared screen satisfies the invariant.
LEMMA VgaInvInit ==
    ASSUME VgaInit
    PROVE  VgaInv
  <1>1. 0 \in 0 .. VGA_HEIGHT - 1 /\ 0 \in 0 .. VGA_WIDTH - 1 /\ 0 \in 0 .. BYTE - 1
    BY VgaAssumption
  <1>. QED  BY <1>1, BlankIsCell DEF VgaInit, VgaInv, VgaTypeOK, NothingOverprinted, Cell

\* Every operation of vga.c keeps the inductive invariant.
THEOREM VgaInvHolds == VgaSpec => []VgaInv
  BY VgaInvInit, VgaInvStep, PTL DEF VgaSpec

\* The cursor of vga.c never leaves the screen, so that no write of
\* vga_put_char leaves video memory.
THEOREM VgaTypeCorrect == VgaSpec => []VgaTypeOK
  <1>1. VgaInv => VgaTypeOK
    BY DEF VgaInv
  <1>. QED  BY <1>1, VgaInvHolds, PTL

\* vga_print_string never prints over text, across wraps and scrolls.
THEOREM TextStands == VgaSpec => []NothingOverprinted
  <1>1. VgaInv => NothingOverprinted
    BY DEF VgaInv
  <1>. QED  BY <1>1, VgaInvHolds, PTL

-----------------------------------------------------------------------------
(* The refinement. *)

\* The rows on the screen are a sequence of rows of cells.
LEMMA ScreenType ==
    ASSUME NEW v \in [Cells -> Cell], NEW n \in 0 .. VGA_HEIGHT
    PROVE  /\ Screen(v, n) \in Seq([0 .. VGA_WIDTH - 1 -> Cell])
           /\ Len(Screen(v, n)) = n
           /\ \A r \in 1 .. n, c \in 0 .. VGA_WIDTH - 1 :
                Screen(v, n)[r][c] = v[Offset(r - 1, c)]
  <1>1. n \in Nat /\ VGA_HEIGHT \in Nat
    BY VgaAssumption
  <1>2. ASSUME NEW r \in 1 .. n
        PROVE  [c \in 0 .. VGA_WIDTH - 1 |-> v[Offset(r - 1, c)]]
                 \in [0 .. VGA_WIDTH - 1 -> Cell]
    <2>1. r - 1 \in 0 .. VGA_HEIGHT - 1
      BY <1>1
    <2>2. ASSUME NEW c \in 0 .. VGA_WIDTH - 1  PROVE v[Offset(r - 1, c)] \in Cell
      BY <2>1, OffsetInCells
    <2>. QED  BY <2>2
  <1>3. Screen(v, n) \in [1 .. n -> [0 .. VGA_WIDTH - 1 -> Cell]]
    BY <1>2 DEF Screen
  <1>4. Screen(v, n) \in Seq([0 .. VGA_WIDTH - 1 -> Cell]) /\ Len(Screen(v, n)) = n
    <2>. DEFINE s == Screen(v, n)  S == [0 .. VGA_WIDTH - 1 -> Cell]
    <2>1. s \in [1 .. n -> S]
      BY <1>3
    <2>. HIDE DEF s, S
    <2>2. s \in Seq(S)
      BY <1>1, <2>1
    <2>3. Len(s) = n
      BY <1>1, <2>1, <2>2
    <2>. QED  BY <2>2, <2>3 DEF s, S
  <1>5. \A r \in 1 .. n, c \in 0 .. VGA_WIDTH - 1 :
          Screen(v, n)[r][c] = v[Offset(r - 1, c)]
    BY DEF Screen
  <1>. QED  BY <1>4, <1>5

\* Two sequences of rows that agree cell by cell are equal.
LEMMA SameRows ==
    ASSUME NEW s \in Seq([0 .. VGA_WIDTH - 1 -> Cell]),
           NEW t \in Seq([0 .. VGA_WIDTH - 1 -> Cell]),
           Len(s) = Len(t),
           \A r \in 1 .. Len(s), c \in 0 .. VGA_WIDTH - 1 : s[r][c] = t[r][c]
    PROVE  s = t
  <1>1. ASSUME NEW r \in 1 .. Len(s)  PROVE s[r] = t[r]
    <2>. DEFINE D == 0 .. VGA_WIDTH - 1
    <2>1. s[r] \in [D -> Cell] /\ t[r] \in [D -> Cell]
      OBVIOUS
    <2>2. \A c \in D : s[r][c] = t[r][c]
      OBVIOUS
    <2>. HIDE DEF D
    <2>. QED  BY <2>1, <2>2
  <1>. QED  BY <1>1

\* A blank row is a row.
LEMMA BlankRowType ==
    /\ TT!BlankRow \in [0 .. VGA_WIDTH - 1 -> Cell]
    /\ \A c \in 0 .. VGA_WIDTH - 1 : TT!BlankRow[c] = Blank
  BY BlankIsCell DEF TT!BlankRow

\* A row is fed while there is room, since what is below the text is blank.
LEMMA FeedWithRoom ==
    ASSUME NEW v \in [Cells -> Cell], NEW n \in 1 .. VGA_HEIGHT - 1,
           \A o \in Cells : o >= Offset(n, 0) => v[o] = Blank
    PROVE  Screen(v, n + 1) = TT!Feed(Screen(v, n))
  <1>. DEFINE Row == [0 .. VGA_WIDTH - 1 -> Cell]
              s == Screen(v, n + 1)  t == Append(Screen(v, n), TT!BlankRow)
  <1>1. n \in 0 .. VGA_HEIGHT /\ n + 1 \in 0 .. VGA_HEIGHT /\ n \in Nat /\ n < VGA_HEIGHT
    BY VgaAssumption
  <1>2. /\ s \in Seq(Row) /\ Len(s) = n + 1
        /\ \A r \in 1 .. n + 1, c \in 0 .. VGA_WIDTH - 1 : s[r][c] = v[Offset(r - 1, c)]
    BY <1>1, ScreenType
  <1>3. /\ Screen(v, n) \in Seq(Row) /\ Len(Screen(v, n)) = n
        /\ \A r \in 1 .. n, c \in 0 .. VGA_WIDTH - 1 :
             Screen(v, n)[r][c] = v[Offset(r - 1, c)]
    BY <1>1, ScreenType
  <1>4. TT!Feed(Screen(v, n)) = t
    BY <1>1, <1>3 DEF TT!Feed
  <1>5. /\ t \in Seq(Row) /\ Len(t) = n + 1
        /\ \A r \in 1 .. n : t[r] = Screen(v, n)[r]
        /\ t[n + 1] = TT!BlankRow
    <2>. HIDE DEF Row
    <2>1. TT!BlankRow \in Row
      BY BlankRowType DEF Row
    <2>. QED  BY <1>1, <1>3, <2>1
  <1>6. ASSUME NEW r \in 1 .. n + 1, NEW c \in 0 .. VGA_WIDTH - 1
        PROVE  s[r][c] = t[r][c]
    <2>1. CASE r \in 1 .. n
      BY <1>2, <1>3, <1>5, <2>1
    <2>2. CASE r = n + 1
      <3>1. n \in 0 .. VGA_HEIGHT - 1
        BY <1>1, VgaAssumption
      <3>2. Offset(n, c) \in Cells /\ Offset(n, c) = Offset(n, 0) + c /\ Offset(n, c) \in Nat
        BY <1>1, <3>1, OffsetInCells, OffsetOrder
      <3>3. Offset(n, 0) \in Nat
        <4>1. 0 \in 0 .. VGA_WIDTH - 1
          BY VgaAssumption
        <4>. QED  BY <1>1, <4>1, OffsetOrder
      <3>4. Offset(n, c) >= Offset(n, 0)
        BY <3>2, <3>3
      <3>5. v[Offset(n, c)] = Blank
        BY <3>2, <3>4
      <3>6. s[r][c] = v[Offset(n, c)]
        <4>1. r - 1 = n
          BY <1>1, <2>2
        <4>. QED  BY <1>2, <4>1
      <3>7. t[r] = TT!BlankRow
        BY <1>5, <2>2
      <3>8. TT!BlankRow[c] = Blank
        BY BlankRowType
      <3>. HIDE DEF s, t
      <3>. QED  BY <3>5, <3>6, <3>7, <3>8
    <2>3. r \in 1 .. n \/ r = n + 1
      BY <1>1
    <2>. HIDE DEF s, t
    <2>. QED  BY <2>1, <2>2, <2>3
  <1>. HIDE DEF s, t
  <1>7. s = t
    BY <1>2, <1>5, <1>6, SameRows
  <1>. QED  BY <1>4, <1>7 DEF s

\* A full screen loses its first row.
LEMMA FeedWhenFull ==
    ASSUME NEW v \in [Cells -> Cell]
    PROVE  Screen(ScrolledUp(v), VGA_HEIGHT) = TT!Feed(Screen(v, VGA_HEIGHT))
  <1>. DEFINE Row == [0 .. VGA_WIDTH - 1 -> Cell]  n == VGA_HEIGHT
              s == Screen(ScrolledUp(v), n)  t == Append(Tail(Screen(v, n)), TT!BlankRow)
  <1>1. n \in 0 .. VGA_HEIGHT /\ n \in Nat /\ n >= 1
    BY VgaAssumption
  <1>2. /\ s \in Seq(Row) /\ Len(s) = n
        /\ \A r \in 1 .. n, c \in 0 .. VGA_WIDTH - 1 :
             s[r][c] = ScrolledUp(v)[Offset(r - 1, c)]
    BY <1>1, ScreenType, ScrolledType
  <1>3. /\ Screen(v, n) \in Seq(Row) /\ Len(Screen(v, n)) = n
        /\ \A r \in 1 .. n, c \in 0 .. VGA_WIDTH - 1 :
             Screen(v, n)[r][c] = v[Offset(r - 1, c)]
    BY <1>1, ScreenType
  <1>4. TT!Feed(Screen(v, n)) = t
    BY <1>1, <1>3 DEF TT!Feed
  <1>5. /\ t \in Seq(Row) /\ Len(t) = n
        /\ \A r \in 1 .. n - 1 : t[r] = Screen(v, n)[r + 1]
        /\ t[n] = TT!BlankRow
    <2>. DEFINE u == Screen(v, n)
    <2>1. TT!BlankRow \in Row /\ u \in Seq(Row) /\ Len(u) = n
      BY <1>3, BlankRowType
    <2>. HIDE DEF Row, u, n
    <2>2. /\ Tail(u) \in Seq(Row) /\ Len(Tail(u)) = n - 1
          /\ \A r \in 1 .. n - 1 : Tail(u)[r] = u[r + 1]
      BY <1>1, <2>1
    <2>. QED  BY <1>1, <2>1, <2>2 DEF u
  <1>6. ASSUME NEW r \in 1 .. n, NEW c \in 0 .. VGA_WIDTH - 1
        PROVE  s[r][c] = t[r][c]
    <2>0. r - 1 \in 0 .. VGA_HEIGHT - 1 /\ VGA_HEIGHT \in Nat /\ r \in Nat
      BY <1>1
    <2>1. /\ Offset(r - 1, c) \in Cells
          /\ Offset(r - 1, c) + VGA_WIDTH = Offset((r - 1) + 1, c)
          /\ Offset(r - 1, c) + VGA_WIDTH \in Cells <=> r - 1 < VGA_HEIGHT - 1
      BY <2>0, OffsetInCells, OffsetBelow
    <2>2. CASE r \in 1 .. n - 1
      <3>1. r + 1 \in 1 .. n /\ (r - 1) + 1 = (r + 1) - 1 /\ r - 1 < VGA_HEIGHT - 1
        BY <2>0, <2>2
      <3>2. s[r][c] = v[Offset(r - 1, c) + VGA_WIDTH]
        BY <1>2, <2>1, <3>1 DEF ScrolledUp
      <3>3. t[r][c] = v[Offset((r + 1) - 1, c)]
        BY <1>3, <1>5, <2>2, <3>1
      <3>. QED  BY <2>1, <3>1, <3>2, <3>3
    <2>3. CASE r = n
      <3>1. Offset(r - 1, c) + VGA_WIDTH \notin Cells
        BY <2>0, <2>1, <2>3
      <3>2. s[r][c] = Blank
        BY <1>2, <2>1, <3>1 DEF ScrolledUp
      <3>3. t[r] = TT!BlankRow
        BY <1>5, <2>3
      <3>4. TT!BlankRow[c] = Blank
        BY BlankRowType
      <3>. HIDE DEF s, t
      <3>. QED  BY <3>2, <3>3, <3>4
    <2>4. r \in 1 .. n - 1 \/ r = n
      BY <2>0
    <2>. HIDE DEF s, t
    <2>. QED  BY <2>2, <2>3, <2>4
  <1>. HIDE DEF s, t
  <1>7. s = t
    BY <1>2, <1>5, <1>6, SameRows
  <1>. QED  BY <1>4, <1>7 DEF s

\* A cell written in video memory, and in a sequence of rows.
WithCell(v, o, cell) == [v EXCEPT ![o] = cell]
WithPlace(rs, n, c, cell) == [rs EXCEPT ![n][c] = cell]

\* Writing a cell at the cursor changes that place of the last row only.
LEMMA PutInLastRow ==
    ASSUME NEW v \in [Cells -> Cell], NEW row \in 0 .. VGA_HEIGHT - 1,
           NEW c0 \in 0 .. VGA_WIDTH - 1, NEW cell \in Cell
    PROVE  Screen(WithCell(v, Offset(row, c0), cell), row + 1)
             = WithPlace(Screen(v, row + 1), row + 1, c0, cell)
  <1>. DEFINE Row == [0 .. VGA_WIDTH - 1 -> Cell]  n == row + 1
              w == [v EXCEPT ![Offset(row, c0)] = cell]
              u == Screen(v, n)
              s == Screen(w, n)  t == [u EXCEPT ![n][c0] = cell]
  <1>1. n \in 0 .. VGA_HEIGHT /\ n \in Nat /\ n >= 1 /\ row \in Nat
    BY VgaAssumption
  <1>2. w \in [Cells -> Cell] /\ Offset(row, c0) \in Cells
    BY OffsetInCells
  <1>3. /\ s \in Seq(Row) /\ Len(s) = n
        /\ \A r \in 1 .. n, c \in 0 .. VGA_WIDTH - 1 : s[r][c] = w[Offset(r - 1, c)]
    <2>. HIDE DEF w
    <2>. QED  BY <1>1, <1>2, ScreenType
  <1>4. /\ u \in Seq(Row) /\ Len(u) = n
        /\ \A r \in 1 .. n, c \in 0 .. VGA_WIDTH - 1 : u[r][c] = v[Offset(r - 1, c)]
    BY <1>1, ScreenType
  <1>5. /\ t \in Seq(Row) /\ Len(t) = n
        /\ \A r \in 1 .. n, c \in 0 .. VGA_WIDTH - 1 :
             t[r][c] = IF r = n /\ c = c0 THEN cell ELSE u[r][c]
    <2>. DEFINE D == 0 .. VGA_WIDTH - 1
    <2>1. u \in [1 .. n -> [D -> Cell]] /\ c0 \in D
      BY <1>4
    <2>. HIDE DEF D, u, n
    <2>2. [u[n] EXCEPT ![c0] = cell] \in [D -> Cell]
      BY <1>1, <2>1
    <2>3. t \in [1 .. n -> [D -> Cell]]
      BY <1>1, <2>1, <2>2
    <2>4. \A r \in 1 .. n, c \in D : t[r][c] = IF r = n /\ c = c0 THEN cell ELSE u[r][c]
      BY <1>1, <2>1, <2>2
    <2>. HIDE DEF t, Row
    <2>5. t \in Seq([D -> Cell]) /\ Len(t) = n
      <3>. DEFINE S == [D -> Cell]
      <3>1. t \in [1 .. n -> S]
        BY <2>3
      <3>. HIDE DEF S
      <3>2. t \in Seq(S)
        BY <1>1, <3>1
      <3>3. Len(t) = n
        BY <1>1, <3>1, <3>2
      <3>. QED  BY <3>2, <3>3 DEF S
    <2>. QED  BY <2>4, <2>5 DEF Row, D
  <1>6. ASSUME NEW r \in 1 .. n, NEW c \in 0 .. VGA_WIDTH - 1
        PROVE  s[r][c] = t[r][c]
    <2>0. r - 1 \in 0 .. VGA_HEIGHT - 1 /\ r - 1 \in Nat
      BY <1>1, VgaAssumption
    <2>1. Offset(r - 1, c) \in Cells
      BY <2>0, OffsetInCells
    <2>2. Offset(r - 1, c) = Offset(row, c0) <=> r = n /\ c = c0
      <3>1. Offset(r - 1, c) = Offset(row, c0) => r - 1 = row /\ c = c0
        BY <1>1, <2>0, OffsetInjective
      <3>. QED  BY <1>1, <3>1
    <2>3. w[Offset(r - 1, c)] = IF Offset(r - 1, c) = Offset(row, c0) THEN cell
                                ELSE v[Offset(r - 1, c)]
      BY <2>1
    <2>. HIDE DEF w, u, s, t
    <2>. QED  BY <1>3, <1>4, <1>5, <2>2, <2>3
  <1>. HIDE DEF s, t
  <1>7. s = t
    BY <1>3, <1>5, <1>6, SameRows
  <1>. QED  BY <1>7 DEF s, t, WithCell, WithPlace

\* The variables of Terminal, as the refinement mapping defines them.
MappedRows == Screen(vga, cursor_row + 1)

\* One character printed by vga.c is one step of the teletype.
LEMMA PrintCharStep ==
    ASSUME VgaInv, NEW ch \in Glyph \cup {NL}, NEW color \in Color,
           vga_print_char(ch, color)
    PROVE  \/ /\ MappedRows' = TT!Feed(MappedRows) /\ cursor_col' = 0
           \/ /\ ch \in Glyph
              /\ LET rs == [MappedRows EXCEPT ![Len(MappedRows)][cursor_col] =
                                                [ch |-> ch, color |-> color]]
                 IN  IF cursor_col + 1 = VGA_WIDTH
                     THEN MappedRows' = TT!Feed(rs) /\ cursor_col' = 0
                     ELSE MappedRows' = rs /\ cursor_col' = cursor_col + 1
  <1>. DEFINE cell == [ch |-> ch, color |-> color]
              written == IF ch = NL THEN vga
                         ELSE [vga EXCEPT ![Offset(cursor_row, cursor_col)] = cell]
              rs == [MappedRows EXCEPT ![Len(MappedRows)][cursor_col] = cell]
              goes  == /\ ch # NL /\ cursor_col + 1 < VGA_WIDTH
                       /\ vga' = written
                       /\ cursor_row' = cursor_row /\ cursor_col' = cursor_col + 1
              feeds == /\ ch = NL \/ cursor_col + 1 = VGA_WIDTH
                       /\ cursor_row + 1 < VGA_HEIGHT
                       /\ vga' = written
                       /\ cursor_row' = cursor_row + 1 /\ cursor_col' = 0
              scrolls == /\ ch = NL \/ cursor_col + 1 = VGA_WIDTH
                         /\ cursor_row + 1 = VGA_HEIGHT
                         /\ vga' = ScrolledUp(written)
                         /\ cursor_row' = VGA_HEIGHT - 1 /\ cursor_col' = 0
  <1>0. /\ vga \in [Cells -> Cell]
        /\ cursor_row \in 0 .. VGA_HEIGHT - 1 /\ cursor_col \in 0 .. VGA_WIDTH - 1
        /\ VGA_WIDTH \in Nat \ {0} /\ VGA_HEIGHT \in Nat \ {0}
        /\ cursor_row + 1 \in 0 .. VGA_HEIGHT
    BY VgaAssumption DEF VgaInv, VgaTypeOK, Cell
  <1>1. written \in [Cells -> Cell] /\ (goes \/ feeds \/ scrolls)
    BY PrintCharCases DEF VgaInv
  <1>2. Len(MappedRows) = cursor_row + 1
    BY <1>0, ScreenType DEF MappedRows
  \* the last row with the character in it
  <1>3. Screen(written, cursor_row + 1) = IF ch = NL THEN MappedRows ELSE rs
    <2>1. CASE ch = NL
      BY <2>1 DEF MappedRows
    <2>2. CASE ch # NL
      <3>1. cell \in Cell
        BY <2>2 DEF Cell
      <3>. HIDE DEF cell
      <3>2. Screen(WithCell(vga, Offset(cursor_row, cursor_col), cell), cursor_row + 1)
              = WithPlace(Screen(vga, cursor_row + 1), cursor_row + 1, cursor_col, cell)
        BY <1>0, <3>1, PutInLastRow
      <3>3. rs = WithPlace(Screen(vga, cursor_row + 1), cursor_row + 1, cursor_col, cell)
        BY <1>2 DEF MappedRows, WithPlace
      <3>4. written = WithCell(vga, Offset(cursor_row, cursor_col), cell)
        BY <2>2 DEF WithCell
      <3>. HIDE DEF written, rs
      <3>. QED  BY <2>2, <3>2, <3>3, <3>4
    <2>. QED  BY <2>1, <2>2
  \* what is below the text is blank
  <1>4. \A o \in Cells : o >= Offset(cursor_row + 1, 0) => written[o] = Blank
    <2>1. ASSUME NEW o \in Cells, o >= Offset(cursor_row + 1, 0)
          PROVE  o \in Int /\ o > Offset(cursor_row, cursor_col)
                 /\ Offset(cursor_row, cursor_col) \in Int
      <3>1. cursor_row \in Nat /\ 0 \in 0 .. VGA_WIDTH - 1 /\ o \in Int
        BY <1>0 DEF Cells
      <3>2. /\ Offset(cursor_row, cursor_col) = Offset(cursor_row, 0) + cursor_col
            /\ Offset(cursor_row, 0) \in Int
            /\ Offset(cursor_row + 1, 0) = Offset(cursor_row, 0) + VGA_WIDTH
        BY <1>0, <3>1, OffsetOrder
      <3>. QED  BY <1>0, <2>1, <3>1, <3>2
    <2>2. \A o \in Cells : o # Offset(cursor_row, cursor_col) => written[o] = vga[o]
      BY <1>0
    <2>. HIDE DEF written
    <2>. QED  BY <2>1, <2>2 DEF VgaInv, NothingOverprinted
  <1>. HIDE DEF written, rs
  <1>5. CASE goes
    <2>1. MappedRows' = rs
      BY <1>3, <1>5 DEF MappedRows
    <2>2. ch \in Glyph /\ cursor_col + 1 # VGA_WIDTH /\ cursor_col' = cursor_col + 1
      BY <1>0, <1>5
    <2>. QED  BY <2>1, <2>2 DEF rs
  <1>6. CASE feeds \/ scrolls
    <2>1. MappedRows' = TT!Feed(Screen(written, cursor_row + 1))
      <3>1. CASE feeds
        <4>1. cursor_row + 1 \in 1 .. VGA_HEIGHT - 1
          BY <1>0, <3>1
        <4>2. Screen(written, (cursor_row + 1) + 1) = TT!Feed(Screen(written, cursor_row + 1))
          BY <1>1, <1>4, <4>1, FeedWithRoom
        <4>. QED  BY <3>1, <4>2 DEF MappedRows
      <3>2. CASE scrolls
        <4>1. Screen(ScrolledUp(written), VGA_HEIGHT) = TT!Feed(Screen(written, VGA_HEIGHT))
          BY <1>1, FeedWhenFull
        <4>2. cursor_row' + 1 = VGA_HEIGHT /\ cursor_row + 1 = VGA_HEIGHT
          BY <1>0, <3>2
        <4>. QED  BY <3>2, <4>1, <4>2 DEF MappedRows
      <3>. QED  BY <1>6, <3>1, <3>2
    <2>2. CASE ch = NL
      BY <1>3, <1>6, <2>1, <2>2
    <2>3. CASE ch # NL
      <3>1. ch \in Glyph /\ cursor_col + 1 = VGA_WIDTH /\ cursor_col' = 0
        BY <1>6, <2>3
      <3>2. MappedRows' = TT!Feed(rs)
        BY <1>3, <2>1, <2>3
      <3>. QED  BY <3>1, <3>2 DEF rs
    <2>. QED  BY <2>2, <2>3
  <1>. QED  BY <1>1, <1>5, <1>6

\* A cleared screen is a teletype with one blank row.
LEMMA ClearedIsBlank ==
    Screen([o \in Cells |-> Blank], 0 + 1) = <<TT!BlankRow>>
  <1>. DEFINE v == [o \in Cells |-> Blank]  s == Screen(v, 1)  t == <<TT!BlankRow>>
              Row == [0 .. VGA_WIDTH - 1 -> Cell]
  <1>1. v \in [Cells -> Cell] /\ 1 \in 0 .. VGA_HEIGHT /\ 0 \in 0 .. VGA_HEIGHT - 1
    BY BlankIsCell, VgaAssumption
  <1>2. /\ s \in Seq(Row) /\ Len(s) = 1
        /\ \A r \in 1 .. 1, c \in 0 .. VGA_WIDTH - 1 : s[r][c] = v[Offset(r - 1, c)]
    <2>. HIDE DEF v
    <2>. QED  BY <1>1, ScreenType
  <1>3. TT!BlankRow \in Row
    BY BlankRowType
  <1>4. t \in Seq(Row) /\ Len(t) = 1 /\ t[1] = TT!BlankRow
    <2>. HIDE DEF Row
    <2>. QED  BY <1>3
  <1>5. ASSUME NEW r \in 1 .. 1, NEW c \in 0 .. VGA_WIDTH - 1
        PROVE  s[r][c] = t[r][c]
    <2>1. r = 1 /\ r - 1 \in 0 .. VGA_HEIGHT - 1
      BY <1>1
    <2>2. Offset(r - 1, c) \in Cells
      BY <2>1, OffsetInCells
    <2>3. v[Offset(r - 1, c)] = Blank
      BY <2>2
    <2>4. TT!BlankRow[c] = Blank
      BY BlankRowType
    <2>. HIDE DEF s, t, v
    <2>. QED  BY <1>2, <1>4, <2>1, <2>3, <2>4
  <1>. HIDE DEF s, t
  <1>6. s = t
    BY <1>2, <1>4, <1>5, SameRows
  <1>7. 0 + 1 = 1
    OBVIOUS
  <1>. QED  BY <1>6, <1>7 DEF s, t

\* vga.c implements the scrolling teletype: flat video memory, line wrap and
\* scroll lose, repeat and misplace nothing.
THEOREM VgaImplementsTerminal == VgaSpec => ImplementsTerminal
  <1>0. MappedRows = [r \in 1 .. cursor_row + 1 |->
                        [c \in 0 .. VGA_WIDTH - 1 |-> vga[Offset(r - 1, c)]]]
    BY DEF MappedRows, Screen
  <1>1. VgaInit => TT!Init
    <2>. SUFFICES ASSUME VgaInit
                  PROVE  MappedRows = <<TT!BlankRow>> /\ cursor_col = 0
      BY <1>0 DEF TT!Init
    <2>. QED  BY ClearedIsBlank DEF VgaInit, MappedRows
  <1>2. VgaInv /\ [VgaNext]_vgaVars => [TT!Next]_(TT!vars)
    <2>. SUFFICES ASSUME VgaInv, [VgaNext]_vgaVars
                  PROVE  [TT!Next]_(TT!vars)
      OBVIOUS
    <2>0. MappedRows' = [r \in 1 .. cursor_row' + 1 |->
                          [c \in 0 .. VGA_WIDTH - 1 |-> vga'[Offset(r - 1, c)]]]
      BY DEF MappedRows, Screen
    <2>1. CASE vga_clear_screen
      <3>1. MappedRows' = <<TT!BlankRow>> /\ cursor_col' = 0
        BY <2>1, ClearedIsBlank DEF vga_clear_screen, MappedRows
      <3>2. TT!Clear
        BY <2>0, <3>1 DEF TT!Clear
      <3>. QED  BY <3>2 DEF TT!Next
    <2>2. ASSUME NEW ch \in Glyph \cup {NL}, NEW color \in Color, vga_print_char(ch, color)
          PROVE  TT!Next
      <3>1. CASE MappedRows' = TT!Feed(MappedRows) /\ cursor_col' = 0
        <4>1. TT!Break
          BY <1>0, <2>0, <3>1 DEF TT!Break
        <4>. QED  BY <4>1 DEF TT!Next
      <3>2. CASE /\ ch \in Glyph
                 /\ LET rs == [MappedRows EXCEPT ![Len(MappedRows)][cursor_col] =
                                                   [ch |-> ch, color |-> color]]
                    IN  IF cursor_col + 1 = VGA_WIDTH
                        THEN MappedRows' = TT!Feed(rs) /\ cursor_col' = 0
                        ELSE MappedRows' = rs /\ cursor_col' = cursor_col + 1
        <4>1. TT!Put([ch |-> ch, color |-> color])
          BY <1>0, <2>0, <3>2 DEF TT!Put
        <4>. QED  BY <3>2, <4>1 DEF TT!Next
      <3>. QED  BY <2>2, <3>1, <3>2, PrintCharStep
    <2>3. CASE UNCHANGED vgaVars
      BY <2>3 DEF vgaVars, TT!vars
    <2>. QED  BY <2>1, <2>2, <2>3 DEF VgaNext
  <1>. QED  BY <1>1, <1>2, VgaInvHolds, PTL DEF VgaSpec, ImplementsTerminal, TT!Spec

=============================================================================
