-------------------------------- MODULE Vga --------------------------------
(***************************************************************************)
(* The VGA text driver, vga.c.  Video memory is a flat array of cells      *)
(* (character and attribute byte together); the hardware cursor is the     *)
(* pair of CRTC registers it is written to, a byte each.                   *)
(***************************************************************************)
EXTENDS Integers, Sequences

CONSTANTS
    VGA_WIDTH, VGA_HEIGHT,
    BYTE,               \* 256: values of a CRTC register
    Glyph,              \* characters printed, line breaks aside
    Color, WHITE_ON_BLACK

ASSUME VgaAssumption ==
    /\ VGA_WIDTH \in Nat \ {0} /\ VGA_HEIGHT \in Nat \ {0}
    /\ BYTE \in Nat \ {0} /\ VGA_WIDTH * VGA_HEIGHT <= BYTE * BYTE
    /\ WHITE_ON_BLACK \in Color

NL == "NL"
SPACE == "SP"
Blank == [ch |-> SPACE, color |-> WHITE_ON_BLACK]

VARIABLES
    vga,                \* offset of a cell -> its contents
    cursor_row, cursor_col,
    crtc_low, crtc_high \* CRTC registers 0x0f and 0x0e

vgaVars == <<vga, cursor_row, cursor_col, crtc_low, crtc_high>>

Cells == 0 .. VGA_WIDTH * VGA_HEIGHT - 1
Offset(row, col) == row * VGA_WIDTH + col

\* printk_init, the first call of kernel_main, has cleared the screen.
VgaInit ==
    /\ vga = [o \in Cells |-> Blank]
    /\ cursor_row = 0 /\ cursor_col = 0
    /\ crtc_low = 0 /\ crtc_high = 0

\* The last call of every operation that moves the cursor.
vga_move_cursor ==
    LET current_pos == Offset(cursor_row', cursor_col') IN
    /\ crtc_low'  = current_pos % BYTE
    /\ crtc_high' = (current_pos \div BYTE) % BYTE

vga_clear_screen ==
    /\ vga' = [o \in Cells |-> Blank]
    /\ cursor_row' = 0 /\ cursor_col' = 0
    /\ vga_move_cursor

\* Mutants: the last line is not cleared; it is lost with the line above it.
MutantScrollKeep(screen) ==
    [o \in Cells |-> IF o + VGA_WIDTH \in Cells THEN screen[o + VGA_WIDTH] ELSE screen[o]]
MutantScrollTwo(screen) ==
    [o \in Cells |-> IF o + 2 * VGA_WIDTH \in Cells THEN screen[o + VGA_WIDTH] ELSE Blank]

\* vga_scroll_up: rows are copied upwards in ascending order, so that none is
\* read after it is overwritten.
ScrolledUp(screen) ==
    [o \in Cells |-> IF o + VGA_WIDTH \in Cells THEN screen[o + VGA_WIDTH] ELSE Blank]

\* Mutant: the line wraps one column late.
MutantPrintChar(ch, color) ==
    LET written == IF ch = NL THEN vga
                   ELSE [vga EXCEPT ![Offset(cursor_row, cursor_col)] =
                           [ch |-> ch, color |-> color]]
        wraps == ch = NL \/ cursor_col + 1 > VGA_WIDTH
        row   == IF wraps THEN cursor_row + 1 ELSE cursor_row
    IN  /\ vga' = IF row >= VGA_HEIGHT THEN ScrolledUp(written) ELSE written
        /\ cursor_row' = IF row >= VGA_HEIGHT THEN VGA_HEIGHT - 1 ELSE row
        /\ cursor_col' = IF wraps THEN 0 ELSE cursor_col + 1
        /\ vga_move_cursor

\* One iteration of vga_print_string, vga_put_char included.
vga_print_char(ch, color) ==
    LET written == IF ch = NL THEN vga
                   ELSE [vga EXCEPT ![Offset(cursor_row, cursor_col)] =
                           [ch |-> ch, color |-> color]]
        wraps == ch = NL \/ cursor_col + 1 >= VGA_WIDTH
        row   == IF wraps THEN cursor_row + 1 ELSE cursor_row
    IN  /\ vga' = IF row >= VGA_HEIGHT THEN ScrolledUp(written) ELSE written
        /\ cursor_row' = IF row >= VGA_HEIGHT THEN VGA_HEIGHT - 1 ELSE row
        /\ cursor_col' = IF wraps THEN 0 ELSE cursor_col + 1
        /\ vga_move_cursor

VgaNext ==
    \/ vga_clear_screen
    \/ \E ch \in Glyph \cup {NL}, color \in Color : vga_print_char(ch, color)

VgaSpec == VgaInit /\ [][VgaNext]_vgaVars

-----------------------------------------------------------------------------
\* The cursor stays on the screen, so that every write lands in video memory.
VgaTypeOK ==
    /\ vga \in [Cells -> [ch : Glyph \cup {SPACE}, color : Color]]
    /\ cursor_row \in 0 .. VGA_HEIGHT - 1 /\ cursor_col \in 0 .. VGA_WIDTH - 1
    /\ crtc_low \in 0 .. BYTE - 1 /\ crtc_high \in 0 .. BYTE - 1

\* The cells at and after the cursor are blank: no text is ever overprinted.
NothingOverprinted ==
    \A o \in Cells : o >= Offset(cursor_row, cursor_col) => vga[o] = Blank

\* Flat video memory, the wrap and the scroll implement the teletype.
TT == INSTANCE Terminal
      WITH Width <- VGA_WIDTH, Height <- VGA_HEIGHT,
           rows <- [r \in 1 .. cursor_row + 1 |->
                      [c \in 0 .. VGA_WIDTH - 1 |-> vga[Offset(r - 1, c)]]],
           col <- cursor_col
ImplementsTerminal == TT!Spec

=============================================================================
