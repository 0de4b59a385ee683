------------------------------ MODULE Terminal ------------------------------
(***************************************************************************)
(* What the text console promises: a scrolling teletype.  It keeps the     *)
(* last Height rows of everything printed since the screen was cleared; a  *)
(* row that fills up, or a line break, starts a new blank row.             *)
(***************************************************************************)
EXTENDS Naturals, Sequences

CONSTANTS Width, Height, Glyph, Color, Blank

VARIABLES
    rows,       \* top row first; the last one is being written
    col         \* cells already written in the last row

vars == <<rows, col>>

BlankRow == [c \in 0 .. Width - 1 |-> Blank]

\* The last Height rows once a blank one is added.
Feed(rs) ==
    IF Len(rs) < Height THEN Append(rs, BlankRow) ELSE Append(Tail(rs), BlankRow)

Init == rows = <<BlankRow>> /\ col = 0

Clear == rows' = <<BlankRow>> /\ col' = 0

Break == rows' = Feed(rows) /\ col' = 0

Put(cell) ==
    LET rs == [rows EXCEPT ![Len(rows)][col] = cell] IN
    IF col + 1 = Width THEN rows' = Feed(rs) /\ col' = 0
                       ELSE rows' = rs /\ col' = col + 1

Next ==
    \/ Clear \/ Break
    \/ \E g \in Glyph, c \in Color : Put([ch |-> g, color |-> c])

Spec == Init /\ [][Next]_vars

=============================================================================
