------------------------------- MODULE MCVga -------------------------------
(***************************************************************************)
(* Vga on a screen of 3 rows and 3 columns with CRTC registers of 4 values *)
(* each, so that the high register is needed from the second row on.       *)
(***************************************************************************)
EXTENDS Vga

Glyphs == {"a", "b"}
Colors == {"white", "red"}

=============================================================================
