----------------------------- MODULE BoundedLog -----------------------------
(***************************************************************************)
(* What the kernel log promises: the most recent Capacity characters, in   *)
(* the order they were written.                                            *)
(***************************************************************************)
EXTENDS Naturals, Sequences

CONSTANTS Capacity, Char

VARIABLE kept

Init == kept = << >>

Write(ch) ==
    kept' = IF Len(kept) < Capacity THEN Append(kept, ch) ELSE Append(Tail(kept), ch)

Next == \E ch \in Char : Write(ch)

Spec == Init /\ [][Next]_kept

=============================================================================
