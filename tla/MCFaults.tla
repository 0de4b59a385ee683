------------------------------ MODULE MCFaults ------------------------------
(***************************************************************************)
(* Faults on a stack that holds one fault with its handler, a nested one   *)
(* at most depths, and too little at the others.                           *)
(***************************************************************************)
EXTENDS Faults

TwoPages == {"heap1", "heap2"}

=============================================================================
