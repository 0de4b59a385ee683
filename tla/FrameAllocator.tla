--------------------------- MODULE FrameAllocator ---------------------------
(***************************************************************************)
(* What a client may assume of pmm_alloc_frame and pmm_free_frame: a frame *)
(* is in the pool or in one client's hands, never both, and neither frame  *)
(* 0, which doubles as "no frame", nor a protected frame is ever offered.  *)
(***************************************************************************)
CONSTANT Protected          \* frames the kernel keeps for itself

VARIABLES open,             \* allocation has started
          pool,             \* frames that can be handed out
          owned             \* frames that are handed out

vars == <<open, pool, owned>>

Init == ~open /\ pool = {} /\ owned = {}

\* Boot decides once which frames there are.
Open ==
    /\ ~open /\ open'
    /\ 0 \notin pool' /\ pool' \cap Protected = {}
    /\ UNCHANGED owned

Alloc(f) ==
    /\ open /\ f \in pool
    /\ pool' = pool \ {f}
    /\ owned' = owned \cup {f}
    /\ UNCHANGED open

Free(f) ==
    /\ open /\ f \in owned
    /\ pool' = pool \cup {f}
    /\ owned' = owned \ {f}
    /\ UNCHANGED open

Next ==
    \/ Open
    \/ \E f \in pool : Alloc(f)
    \/ \E f \in owned : Free(f)

Spec == Init /\ [][Next]_vars

=============================================================================
