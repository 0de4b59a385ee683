--------------------------- MODULE MCKernelMemory ---------------------------
(***************************************************************************)
(* KernelMemory on the scaled machine of MCPmm: 16 entries per table, so   *)
(* frames and pages 0-15 are the identity map.  The heap takes two page    *)
(* directory entries (10 and 11), the stack the top of entry 12.           *)
(***************************************************************************)
EXTENDS KernelMemory

Entry(base, length, type) == [base |-> base, length |-> length, type |-> type]

\* n frames of RAM above the low megabyte: from none, so that every allocation
\* of the boot sequence fails in some behaviour, to beyond the identity map.
RamSize(n) == <<Entry(0, 76, AVAILABLE), Entry(76, 20, 2), Entry(96, 16 * n, AVAILABLE)>>
RamSizes == {RamSize(n) : n \in 1 .. 15}
PlentyOfRam == {RamSize(30)}

\* Heap pages under both entries, the guard page, a stack page, a page of the
\* identity map and one that nothing ever maps.
Touched == {160, 161, 175, 176, 204, 206, 11, 240}
HeapOnly == {160, 161, 175, 176}

=============================================================================
