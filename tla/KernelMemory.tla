---------------------------- MODULE KernelMemory ----------------------------
(***************************************************************************)
(* Virtual memory on top of the frame allocator: kernel_main from the two  *)
(* trial allocations to the switch to the high stack, paging.c, and the    *)
(* demand paging of page_fault.c.                                          *)
(*                                                                         *)
(* Virtual addresses are page numbers: no branch of this code but the dead *)
(* stack-growth test looks below the page.  A page directory entry is the  *)
(* frame of its table, a page table entry the frame of its page.  The      *)
(* kernel is single threaded with interrupts off, so the only nesting is a *)
(* fault taken inside the handler.                                         *)
(***************************************************************************)
EXTENDS Pmm

CONSTANTS
    PAGE_ENTRIES,                       \* entries of a directory or table
    KERNEL_HEAP_START, KERNEL_HEAP_END, \* pages; END is exclusive
    KERNEL_STACK_TOP_VIRT, KERNEL_STACK_BOTTOM_VIRT,
    TouchedPages                        \* pages the running kernel accesses

\* The layout of paging.h and pmm.h.  The first page table is in a reserved frame
\* and in the identity map, the heap and the stack are above that map, and a
\* bitmap that stays clear of the boot stack describes no frame whose number is
\* that of a heap page.
ASSUME PagingAssumption ==
    /\ PAGE_ENTRIES \in Nat \ {0}
    /\ {KERNEL_HEAP_START, KERNEL_HEAP_END,
        KERNEL_STACK_TOP_VIRT, KERNEL_STACK_BOTTOM_VIRT} \subseteq Nat
    /\ PAGE_ENTRIES <= KERNEL_HEAP_START /\ KERNEL_HEAP_START <= KERNEL_HEAP_END
    /\ KERNEL_HEAP_END <= KERNEL_STACK_BOTTOM_VIRT
    /\ KERNEL_STACK_BOTTOM_VIRT < KERNEL_STACK_TOP_VIRT
    /\ KERNEL_STACK_TOP_VIRT <= PAGE_ENTRIES * PAGE_ENTRIES
    /\ TouchedPages \subseteq 0 .. PAGE_ENTRIES * PAGE_ENTRIES - 1
    /\ FRAME_INDEX(PAGE_TABLE_START_ADDR) \in PageTableFrames \cap (0 .. PAGE_ENTRIES - 1)
    /\ 8 * (BOOT_STACK_LOW - BITMAP_ADDR) <= KERNEL_HEAP_START

VARIABLES
    kpc,                \* where kernel_main or the fault handler is
    page_directory,     \* PDE index -> frame of the table
    page_tables,        \* frame of a table -> PTE index -> frame of the page
    paging_on,          \* CR0.PG
    virt,               \* page being mapped or faulted on
    phys_frame,         \* frame being mapped at virt
    in_fault            \* paging_map_page was called by the fault handler

kVars == <<kpc, page_directory, page_tables, paging_on, virt, phys_frame, in_fault>>
allVars == <<vars, kVars>>

-----------------------------------------------------------------------------
Entries == 0 .. PAGE_ENTRIES - 1
Pages == 0 .. PAGE_ENTRIES * PAGE_ENTRIES - 1
NotPresent == -1

PdirIndex(page)   == page \div PAGE_ENTRIES
PtableIndex(page) == page % PAGE_ENTRIES

\* The processor's page walk.
Translate(page) ==
    IF page_directory[PdirIndex(page)] = NotPresent THEN NotPresent
    ELSE page_tables[page_directory[PdirIndex(page)]][PtableIndex(page)]

IsMapped(page) == Translate(page) # NotPresent

HeapPages  == KERNEL_HEAP_START .. KERNEL_HEAP_END - 1
StackPages == KERNEL_STACK_BOTTOM_VIRT + 1 .. KERNEL_STACK_TOP_VIRT - 1
FirstPageTable == FRAME_INDEX(PAGE_TABLE_START_ADDR)

\* The two tests of page_fault_handler that end in a new page.  The second
\* compares the address with frame->esp, a slot that holds whatever EDI held.
DemandPaged(page, near_esp) ==
    page \in HeapPages \/ (page \in StackPages /\ near_esp)

-----------------------------------------------------------------------------
KInit ==
    /\ Init
    /\ kpc = "boot"
    /\ page_directory = [e \in Entries |-> NotPresent]
    /\ page_tables = << >>
    /\ paging_on = FALSE
    /\ virt = 0 /\ phys_frame = 0 /\ in_fault = FALSE

\* kernel_main up to pmm_reserve_memory_region(RESERVED_TYPE_BITMAP).
PmmBoot ==
    /\ kpc = "boot" /\ reserved_types < ReservationsBeforeAlloc
    /\ Boot
    /\ kpc' = IF reserved_types' = ReservationsBeforeAlloc THEN "frame1" ELSE "boot"
    /\ UNCHANGED <<page_directory, page_tables, paging_on, virt, phys_frame, in_fault>>

\* Mutant: a failed trial allocation is tried again.
MutantTrialAlloc ==
    /\ kpc \in {"frame1", "frame2"}
    /\ \/ PmmAllocFrame /\ kpc' = IF kpc = "frame1" THEN "frame2" ELSE "paging"
       \/ PmmAllocFail /\ kpc' = kpc
    /\ UNCHANGED <<page_directory, page_tables, paging_on, virt, phys_frame, in_fault>>

\* frame1 and frame2: allocated, printed, never used nor given back; failure
\* is printed and ignored.
TrialAlloc ==
    /\ kpc \in {"frame1", "frame2"}
    /\ PmmAllocFrame \/ PmmAllocFail
    /\ kpc' = IF kpc = "frame1" THEN "frame2" ELSE "paging"
    /\ UNCHANGED <<page_directory, page_tables, paging_on, virt, phys_frame, in_fault>>

\* Mutants: the directory itself is linked instead of the table; every entry is
\* linked to the table; the last page of the table is left out.
MutantPagingInit(directory, table) ==
    /\ kpc = "paging"
    /\ page_directory' = directory
    /\ page_tables' = [t \in {FirstPageTable} |-> table]
    /\ paging_on' = TRUE
    /\ kpc' = "reserve"
    /\ UNCHANGED <<vars, virt, phys_frame, in_fault>>
MutantLinkDirectory ==
    MutantPagingInit([e \in Entries |-> IF e = 0 THEN FRAME_INDEX(PAGE_DIR_START_ADDR)
                                        ELSE NotPresent],
                     [e \in Entries |-> e])
MutantLinkAll ==
    MutantPagingInit([e \in Entries |-> FirstPageTable], [e \in Entries |-> e])
MutantShortTable ==
    MutantPagingInit([e \in Entries |-> IF e = 0 THEN FirstPageTable ELSE NotPresent],
                     [e \in Entries |-> IF e = PAGE_ENTRIES - 1 THEN NotPresent ELSE e])

\* paging_init: a cleared directory, one identity table, then CR3 and CR0.PG.
PagingInit ==
    /\ kpc = "paging"
    /\ page_directory' = [e \in Entries |-> IF e = 0 THEN FirstPageTable ELSE NotPresent]
    /\ page_tables' = [t \in {FirstPageTable} |-> [e \in Entries |-> e]]
    /\ paging_on' = TRUE
    /\ kpc' = "reserve"
    /\ UNCHANGED <<vars, virt, phys_frame, in_fault>>

\* Mutant: the stack loop starts at offset 0.
MutantReservePageTables ==
    /\ kpc = "reserve"
    /\ PmmReserveMemoryRegion
    /\ kpc' = "stack" /\ virt' = KERNEL_STACK_BOTTOM_VIRT
    /\ UNCHANGED <<page_directory, page_tables, paging_on, phys_frame, in_fault>>

\* pmm_reserve_memory_region(RESERVED_TYPE_PAGE_TABLE); the stack loop starts
\* one page above the guard page.
ReservePageTables ==
    /\ kpc = "reserve"
    /\ PmmReserveMemoryRegion
    /\ kpc' = "stack" /\ virt' = KERNEL_STACK_BOTTOM_VIRT + 1
    /\ UNCHANGED <<page_directory, page_tables, paging_on, phys_frame, in_fault>>

\* The head of the stack loop: a frame for the next page.
StackAlloc ==
    /\ kpc = "stack" /\ virt < KERNEL_STACK_TOP_VIRT
    /\ \E f \in FreeFrames : AllocFrame(f) /\ phys_frame' = f
    /\ kpc' = "map"
    /\ UNCHANGED <<page_directory, page_tables, paging_on, virt, in_fault>>

StackAllocFails ==
    /\ kpc = "stack" /\ virt < KERNEL_STACK_TOP_VIRT
    /\ PmmAllocFail
    /\ kpc' = "panik"
    /\ UNCHANGED <<page_directory, page_tables, paging_on, virt, phys_frame, in_fault>>

\* switch_to_high_stack; high_stack_entry runs from here on.
SwitchToHighStack ==
    /\ kpc = "stack" /\ virt = KERNEL_STACK_TOP_VIRT
    /\ kpc' = "run"
    /\ UNCHANGED <<vars, page_directory, page_tables, paging_on, virt, phys_frame, in_fault>>

\* paging_map_page returns to the stack loop, or to the fault handler and from
\* there to the faulting instruction.
MapReturns ==
    /\ kpc' = IF in_fault THEN "run" ELSE "mark"
    /\ in_fault' = FALSE
    /\ UNCHANGED virt

\* The tail of the stack loop marks the frame in the bitmap once more.
StackMark ==
    /\ kpc = "mark"
    /\ SetFrameBitmap({phys_frame})
    /\ kpc' = "stack" /\ virt' = virt + 1
    /\ UNCHANGED <<pc, idx, e820, memVars, reserved_types, reserved, owned,
                   page_directory, page_tables, paging_on, phys_frame, in_fault>>

\* Mutant: the table index is not taken from the address.
MutantMapInTable ==
    LET table == page_directory[PdirIndex(virt)] IN
    /\ kpc = "map" /\ table # NotPresent
    /\ page_tables' = [page_tables EXCEPT ![table][0] = phys_frame]
    /\ MapReturns
    /\ UNCHANGED <<vars, page_directory, paging_on, phys_frame>>

\* paging_map_page, the table of virt exists.
MapInTable ==
    LET table == page_directory[PdirIndex(virt)] IN
    /\ kpc = "map" /\ table # NotPresent
    /\ page_tables' = [page_tables EXCEPT ![table][PtableIndex(virt)] = phys_frame]
    /\ MapReturns
    /\ UNCHANGED <<vars, page_directory, paging_on, phys_frame>>

\* Mutant: the present bit of the directory entry is not looked at.
MutantMapNeedsTable == kpc = "map"

\* paging_map_page, no table: it allocates one and clears it through its
\* physical address, which must itself be mapped.
MapNeedsTable ==
    /\ kpc = "map" /\ page_directory[PdirIndex(virt)] = NotPresent

MapNewTable ==
    /\ MapNeedsTable
    /\ \E table \in FreeFrames :
         /\ AllocFrame(table)
         /\ IF Translate(table) = table
            THEN /\ page_directory' = [page_directory EXCEPT ![PdirIndex(virt)] = table]
                 /\ page_tables' =
                      [t \in DOMAIN page_tables \cup {table} |->
                         IF t = table
                         THEN [e \in Entries |-> IF e = PtableIndex(virt)
                                                 THEN phys_frame ELSE NotPresent]
                         ELSE page_tables[t]]
                 /\ MapReturns
            ELSE /\ kpc' = "fault" /\ virt' = table /\ in_fault' = TRUE
                 /\ UNCHANGED <<page_directory, page_tables>>
    /\ UNCHANGED <<paging_on, phys_frame>>

MapNoFrame ==
    /\ MapNeedsTable
    /\ PmmAllocFail
    /\ kpc' = "panik"
    /\ UNCHANGED <<page_directory, page_tables, paging_on, virt, phys_frame, in_fault>>

\* The running kernel accesses a page: nothing happens if it is mapped.
Touch(page) ==
    /\ kpc = "run"
    /\ IsMapped(page)
    /\ UNCHANGED allVars

TouchFaults(page) ==
    /\ kpc = "run"
    /\ ~IsMapped(page)
    /\ kpc' = "fault" /\ virt' = page /\ in_fault' = TRUE
    /\ UNCHANGED <<vars, page_directory, page_tables, paging_on, phys_frame>>

\* page_fault_handler: a demand-paged address gets a frame.
FaultAlloc(near_esp) ==
    /\ kpc = "fault" /\ DemandPaged(virt, near_esp)
    /\ \E f \in FreeFrames : AllocFrame(f) /\ phys_frame' = f
    /\ kpc' = "map"
    /\ UNCHANGED <<page_directory, page_tables, paging_on, virt, in_fault>>

FaultAllocFails(near_esp) ==
    /\ kpc = "fault" /\ DemandPaged(virt, near_esp)
    /\ PmmAllocFail
    /\ kpc' = "panik"
    /\ UNCHANGED <<page_directory, page_tables, paging_on, virt, phys_frame, in_fault>>

\* Any other address is reported and the processor halted.  The branch for the
\* guard page comes first, but its write to address 0 hits the identity map
\* and execution falls through to here.
FaultHalts(near_esp) ==
    /\ kpc = "fault" /\ ~DemandPaged(virt, near_esp)
    /\ kpc' = "halt"
    /\ UNCHANGED <<vars, page_directory, page_tables, paging_on, virt, phys_frame, in_fault>>

\* panik and the handler end in a hlt loop.
Stopped ==
    /\ kpc \in {"panik", "halt"} \/ pc = "smashed"
    /\ UNCHANGED allVars

\* Everything the kernel does by itself; what it touches once it runs is input.
KStep ==
    \/ PmmBoot \/ TrialAlloc \/ PagingInit \/ ReservePageTables
    \/ StackAlloc \/ StackAllocFails \/ StackMark \/ SwitchToHighStack
    \/ MapInTable \/ MapNewTable \/ MapNoFrame
    \/ \E near_esp \in BOOLEAN :
         FaultAlloc(near_esp) \/ FaultAllocFails(near_esp) \/ FaultHalts(near_esp)

KNext ==
    \/ KStep
    \/ \E page \in TouchedPages : Touch(page) \/ TouchFaults(page)
    \/ Stopped

\* One thread, never preempted: its next step always comes.
KSpec == KInit /\ [][KNext]_allVars /\ WF_allVars(KStep)

-----------------------------------------------------------------------------
(* Properties.                                                             *)

\* Every variable stays in its domain, and a present directory entry points to
\* a page table.
KTypeOK ==
    /\ TypeOK
    /\ kpc \in {"boot", "frame1", "frame2", "paging", "reserve", "stack", "map",
                "mark", "run", "fault", "panik", "halt"}
    /\ page_directory \in [Entries -> Nat \cup {NotPresent}]
    /\ \A e \in Entries :
         page_directory[e] # NotPresent => page_directory[e] \in DOMAIN page_tables
    /\ \A t \in DOMAIN page_tables :
         page_tables[t] \in [Entries -> Nat \cup {NotPresent}]
    /\ paging_on \in BOOLEAN /\ in_fault \in BOOLEAN
    /\ virt \in Nat /\ phys_frame \in Nat

\* The pages above the identity map that have a frame.
HighMapped == {p \in Pages : p >= PAGE_ENTRIES /\ IsMapped(p)}

\* Two pages never share a frame, and no page shows a page table, the page
\* directory, the kernel image or any other frame put aside.
FramesNotAliased ==
    /\ \A p, q \in HighMapped : p # q => Translate(p) # Translate(q)
    /\ \A p \in HighMapped : Translate(p) \notin DOMAIN page_tables \cup reserved

\* A frame that page tables use is held: the allocator can never hand it out
\* a second time.
MappedFramesHeld ==
    /\ \A p \in HighMapped : Translate(p) \in owned
    /\ DOMAIN page_tables \subseteq owned \cup {FirstPageTable}
    /\ owned \subseteq frame_bitmap

\* Every page table can be written through its physical address, which is how
\* paging_map_page reaches it, and no two directory entries share one.
TablesReachable ==
    paging_on =>
      /\ \A t \in DOMAIN page_tables : Translate(t) = t
      /\ \A d, e \in Entries : d # e /\ page_directory[d] # NotPresent
                                 => page_directory[d] # page_directory[e]

\* The identity map, through which the kernel, VGA memory, the page tables and
\* the frame bitmap are used, is never disturbed.
IdentityMapped == paging_on => \A p \in Entries : Translate(p) = p

\* When the kernel runs on the high stack all of it is mapped but the guard
\* page, and nothing is ever mapped outside the stack and the heap.
StackBacked ==
    /\ HighMapped \subseteq StackPages \cup HeapPages
    /\ kpc = "run" => StackPages \subseteq HighMapped

\* A mapping, once made, is never changed or dropped.
MappingsPermanent ==
    [][paging_on => \A p \in Pages : IsMapped(p) => Translate(p)' = Translate(p)]_allVars

\* A fault on a heap page ends with the page mapped, or with the kernel stopped.
HeapFaultsEnd ==
    \A p \in HeapPages :
      (kpc = "fault" /\ virt = p) ~> (IsMapped(p) \/ kpc \in {"panik", "halt"})

\* Boot ends on the high stack or with a stopped kernel.
KernelStarts == <>(kpc \in {"run", "panik", "halt"} \/ pc = "smashed")

(* Stated by the code, refuted by a run.                                   *)

\* "Disable interrupts to prevent nested faults": the handler is only ever
\* entered for an address the running kernel touched.
NoNestedFault == kpc = "fault" => virt \in TouchedPages

=============================================================================
