------------------------- MODULE KernelMemoryProofs -------------------------
(***************************************************************************)
(* Proofs about KernelMemory for every firmware map, layout and sequence   *)
(* of accesses.                                                            *)
(*                                                                         *)
(* Every step of the kernel is a step or a stutter of Pmm (PmmStep), so    *)
(* the invariant IInv of PmmProofs holds here too.  On top of it KInv says *)
(* what the page tables look like.  The page walk is only unfolded in the  *)
(* MapEffect lemmas: a call of paging_map_page changes the translation of  *)
(* one page and of no other.                                               *)
(***************************************************************************)
EXTENDS KernelMemory, PmmProofs

\* A page below n * n has a directory index below n.
LEMMA QuotientBound ==
    ASSUME NEW n \in Nat \ {0}, NEW p \in 0 .. n * n - 1
    PROVE  p \div n \in 0 .. n - 1
  <1>1. n * n \in Nat /\ p \in Nat
    OBVIOUS
  <1>2. p \div n \in Nat /\ n * (p \div n) <= p
    BY <1>1
  <1>3. CASE p \div n >= n
    <2>1. n * (p \div n) >= n * n
      BY <1>2, <1>3
    <2>. QED  BY <1>1, <1>2, <2>1
  <1>. QED  BY <1>2, <1>3

\* A page number is its directory index and its table index.
LEMMA PageSplit ==
    ASSUME NEW p \in Nat, NEW q \in Nat, NEW n \in Nat \ {0},
           p \div n = q \div n, p % n = q % n
    PROVE  p = q
  <1>1. p = n * (p \div n) + (p % n)
    OBVIOUS
  <1>2. q = n * (q \div n) + (q % n)
    OBVIOUS
  <1>. QED  BY <1>1, <1>2

\* Two different pages differ in one of the two indices, and both are entries.
LEMMA PageIndex ==
    /\ Entries \subseteq Pages /\ 0 \in Entries /\ Pages \subseteq Nat
    /\ \A p \in Pages : PdirIndex(p) \in Entries /\ PtableIndex(p) \in Entries
    /\ \A p, q \in Pages :
         PdirIndex(p) = PdirIndex(q) /\ PtableIndex(p) = PtableIndex(q) => p = q
  <1>0. PAGE_ENTRIES \in Nat \ {0}
    BY PagingAssumption
  <1>1. PAGE_ENTRIES <= PAGE_ENTRIES * PAGE_ENTRIES /\ PAGE_ENTRIES * PAGE_ENTRIES \in Nat
    BY <1>0
  <1>2. Entries \subseteq Pages /\ 0 \in Entries /\ Pages \subseteq Nat
    BY <1>0, <1>1 DEF Entries, Pages
  <1>3. ASSUME NEW p \in Pages
        PROVE  PdirIndex(p) \in Entries /\ PtableIndex(p) \in Entries
    <2>1. p \in 0 .. PAGE_ENTRIES * PAGE_ENTRIES - 1 /\ p \in Int
      BY <1>1 DEF Pages
    <2>. QED  BY <1>0, <2>1, QuotientBound, ModBound DEF PdirIndex, PtableIndex, Entries
  <1>4. ASSUME NEW p \in Pages, NEW q \in Pages,
               PdirIndex(p) = PdirIndex(q), PtableIndex(p) = PtableIndex(q)
        PROVE  p = q
    BY <1>0, <1>2, <1>4, PageSplit DEF PdirIndex, PtableIndex
  <1>. QED  BY <1>2, <1>3, <1>4

\* The heap and the stack are pages above the identity map, and apart.
LEMMA HighPages ==
    /\ HeapPages \cup StackPages \subseteq Pages
    /\ \A p \in HeapPages \cup StackPages : p >= KERNEL_HEAP_START /\ p >= PAGE_ENTRIES
    /\ KERNEL_HEAP_START <= PAGE_ENTRIES * PAGE_ENTRIES
    /\ HeapPages \cap StackPages = {}
  BY PagingAssumption DEF HeapPages, StackPages, Pages

-----------------------------------------------------------------------------
(* The inductive invariant.                                                *)

\* The allocator serves from the first allocation on; before paging_init there
\* is no page table.  A bitmap that reaches the boot stack ends the boot.
OrderInv ==
    /\ kpc = "boot" => reserved_types < ReservationsBeforeAlloc
    /\ kpc # "boot" => Serving
    /\ paging_on = (kpc \notin {"boot", "frame1", "frame2", "paging"})
    /\ ~paging_on => DOMAIN page_tables = {}
    /\ pc \in {"scan", "serve"} => ~BitmapHitsBootStack

\* Every table but the first is an owned frame, and no two directory entries
\* share one.
TableInv ==
    /\ DOMAIN page_tables \subseteq owned \cup {FirstPageTable}
    /\ \A d, e \in Entries : d # e /\ page_directory[d] # NotPresent
                               => page_directory[d] # page_directory[e]

\* What high pages are mapped to, and that the identity map stands.
MapInv ==
    /\ IdentityMapped
    /\ HighMapped \subseteq StackPages \cup HeapPages
    /\ \A p \in HighMapped : Translate(p) \in owned \ DOMAIN page_tables
    /\ \A p, q \in HighMapped : p # q => Translate(p) # Translate(q)

\* The frame on its way into the page tables is owned and used nowhere yet.
FrameInv ==
    /\ kpc = "map" =>
         /\ virt \in StackPages \cup HeapPages
         /\ phys_frame \in owned \ DOMAIN page_tables
         /\ \A p \in HighMapped : Translate(p) # phys_frame
    /\ kpc = "mark" => phys_frame \in owned

\* Where the stack loop is, and who called paging_map_page.
LoopInv ==
    /\ kpc = "stack" => virt \in KERNEL_STACK_BOTTOM_VIRT + 1 .. KERNEL_STACK_TOP_VIRT
    /\ kpc \in {"map", "mark"} /\ ~in_fault => virt \in StackPages
    /\ kpc = "fault" => in_fault
    /\ kpc \notin {"map", "fault", "panik", "halt"} => ~in_fault

\* No frame of RAM has the number of a page of the heap or the stack.
RamBelowHeap == total_frames <= KERNEL_HEAP_START

\* The stack loop has mapped the pages behind it and no other stack page; a
\* fault of the running kernel finds the whole stack mapped and its page not.
StackInv ==
    /\ kpc = "reserve" => \A p \in StackPages : ~IsMapped(p)
    /\ kpc \in {"stack", "map"} /\ ~in_fault =>
         \A p \in StackPages : IsMapped(p) <=> p < virt
    /\ kpc = "mark" => \A p \in StackPages : IsMapped(p) <=> p <= virt
    /\ kpc = "run" \/ (kpc = "map" /\ in_fault) => \A p \in StackPages : IsMapped(p)
    /\ kpc = "fault" =>
         /\ virt \in Pages /\ ~IsMapped(virt)
         /\ virt \in HeapPages \cup StackPages => \A p \in StackPages : IsMapped(p)
    /\ kpc = "map" => ~IsMapped(virt)

\* What depends on RAM ending below the heap: tables are in the identity map,
\* and a nested fault finds nothing to map.
RamInv == RamBelowHeap => DOMAIN page_tables \subseteq Entries /\ StackInv

KInv == KTypeOK /\ OrderInv /\ TableInv /\ MapInv /\ FrameInv /\ LoopInv /\ RamInv

-----------------------------------------------------------------------------
(* What a step does to the frame allocator and to the page walk.           *)

\* Every step of the kernel is a step of pmm.c or leaves pmm.c alone; the stack
\* loop's second marking of a frame changes nothing.  Nothing is given back, and
\* the description of RAM is final when the allocator starts to serve.
LEMMA PmmStep ==
    ASSUME IInv, KInv, [KNext]_allVars
    PROVE  /\ [Next]_vars
           /\ owned \subseteq owned'
           /\ kpc # "boot" => UNCHANGED <<pc, memVars>>
  <1>1. CASE PmmBoot
    <2>1. Boot /\ kpc = "boot"
      BY <1>1 DEF PmmBoot
    <2>2. owned' = owned
      BY <2>1 DEF Boot, ParseEntry, PmmInitStart, MaxRegion, FillBitmap, ScanRegion,
           PmmInitDone, PmmReserveMemoryRegion
    <2>. QED  BY <2>1, <2>2 DEF Next
  <1>2. ASSUME PmmAllocFrame  PROVE [Next]_vars /\ owned \subseteq owned' /\ UNCHANGED <<pc, memVars>>
    <2>1. owned \subseteq owned' /\ UNCHANGED <<pc, memVars>>
      BY <1>2 DEF PmmAllocFrame, AllocFrame, TakeFrame
    <2>. QED  BY <1>2, <2>1 DEF Next, Client
  <1>3. ASSUME UNCHANGED vars  PROVE [Next]_vars /\ owned \subseteq owned' /\ UNCHANGED <<pc, memVars>>
    BY <1>3 DEF vars, memVars
  <1>4. CASE TrialAlloc
    BY <1>2, <1>3, <1>4 DEF TrialAlloc, PmmAllocFail
  <1>5. CASE ReservePageTables
    BY <1>5 DEF ReservePageTables, PmmReserveMemoryRegion, Next, Boot
  <1>6. CASE StackAlloc \/ \E near_esp \in BOOLEAN : FaultAlloc(near_esp)
    BY <1>2, <1>6 DEF StackAlloc, FaultAlloc, PmmAllocFrame
  <1>7. CASE MapNewTable
    BY <1>2, <1>7 DEF MapNewTable, PmmAllocFrame
  <1>8. CASE StackMark
    <2>1. phys_frame \in frame_bitmap
      BY <1>8 DEF StackMark, KInv, FrameInv, IInv, MarkInv
    <2>2. {phys_frame} \ frame_bitmap = {} /\ frame_bitmap \cup {phys_frame} = frame_bitmap
      BY <2>1
    <2>3. Cardinality({phys_frame} \ frame_bitmap) = 0
      BY <2>2, FS_EmptySet
    <2>4. used_frames \in 0 .. WORD - 1 /\ WORD \in Nat
      BY PmmAssumption DEF IInv, TypeOK
    <2>5. used_frames % WORD = used_frames
      BY <2>4
    <2>6. used_frames' = used_frames /\ frame_bitmap' = frame_bitmap
      BY <1>8, <2>2, <2>3, <2>4, <2>5 DEF StackMark, SetFrameBitmap
    <2>7. UNCHANGED vars
      BY <1>8, <2>6 DEF StackMark, vars, memVars
    <2>. QED  BY <1>3, <2>7
  <1>9. CASE UNCHANGED vars
    BY <1>3, <1>9
  <1>. QED  BY <1>1, <1>4, <1>5, <1>6, <1>7, <1>8, <1>9
            DEF KNext, KStep, PagingInit, StackAllocFails, SwitchToHighStack, MapInTable,
                MapNoFrame, FaultAllocFails, FaultHalts, Touch, TouchFaults, Stopped,
                PmmAllocFail, allVars

\* The page walk ends in a frame or finds nothing.
LEMMA TranslateType ==
    ASSUME KTypeOK, NEW p \in Pages
    PROVE  Translate(p) \in Nat \cup {NotPresent}
  <1>. DEFINE d == page_directory[PdirIndex(p)]
  <1>1. PdirIndex(p) \in Entries /\ PtableIndex(p) \in Entries
    BY PageIndex
  <1>2. d # NotPresent => page_tables[d] \in [Entries -> Nat \cup {NotPresent}]
    BY <1>1 DEF KTypeOK
  <1>3. d # NotPresent => page_tables[d][PtableIndex(p)] \in Nat \cup {NotPresent}
    BY <1>1, <1>2
  <1>. QED  BY <1>3 DEF Translate

\* While the page tables stay as they are, so does every translation.
LEMMA QuietWalk ==
    ASSUME UNCHANGED <<page_directory, page_tables>>
    PROVE  /\ \A p : Translate(p)' = Translate(p)
           /\ \A p : IsMapped(p)' = IsMapped(p)
           /\ HighMapped' = HighMapped
  BY DEF Translate, IsMapped, HighMapped

\* What a completed call of paging_map_page does to the page walk.
MapEffect ==
    \A p \in Pages : Translate(p)' = IF p = virt THEN phys_frame ELSE Translate(p)

\* paging_map_page with a table that exists: no other page is affected, because
\* no other directory entry leads to the table.
LEMMA InTableEffect ==
    ASSUME KTypeOK, TableInv, MapInTable, virt \in Pages
    PROVE  /\ MapEffect
           /\ DOMAIN page_tables' = DOMAIN page_tables
           /\ \A t \in DOMAIN page_tables' :
                page_tables'[t] \in [Entries -> Nat \cup {NotPresent}]
  <1>. DEFINE table == page_directory[PdirIndex(virt)]
  <1>1. /\ table # NotPresent /\ page_directory' = page_directory
        /\ page_tables' = [page_tables EXCEPT ![table][PtableIndex(virt)] = phys_frame]
    BY DEF MapInTable
  <1>2. PdirIndex(virt) \in Entries /\ PtableIndex(virt) \in Entries
    BY PageIndex
  <1>3. table \in DOMAIN page_tables /\ phys_frame \in Nat
    BY <1>1, <1>2 DEF KTypeOK
  <1>4. DOMAIN page_tables' = DOMAIN page_tables
    BY <1>1
  <1>5. page_tables'[table] = [page_tables[table] EXCEPT ![PtableIndex(virt)] = phys_frame]
    BY <1>1, <1>3
  <1>6. \A t \in DOMAIN page_tables : t # table => page_tables'[t] = page_tables[t]
    BY <1>1
  <1>7. page_tables[table] \in [Entries -> Nat \cup {NotPresent}]
    BY <1>3 DEF KTypeOK
  <1>8. ASSUME NEW t \in DOMAIN page_tables'
        PROVE  page_tables'[t] \in [Entries -> Nat \cup {NotPresent}]
    <2>1. page_tables'[table] \in [Entries -> Nat \cup {NotPresent}]
      BY <1>3, <1>5, <1>7
    <2>2. t # table => page_tables'[t] \in [Entries -> Nat \cup {NotPresent}]
      BY <1>4, <1>6 DEF KTypeOK
    <2>. QED  BY <2>1, <2>2
  <1>9. ASSUME NEW p \in Pages
        PROVE  Translate(p)' = IF p = virt THEN phys_frame ELSE Translate(p)
    <2>. DEFINE d == page_directory[PdirIndex(p)]
    <2>0. PdirIndex(p) \in Entries /\ PtableIndex(p) \in Entries
      BY PageIndex
    <2>1. CASE PdirIndex(p) = PdirIndex(virt)
      <3>1. PtableIndex(p) = PtableIndex(virt) <=> p = virt
        BY <2>1, PageIndex
      <3>2. page_tables'[table][PtableIndex(p)] =
              IF p = virt THEN phys_frame ELSE page_tables[table][PtableIndex(p)]
        BY <1>2, <1>5, <1>7, <2>0, <3>1
      <3>. QED  BY <1>1, <2>1, <3>2 DEF Translate
    <2>2. CASE PdirIndex(p) # PdirIndex(virt)
      <3>1. p # virt
        BY <2>2
      <3>2. CASE d = NotPresent
        BY <1>1, <3>1, <3>2 DEF Translate
      <3>3. CASE d # NotPresent
        <4>1. d # table /\ d \in DOMAIN page_tables
          BY <1>2, <2>0, <2>2, <3>3 DEF TableInv, KTypeOK
        <4>. QED  BY <1>1, <1>6, <3>1, <3>3, <4>1 DEF Translate
      <3>. QED  BY <3>2, <3>3
    <2>. QED  BY <2>1, <2>2
  <1>. QED  BY <1>4, <1>8, <1>9 DEF MapEffect

\* paging_map_page with a table it has just allocated and cleared.
LEMMA NewTableEffect ==
    ASSUME KTypeOK, virt \in Pages, page_directory[PdirIndex(virt)] = NotPresent,
           NEW table \in Nat, table \notin DOMAIN page_tables,
           page_directory' = [page_directory EXCEPT ![PdirIndex(virt)] = table],
           page_tables' = [t \in DOMAIN page_tables \cup {table} |->
                             IF t = table
                             THEN [e \in Entries |-> IF e = PtableIndex(virt)
                                                     THEN phys_frame ELSE NotPresent]
                             ELSE page_tables[t]]
    PROVE  /\ MapEffect
           /\ DOMAIN page_tables' = DOMAIN page_tables \cup {table}
           /\ \A t \in DOMAIN page_tables' :
                page_tables'[t] \in [Entries -> Nat \cup {NotPresent}]
  <1>1. PdirIndex(virt) \in Entries /\ PtableIndex(virt) \in Entries /\ phys_frame \in Nat
    BY PageIndex DEF KTypeOK
  <1>2. \A d \in Entries : page_directory'[d] =
          IF d = PdirIndex(virt) THEN table ELSE page_directory[d]
    BY <1>1 DEF KTypeOK
  <1>3. \A t \in DOMAIN page_tables : page_tables'[t] = page_tables[t]
    OBVIOUS
  <1>4. \A e \in Entries : page_tables'[table][e] =
          IF e = PtableIndex(virt) THEN phys_frame ELSE NotPresent
    OBVIOUS
  <1>5. DOMAIN page_tables' = DOMAIN page_tables \cup {table}
    OBVIOUS
  <1>6. ASSUME NEW t \in DOMAIN page_tables'
        PROVE  page_tables'[t] \in [Entries -> Nat \cup {NotPresent}]
    BY <1>1, <1>3, <1>5 DEF KTypeOK
  <1>7. ASSUME NEW p \in Pages
        PROVE  Translate(p)' = IF p = virt THEN phys_frame ELSE Translate(p)
    <2>0. PdirIndex(p) \in Entries /\ PtableIndex(p) \in Entries
      BY PageIndex
    <2>1. CASE PdirIndex(p) = PdirIndex(virt)
      <3>1. PtableIndex(p) = PtableIndex(virt) <=> p = virt
        BY <2>1, PageIndex
      <3>2. page_directory'[PdirIndex(p)] = table /\ table # NotPresent
        BY <1>2, <2>0, <2>1 DEF NotPresent
      <3>3. Translate(p)' = page_tables'[table][PtableIndex(p)]
        BY <3>2 DEF Translate
      <3>4. Translate(p) = NotPresent
        BY <2>1 DEF Translate
      <3>. QED  BY <1>4, <2>0, <3>1, <3>3, <3>4
    <2>2. CASE PdirIndex(p) # PdirIndex(virt)
      <3>1. p # virt /\ page_directory'[PdirIndex(p)] = page_directory[PdirIndex(p)]
        BY <1>2, <2>0, <2>2
      <3>2. page_directory[PdirIndex(p)] # NotPresent
              => page_directory[PdirIndex(p)] \in DOMAIN page_tables
        BY <2>0 DEF KTypeOK
      <3>. QED  BY <1>3, <3>1, <3>2 DEF Translate
    <2>. QED  BY <2>1, <2>2
  <1>. QED  BY <1>5, <1>6, <1>7 DEF MapEffect

\* Page tables are in marked frames, the first one in a reserved frame: none of
\* them is ever allocated.
LEMMA TablesMarked ==
    ASSUME IInv, TableInv, Serving
    PROVE  DOMAIN page_tables \subseteq frame_bitmap /\ FirstPageTable \in reserved
  <1>1. ReservedFrames(ReserveOrder[1]) \subseteq reserved
    <2>1. 1 \in 1 .. reserved_types
      BY DEF IInv, TypeOK, Serving, ReservationsBeforeAlloc
    <2>. QED  BY <2>1 DEF IInv, MarkInv
  <1>2. FirstPageTable \in LowMemoryFrames
    BY PagingAssumption, LayoutAssumption DEF FirstPageTable
  <1>3. FirstPageTable \in reserved
    BY <1>1, <1>2 DEF ReservedFrames, ReserveOrder
  <1>. QED  BY <1>3 DEF TableInv, IInv, MarkInv

-----------------------------------------------------------------------------
(* Steps preserve the invariant, one part at a time.                       *)

\* Every action keeps the page tables well formed.
LEMMA KTypeStep ==
    ASSUME IInv, IInv', KInv, [KNext]_allVars
    PROVE  KTypeOK'
  <1>. USE DEF KTypeOK
  <1>0. KTypeOK /\ TypeOK' /\ virt + 1 \in Nat
    BY DEF KInv, IInv
  <1>1. FreeFrames \subseteq Nat
    BY DEF FreeFrames
  <1>2. CASE PagingInit
    <2>1. FirstPageTable \in Nat
      BY PagingAssumption DEF FirstPageTable
    <2>2. page_directory' \in [Entries -> Nat \cup {NotPresent}]
      BY <1>2, <2>1 DEF PagingInit
    <2>3. DOMAIN page_tables' = {FirstPageTable}
      BY <1>2 DEF PagingInit
    <2>4. page_tables'[FirstPageTable] = [e \in Entries |-> e]
      BY <1>2 DEF PagingInit
    <2>5. page_tables'[FirstPageTable] \in [Entries -> Nat \cup {NotPresent}]
      BY <2>4 DEF Entries
    <2>6. \A e \in Entries : page_directory'[e] # NotPresent
                              => page_directory'[e] \in DOMAIN page_tables'
      BY <1>2, <2>3 DEF PagingInit
    <2>. QED  BY <1>0, <1>2, <2>2, <2>3, <2>5, <2>6 DEF PagingInit
  <1>3. CASE MapInTable
    <2>1. virt \in Pages
      BY <1>3, HighPages DEF MapInTable, KInv, FrameInv
    <2>2. /\ DOMAIN page_tables' = DOMAIN page_tables
          /\ \A t \in DOMAIN page_tables' :
               page_tables'[t] \in [Entries -> Nat \cup {NotPresent}]
      BY <1>0, <1>3, <2>1, InTableEffect DEF KInv
    <2>. QED  BY <1>0, <1>3, <2>2 DEF MapInTable, MapReturns
  <1>4. CASE MapNewTable
    <2>1. PICK table \in FreeFrames :
            \/ /\ page_directory' = [page_directory EXCEPT ![PdirIndex(virt)] = table]
               /\ page_tables' =
                    [t \in DOMAIN page_tables \cup {table} |->
                       IF t = table
                       THEN [e \in Entries |-> IF e = PtableIndex(virt)
                                               THEN phys_frame ELSE NotPresent]
                       ELSE page_tables[t]]
               /\ MapReturns
            \/ /\ kpc' = "fault" /\ virt' = table /\ in_fault' = TRUE
               /\ UNCHANGED <<page_directory, page_tables>>
      BY <1>4 DEF MapNewTable
    <2>2. /\ virt \in Pages /\ kpc = "map" /\ page_directory[PdirIndex(virt)] = NotPresent
          /\ UNCHANGED <<paging_on, phys_frame>>
      BY <1>4, HighPages DEF MapNewTable, MapNeedsTable, KInv, FrameInv
    <2>3. table \in Nat /\ table \notin DOMAIN page_tables
      BY <1>1, <2>2, TablesMarked DEF FreeFrames, KInv, OrderInv
    <2>4. CASE kpc' = "fault" /\ UNCHANGED <<page_directory, page_tables>>
      BY <1>0, <2>1, <2>2, <2>3, <2>4 DEF MapReturns
    <2>5. CASE /\ page_directory' = [page_directory EXCEPT ![PdirIndex(virt)] = table]
               /\ page_tables' =
                    [t \in DOMAIN page_tables \cup {table} |->
                       IF t = table
                       THEN [e \in Entries |-> IF e = PtableIndex(virt)
                                               THEN phys_frame ELSE NotPresent]
                       ELSE page_tables[t]]
               /\ MapReturns
      <3>1. /\ DOMAIN page_tables' = DOMAIN page_tables \cup {table}
            /\ \A t \in DOMAIN page_tables' :
                 page_tables'[t] \in [Entries -> Nat \cup {NotPresent}]
        BY <1>0, <2>2, <2>3, <2>5, NewTableEffect
      <3>2. /\ page_directory' \in [Entries -> Nat \cup {NotPresent}]
            /\ \A e \in Entries : page_directory'[e] = table
                                   \/ page_directory'[e] = page_directory[e]
        BY <1>0, <2>3, <2>5
      <3>3. \A e \in Entries : page_directory'[e] # NotPresent
                                => page_directory'[e] \in DOMAIN page_tables'
        BY <1>0, <3>1, <3>2
      <3>4. kpc' \in {"run", "mark"} /\ in_fault' = FALSE /\ virt' = virt
        BY <2>5 DEF MapReturns
      <3>. QED  BY <1>0, <2>2, <3>1, <3>2, <3>3, <3>4
    <2>. QED  BY <2>1, <2>4, <2>5
  <1>5. CASE StackAlloc \/ \E near_esp \in BOOLEAN : FaultAlloc(near_esp)
    BY <1>0, <1>1, <1>5 DEF StackAlloc, FaultAlloc
  <1>6. CASE ReservePageTables
    BY <1>0, <1>6, PagingAssumption DEF ReservePageTables
  <1>7. CASE PmmBoot \/ TrialAlloc \/ StackAllocFails \/ StackMark
             \/ SwitchToHighStack \/ MapNoFrame
    BY <1>0, <1>7 DEF PmmBoot, TrialAlloc, StackAllocFails, StackMark,
         SwitchToHighStack, MapNoFrame
  <1>8. CASE \E near_esp \in BOOLEAN : FaultAllocFails(near_esp) \/ FaultHalts(near_esp)
    BY <1>0, <1>8 DEF FaultAllocFails, FaultHalts
  <1>9. CASE \E page \in TouchedPages : TouchFaults(page)
    <2>1. TouchedPages \subseteq Nat
      BY PagingAssumption
    <2>. QED  BY <1>0, <1>9, <2>1 DEF TouchFaults
  <1>10. CASE UNCHANGED allVars
    BY <1>0, <1>10 DEF allVars, kVars
  <1>. QED  BY <1>2, <1>3, <1>4, <1>5, <1>6, <1>7, <1>8, <1>9, <1>10
            DEF KNext, KStep, Touch, Stopped

\* Boot goes on in its order, and a kernel whose bitmap reaches its stack does
\* not get to scan.
LEMMA OrderStep ==
    ASSUME IInv, IInv', KInv, [KNext]_allVars
    PROVE  OrderInv'
  <1>. USE DEF KInv, OrderInv, Serving, ReservationsBeforeAlloc
  <1>1. (pc \in {"scan", "serve"} => ~BitmapHitsBootStack)'
    <2>1. CASE kpc = "boot" /\ PmmBoot
      <3>1. CASE FillBitmap
        BY <3>1 DEF FillBitmap, memVars, BitmapHitsBootStack, BitmapBytes
      <3>2. CASE ~FillBitmap
        BY <2>1, <3>2 DEF PmmBoot, Boot, ParseEntry, PmmInitStart, MaxRegion, ScanRegion,
             PmmInitDone, PmmReserveMemoryRegion, memVars, BitmapHitsBootStack, BitmapBytes
      <3>. QED  BY <3>1, <3>2
    <2>2. CASE kpc # "boot"
      BY <2>2, PmmStep DEF memVars, BitmapHitsBootStack, BitmapBytes
    <2>3. CASE kpc = "boot" /\ ~PmmBoot
      <3>1. UNCHANGED vars
        BY <2>3 DEF KNext, KStep, TrialAlloc, PagingInit, ReservePageTables, StackAlloc,
             StackAllocFails, StackMark, SwitchToHighStack, MapInTable, MapNeedsTable,
             MapNewTable, MapNoFrame, FaultAlloc, FaultAllocFails, FaultHalts, Touch,
             TouchFaults, Stopped, allVars
      <3>. QED  BY <3>1 DEF vars, BitmapHitsBootStack, BitmapBytes
    <2>. QED  BY <2>1, <2>2, <2>3
  <1>2. CASE PmmBoot
    <2>1. reserved_types' \in 0 .. reserved_types + 1 /\ reserved_types \in Nat
      BY <1>2 DEF PmmBoot, Boot, ParseEntry, PmmInitStart, MaxRegion, FillBitmap,
           ScanRegion, PmmInitDone, PmmReserveMemoryRegion, IInv, TypeOK
    <2>2. pc' # "serve" => reserved_types' = 0
      BY DEF IInv, PhaseInv
    <2>. QED  BY <1>1, <1>2, <2>1, <2>2 DEF PmmBoot
  <1>3. CASE kpc # "boot"
    <2>1. reserved_types' >= 3 /\ pc' = pc
      <3>1. pc' = pc
        BY <1>3, PmmStep
      <3>2. reserved_types' = reserved_types \/ PmmReserveMemoryRegion
        BY <1>3 DEF KNext, KStep, PmmBoot, TrialAlloc, PagingInit, ReservePageTables, StackAlloc,
             StackAllocFails, StackMark, SwitchToHighStack, MapInTable, MapNeedsTable,
             MapNewTable, MapNoFrame, FaultAlloc, FaultAllocFails, FaultHalts, Touch,
             TouchFaults, Stopped, allVars, PmmAllocFrame, AllocFrame, PmmAllocFail, vars
      <3>. QED  BY <1>3, <3>1, <3>2 DEF PmmReserveMemoryRegion, IInv, TypeOK
    <2>2. /\ kpc' # "boot"
          /\ paging_on' = (kpc' \notin {"boot", "frame1", "frame2", "paging"})
          /\ ~paging_on' => ~paging_on /\ page_tables' = page_tables
      BY <1>3 DEF KNext, KStep, PmmBoot, TrialAlloc, PagingInit, ReservePageTables, StackAlloc,
           StackAllocFails, StackMark, SwitchToHighStack, MapInTable, MapReturns, MapNeedsTable,
           MapNewTable, MapNoFrame, FaultAlloc, FaultAllocFails, FaultHalts, Touch,
           TouchFaults, Stopped, allVars, kVars
    <2>. QED  BY <1>1, <1>3, <2>1, <2>2
  <1>4. CASE kpc = "boot" /\ UNCHANGED allVars
    BY <1>1, <1>4 DEF allVars, vars, kVars
  <1>. QED  BY <1>2, <1>3, <1>4
            DEF KNext, KStep, TrialAlloc, PagingInit, ReservePageTables, StackAlloc,
                StackAllocFails, StackMark, SwitchToHighStack, MapInTable, MapNeedsTable,
                MapNewTable, MapNoFrame, FaultAlloc, FaultAllocFails, FaultHalts, Touch,
                TouchFaults, Stopped

\* A completed call of paging_map_page keeps the mappings apart.
LEMMA MappedStep ==
    ASSUME IInv, KInv, kpc = "map", MapEffect, MapReturns,
           UNCHANGED <<paging_on, phys_frame>>, owned \subseteq owned',
           DOMAIN page_tables' \subseteq DOMAIN page_tables \cup (owned' \ owned)
    PROVE  MapInv' /\ FrameInv' /\ LoopInv' /\ (RamBelowHeap => StackInv')
  <1>. USE DEF KInv
  <1>1. /\ virt \in StackPages \cup HeapPages /\ virt \in Pages /\ virt >= PAGE_ENTRIES
        /\ phys_frame \in owned \ DOMAIN page_tables
        /\ \A p \in HighMapped : Translate(p) # phys_frame
        /\ phys_frame # NotPresent
    BY HighPages DEF FrameInv, KTypeOK, NotPresent
  <1>2. \A p \in Pages : Translate(p)' = IF p = virt THEN phys_frame ELSE Translate(p)
    BY DEF MapEffect
  <1>3. /\ \A p \in Pages : IsMapped(p)' <=> IsMapped(p) \/ p = virt
        /\ HighMapped' = HighMapped \cup {virt}
    BY <1>1, <1>2 DEF IsMapped, HighMapped
  <1>4. IdentityMapped'
    <2>1. \A p \in Entries : p # virt /\ p \in Pages
      BY <1>1, PageIndex, PagingAssumption DEF Entries
    <2>. QED  BY <1>2, <2>1 DEF IdentityMapped, MapInv
  <1>5. ASSUME NEW p \in HighMapped'
        PROVE  Translate(p)' \in owned' \ DOMAIN page_tables'
    <2>1. CASE p = virt
      <3>1. Translate(p)' = phys_frame
        BY <1>1, <1>2, <2>1
      <3>. QED  BY <1>1, <3>1
    <2>2. CASE p # virt
      <3>1. p \in HighMapped /\ p \in Pages
        BY <1>3, <1>5, <2>2 DEF HighMapped
      <3>2. Translate(p)' = Translate(p)
        BY <1>2, <2>2, <3>1
      <3>. QED  BY <3>1, <3>2 DEF MapInv
    <2>. QED  BY <2>1, <2>2
  <1>6. ASSUME NEW p \in HighMapped', NEW q \in HighMapped', p # q
        PROVE  Translate(p)' # Translate(q)'
    <2>1. \A x \in HighMapped' : x \in Pages /\ (x # virt => x \in HighMapped)
      BY <1>1, <1>3 DEF HighMapped
    <2>2. \A x \in HighMapped' : Translate(x)' = IF x = virt THEN phys_frame ELSE Translate(x)
      BY <1>2, <2>1
    <2>. QED  BY <1>1, <1>6, <2>1, <2>2 DEF MapInv
  <1>7. MapInv'
    <2>1. HighMapped' \subseteq StackPages \cup HeapPages
      BY <1>1, <1>3 DEF MapInv
    <2>2. \A p \in HighMapped' : Translate(p)' \in owned' \ DOMAIN page_tables'
      BY <1>5
    <2>3. \A p, q \in HighMapped' : p # q => Translate(p)' # Translate(q)'
      BY <1>6
    <2>. QED  BY <1>4, <2>1, <2>2, <2>3 DEF MapInv, StackPages, HeapPages
  <1>8. FrameInv'
    BY <1>1 DEF FrameInv, MapReturns
  <1>9. LoopInv'
    BY DEF LoopInv, MapReturns, StackPages
  <1>10. ASSUME RamBelowHeap  PROVE StackInv'
    <2>1. \A p \in StackPages : IsMapped(p)' <=> IsMapped(p) \/ p = virt
      BY <1>3, HighPages
    <2>2. StackInv
      BY <1>10 DEF RamInv
    <2>3. CASE in_fault
      <3>1. kpc' = "run" /\ ~in_fault'
        BY <2>3 DEF MapReturns
      <3>. QED  BY <2>1, <2>2, <2>3, <3>1 DEF StackInv, StackPages
    <2>4. CASE ~in_fault
      <3>1. kpc' = "mark" /\ ~in_fault' /\ virt' = virt
        BY <2>4 DEF MapReturns
      <3>2. \A p \in StackPages : p \in Nat /\ (p <= virt <=> p < virt \/ p = virt)
        BY HighPages, PagingAssumption DEF StackPages, KTypeOK
      <3>3. \A p \in StackPages : IsMapped(p)' <=> p <= virt
        BY <2>1, <2>2, <2>4, <3>2 DEF StackInv
      <3>. QED  BY <3>1, <3>3 DEF StackInv, StackPages
    <2>. QED  BY <2>3, <2>4
  <1>. QED  BY <1>7, <1>8, <1>9, <1>10

\* A step that leaves the page tables alone keeps what they say.
LEMMA QuietStep ==
    ASSUME KInv, UNCHANGED <<page_directory, page_tables, paging_on>>, owned \subseteq owned'
    PROVE  TableInv' /\ MapInv'
  <1>1. /\ \A p : Translate(p)' = Translate(p)
        /\ HighMapped' = HighMapped
    BY QuietWalk
  <1>2. TableInv'
    BY DEF KInv, TableInv
  <1>3. IdentityMapped'
    BY <1>1 DEF KInv, MapInv, IdentityMapped
  <1>4. \A p \in HighMapped : Translate(p)' \in owned' \ DOMAIN page_tables'
    BY <1>1 DEF KInv, MapInv
  <1>. QED  BY <1>1, <1>2, <1>3, <1>4 DEF KInv, MapInv

\* A frame just taken from the pool is in no page table, and is none itself.
LEMMA FreshFrame ==
    ASSUME IInv, KInv, Serving, NEW f \in FreeFrames
    PROVE  /\ f \in Nat /\ f \notin owned /\ f \notin DOMAIN page_tables
           /\ \A p \in HighMapped : Translate(p) # f
  <1>1. f \in Nat /\ f \notin frame_bitmap
    BY DEF FreeFrames
  <1>2. owned \subseteq frame_bitmap /\ DOMAIN page_tables \subseteq frame_bitmap
    BY TablesMarked DEF KInv, IInv, MarkInv
  <1>. QED  BY <1>1, <1>2 DEF KInv, MapInv

\* What paging_init builds: the identity map and nothing else.
LEMMA PagingInitStep ==
    ASSUME KInv, PagingInit
    PROVE  TableInv' /\ MapInv' /\ FrameInv' /\ LoopInv' /\ RamInv'
  <1>0. PAGE_ENTRIES \in Nat \ {0} /\ FirstPageTable \in Entries /\ FirstPageTable # NotPresent
    BY PagingAssumption DEF FirstPageTable, Entries, NotPresent
  <1>1. /\ page_directory' = [e \in Entries |-> IF e = 0 THEN FirstPageTable ELSE NotPresent]
        /\ page_tables' = [t \in {FirstPageTable} |-> [e \in Entries |-> e]]
        /\ kpc' = "reserve" /\ UNCHANGED <<owned, in_fault>> /\ kpc = "paging"
    BY DEF PagingInit, vars
  <1>2. DOMAIN page_tables' = {FirstPageTable}
    BY <1>1
  <1>3. TableInv'
    BY <1>1, <1>2 DEF TableInv, FirstPageTable, FRAME_INDEX, Entries
  <1>4. ASSUME NEW p \in Entries  PROVE Translate(p)' = p
    <2>1. PdirIndex(p) = 0 /\ PtableIndex(p) = p /\ 0 \in Entries
      BY <1>0 DEF Entries, PdirIndex, PtableIndex
    <2>. QED  BY <1>0, <1>1, <2>1 DEF Translate
  <1>5. ASSUME NEW p \in Pages, p >= PAGE_ENTRIES  PROVE ~IsMapped(p)'
    <2>1. PdirIndex(p) # 0
      BY <1>0, <1>5, PageIndex DEF PdirIndex
    <2>2. page_directory'[PdirIndex(p)] = NotPresent
      BY <1>1, <2>1, PageIndex
    <2>. QED  BY <2>2 DEF IsMapped, Translate
  <1>6. HighMapped' = {}
    BY <1>5 DEF HighMapped
  <1>7. MapInv'
    BY <1>4, <1>6 DEF MapInv, IdentityMapped
  <1>8. \A p \in StackPages : ~IsMapped(p)'
    BY <1>5, HighPages
  <1>9. LoopInv' /\ FrameInv'
    BY <1>1 DEF KInv, LoopInv, FrameInv
  <1>10. StackInv'
    BY <1>1, <1>8 DEF StackInv
  <1>. QED  BY <1>0, <1>2, <1>3, <1>7, <1>9, <1>10 DEF RamInv

\* paging_map_page when the allocator hands it a frame for the table.
LEMMA NewTableStep ==
    ASSUME IInv, KInv, [KNext]_allVars, MapNewTable
    PROVE  TableInv' /\ MapInv' /\ FrameInv' /\ LoopInv' /\ RamInv'
  <1>0. /\ kpc = "map" /\ virt \in Pages /\ Serving /\ paging_on
        /\ page_directory[PdirIndex(virt)] = NotPresent
        /\ UNCHANGED <<paging_on, phys_frame>>
    BY HighPages DEF MapNewTable, MapNeedsTable, KInv, FrameInv, OrderInv
  <1>1. /\ owned \subseteq owned' /\ (RamBelowHeap' <=> RamBelowHeap)
        /\ KTypeOK
    BY <1>0, PmmStep DEF memVars, RamBelowHeap, KInv
  <1>2. PICK table \in FreeFrames :
          /\ owned' = owned \cup {table}
          /\ \/ /\ Translate(table) = table
                /\ page_directory' = [page_directory EXCEPT ![PdirIndex(virt)] = table]
                /\ page_tables' =
                     [t \in DOMAIN page_tables \cup {table} |->
                        IF t = table
                        THEN [e \in Entries |-> IF e = PtableIndex(virt)
                                                THEN phys_frame ELSE NotPresent]
                        ELSE page_tables[t]]
                /\ MapReturns
             \/ /\ Translate(table) # table
                /\ kpc' = "fault" /\ virt' = table /\ in_fault' = TRUE
                /\ UNCHANGED <<page_directory, page_tables>>
    BY DEF MapNewTable, AllocFrame, TakeFrame
  <1>3. /\ table \in Nat /\ table \notin owned /\ table \notin DOMAIN page_tables
        /\ \A p \in HighMapped : Translate(p) # table
    BY <1>0, FreshFrame
  <1>4. ASSUME RamBelowHeap, table \notin Entries
        PROVE  table \in Pages /\ ~IsMapped(table) /\ table \notin HeapPages \cup StackPages
    <2>1. table < total_frames /\ total_frames \in Nat
      BY DEF FreeFrames, IInv, TypeOK
    <2>2. /\ table < KERNEL_HEAP_START /\ table >= PAGE_ENTRIES
          /\ table \in Pages
      BY <1>3, <1>4, <2>1, HighPages, PagingAssumption DEF RamBelowHeap, Entries, Pages
    <2>3. table \notin HeapPages \cup StackPages
      BY <1>3, <2>2, HighPages, PagingAssumption
    <2>4. table \notin HighMapped
      BY <2>3 DEF KInv, MapInv
    <2>. QED  BY <2>2, <2>3, <2>4 DEF HighMapped
  <1>5. CASE Translate(table) = table
    <2>1. /\ page_directory' = [page_directory EXCEPT ![PdirIndex(virt)] = table]
          /\ page_tables' =
               [t \in DOMAIN page_tables \cup {table} |->
                  IF t = table
                  THEN [e \in Entries |-> IF e = PtableIndex(virt)
                                          THEN phys_frame ELSE NotPresent]
                  ELSE page_tables[t]]
          /\ MapReturns
      BY <1>2, <1>5
    <2>2. MapEffect /\ DOMAIN page_tables' = DOMAIN page_tables \cup {table}
      BY <1>0, <1>1, <1>3, <2>1, NewTableEffect
    <2>3. DOMAIN page_tables' \subseteq DOMAIN page_tables \cup (owned' \ owned)
      BY <1>2, <1>3, <2>2
    <2>4. MapInv' /\ FrameInv' /\ LoopInv' /\ (RamBelowHeap => StackInv')
      BY <1>0, <1>1, <2>1, <2>2, <2>3, MappedStep
    <2>5. TableInv'
      <3>1. DOMAIN page_tables' \subseteq owned' \cup {FirstPageTable}
        BY <1>2, <2>2 DEF KInv, TableInv
      <3>2. \A d \in Entries : page_directory'[d] =
              IF d = PdirIndex(virt) THEN table ELSE page_directory[d]
        BY <1>1, <2>1 DEF KTypeOK
      <3>3. \A d \in Entries : page_directory[d] # table
        BY <1>1, <1>3 DEF KTypeOK, NotPresent
      <3>4. ASSUME NEW d \in Entries, NEW e \in Entries, d # e, page_directory'[d] # NotPresent
            PROVE  page_directory'[d] # page_directory'[e]
        BY <3>2, <3>3, <3>4 DEF KInv, TableInv
      <3>. QED  BY <3>1, <3>4 DEF TableInv, FirstPageTable, FRAME_INDEX, Entries
    <2>6. ASSUME RamBelowHeap'  PROVE DOMAIN page_tables' \subseteq Entries
      <3>1. table \in Entries
        BY <1>1, <1>3, <1>4, <1>5, <2>6 DEF IsMapped, NotPresent
      <3>. QED  BY <1>1, <2>2, <2>6, <3>1 DEF KInv, RamInv
    <2>. QED  BY <1>1, <2>4, <2>5, <2>6 DEF RamInv
  <1>6. CASE Translate(table) # table
    <2>1. /\ kpc' = "fault" /\ virt' = table /\ in_fault' = TRUE
          /\ UNCHANGED <<page_directory, page_tables>>
      BY <1>2, <1>6
    <2>2. TableInv' /\ MapInv'
      BY <1>0, <1>1, <2>1, QuietStep
    <2>3. FrameInv' /\ LoopInv'
      BY <2>1 DEF FrameInv, LoopInv
    <2>4. ASSUME RamBelowHeap'  PROVE DOMAIN page_tables' \subseteq Entries /\ StackInv'
      <3>1. table \notin Entries
        BY <1>0, <1>6 DEF KInv, MapInv, IdentityMapped
      <3>2. table \in Pages /\ ~IsMapped(table) /\ table \notin HeapPages \cup StackPages
        BY <1>1, <1>4, <2>4, <3>1
      <3>3. ~IsMapped(virt)'
        BY <2>1, <3>2 DEF IsMapped, Translate
      <3>4. StackInv'
        BY <2>1, <3>2, <3>3 DEF StackInv, HeapPages, StackPages, Pages
      <3>. QED  BY <1>1, <2>1, <2>4, <3>4 DEF KInv, RamInv
    <2>. QED  BY <2>2, <2>3, <2>4 DEF RamInv
  <1>. QED  BY <1>5, <1>6

\* Every step keeps the page tables and the frame on its way into them apart.
LEMMA MapStep ==
    ASSUME IInv, KInv, [KNext]_allVars
    PROVE  TableInv' /\ MapInv' /\ FrameInv' /\ LoopInv' /\ RamInv'
  <1>0. /\ owned \subseteq owned' /\ KTypeOK
        /\ kpc # "boot" => (RamBelowHeap' <=> RamBelowHeap)
    BY PmmStep DEF memVars, RamBelowHeap, KInv
  <1>. DEFINE Quiet == UNCHANGED <<page_directory, page_tables, paging_on>>
  <1>1. ASSUME Quiet
        PROVE  /\ TableInv' /\ MapInv' /\ HighMapped' = HighMapped
               /\ \A p : IsMapped(p)' = IsMapped(p)
               /\ DOMAIN page_tables' = DOMAIN page_tables
    BY <1>0, <1>1, QuietStep, QuietWalk
  <1>2. CASE PmmBoot \/ TrialAlloc
    <2>0. /\ kpc \in {"boot", "frame1", "frame2"} /\ Quiet /\ in_fault' = in_fault
          /\ kpc' \in {"boot", "frame1", "frame2", "paging"}
      BY <1>2 DEF PmmBoot, TrialAlloc
    <2>1. ~in_fault' /\ DOMAIN page_tables = {}
      BY <2>0 DEF KInv, OrderInv, LoopInv
    <2>2. FrameInv' /\ LoopInv' /\ StackInv'
      BY <2>0, <2>1 DEF FrameInv, LoopInv, StackInv
    <2>. QED  BY <1>1, <2>0, <2>1, <2>2 DEF RamInv
  <1>3. CASE PagingInit
    BY <1>3, PagingInitStep
  <1>4. CASE ReservePageTables
    <2>1. /\ Quiet /\ ~in_fault' /\ kpc = "reserve" /\ kpc' = "stack"
          /\ virt' = KERNEL_STACK_BOTTOM_VIRT + 1
      BY <1>4 DEF ReservePageTables, KInv, LoopInv
    <2>2. FrameInv' /\ LoopInv'
      BY <2>1, PagingAssumption DEF FrameInv, LoopInv
    <2>3. ASSUME RamBelowHeap'  PROVE StackInv'
      <3>1. \A p \in StackPages : ~IsMapped(p)' /\ ~(p < virt')
        BY <1>0, <1>1, <2>1, <2>3, PagingAssumption DEF KInv, RamInv, StackInv, StackPages
      <3>. QED  BY <2>1, <3>1 DEF StackInv, StackPages
    <2>. QED  BY <1>0, <1>1, <2>1, <2>2, <2>3 DEF KInv, RamInv
  <1>5. ASSUME Quiet, kpc # "boot", kpc' = "map", UNCHANGED <<virt, in_fault>>,
               NEW f \in FreeFrames, phys_frame' = f, f \in owned',
               virt \in StackPages \cup HeapPages, ~in_fault => virt \in StackPages,
               RamBelowHeap => ~IsMapped(virt),
               RamBelowHeap /\ ~in_fault => \A p \in StackPages : IsMapped(p) <=> p < virt,
               RamBelowHeap /\ in_fault => \A p \in StackPages : IsMapped(p)
        PROVE  TableInv' /\ MapInv' /\ FrameInv' /\ LoopInv' /\ RamInv'
    <2>1. /\ f \notin DOMAIN page_tables
          /\ \A p \in HighMapped : Translate(p) # f
      BY <1>5, FreshFrame DEF KInv, OrderInv
    <2>2. FrameInv'
      <3>1. \A p \in HighMapped' : Translate(p)' # phys_frame'
        BY <1>5, <2>1, QuietWalk
      <3>. QED  BY <1>1, <1>5, <2>1, <3>1 DEF FrameInv, StackPages, HeapPages
    <2>3. LoopInv'
      BY <1>5 DEF LoopInv, StackPages
    <2>4. ASSUME RamBelowHeap'  PROVE StackInv'
      <3>1. ~IsMapped(virt)'
        BY <1>0, <1>5, <2>4 DEF IsMapped, Translate
      <3>. QED  BY <1>0, <1>1, <1>5, <2>4, <3>1 DEF StackInv, StackPages
    <2>. QED  BY <1>0, <1>1, <1>5, <2>2, <2>3, <2>4 DEF KInv, RamInv
  <1>6. CASE StackAlloc
    <2>1. /\ Quiet /\ kpc = "stack" /\ kpc' = "map" /\ UNCHANGED <<virt, in_fault>>
          /\ virt < KERNEL_STACK_TOP_VIRT
      BY <1>6 DEF StackAlloc
    <2>2. PICK f \in FreeFrames : phys_frame' = f /\ f \in owned'
      BY <1>6 DEF StackAlloc, AllocFrame, TakeFrame
    <2>3. virt \in StackPages /\ ~in_fault
      BY <2>1, PagingAssumption DEF KInv, LoopInv, StackPages
    <2>4. RamBelowHeap => \A p \in StackPages : IsMapped(p) <=> p < virt
      BY <2>1, <2>3 DEF KInv, RamInv, StackInv
    <2>5. RamBelowHeap => ~IsMapped(virt)
      BY <2>3, <2>4, PagingAssumption DEF StackPages
    <2>. HIDE DEF Quiet
    <2>. QED  BY <1>5, <2>1, <2>2, <2>3, <2>4, <2>5
  <1>7. ASSUME NEW near_esp \in BOOLEAN, FaultAlloc(near_esp)
        PROVE  TableInv' /\ MapInv' /\ FrameInv' /\ LoopInv' /\ RamInv'
    <2>1. /\ Quiet /\ kpc = "fault" /\ kpc' = "map" /\ UNCHANGED <<virt, in_fault>>
          /\ virt \in StackPages \cup HeapPages
      BY <1>7 DEF FaultAlloc, DemandPaged
    <2>2. PICK f \in FreeFrames : phys_frame' = f /\ f \in owned'
      BY <1>7 DEF FaultAlloc, AllocFrame, TakeFrame
    <2>3. in_fault
      BY <2>1 DEF KInv, LoopInv
    <2>4. RamBelowHeap => ~IsMapped(virt) /\ \A p \in StackPages : IsMapped(p)
      BY <2>1 DEF KInv, RamInv, StackInv
    <2>. HIDE DEF Quiet
    <2>. QED  BY <1>5, <2>1, <2>2, <2>3, <2>4
  <1>8. CASE StackMark
    <2>1. /\ Quiet /\ kpc = "mark" /\ kpc' = "stack" /\ in_fault' = in_fault /\ ~in_fault
          /\ virt' = virt + 1 /\ virt \in StackPages
      BY <1>8 DEF StackMark, KInv, LoopInv
    <2>2. FrameInv' /\ LoopInv'
      BY <2>1, PagingAssumption DEF FrameInv, LoopInv, StackPages
    <2>3. ASSUME RamBelowHeap'  PROVE StackInv'
      <3>1. \A p \in StackPages : IsMapped(p) <=> p <= virt
        BY <1>0, <2>1, <2>3 DEF KInv, RamInv, StackInv
      <3>2. \A p \in StackPages : p <= virt <=> p < virt'
        BY <2>1, PagingAssumption DEF StackPages
      <3>. QED  BY <1>1, <2>1, <3>1, <3>2 DEF StackInv, StackPages
    <2>. QED  BY <1>0, <1>1, <2>1, <2>2, <2>3 DEF KInv, RamInv
  <1>9. CASE SwitchToHighStack
    <2>1. /\ Quiet /\ kpc = "stack" /\ kpc' = "run" /\ in_fault' = in_fault /\ ~in_fault
          /\ virt = KERNEL_STACK_TOP_VIRT
      BY <1>9 DEF SwitchToHighStack, KInv, LoopInv
    <2>2. FrameInv' /\ LoopInv'
      BY <2>1 DEF FrameInv, LoopInv
    <2>3. ASSUME RamBelowHeap'  PROVE StackInv'
      <3>1. \A p \in StackPages : IsMapped(p) <=> p < virt
        BY <1>0, <2>1, <2>3 DEF KInv, RamInv, StackInv
      <3>2. \A p \in StackPages : p < virt
        BY <2>1, PagingAssumption DEF StackPages
      <3>. QED  BY <1>1, <2>1, <3>1, <3>2 DEF StackInv, StackPages
    <2>. QED  BY <1>0, <1>1, <2>1, <2>2, <2>3 DEF KInv, RamInv
  <1>10. CASE MapInTable
    <2>1. /\ kpc = "map" /\ MapReturns /\ UNCHANGED <<page_directory, paging_on, phys_frame>>
          /\ virt \in Pages
      BY <1>10, HighPages DEF MapInTable, KInv, FrameInv
    <2>2. MapEffect /\ DOMAIN page_tables' = DOMAIN page_tables
      BY <1>0, <1>10, <2>1, InTableEffect DEF KInv
    <2>3. MapInv' /\ FrameInv' /\ LoopInv' /\ (RamBelowHeap => StackInv')
      BY <1>0, <2>1, <2>2, MappedStep
    <2>4. TableInv'
      BY <1>0, <2>1, <2>2 DEF KInv, TableInv
    <2>. QED  BY <1>0, <2>1, <2>2, <2>3, <2>4 DEF KInv, RamInv
  <1>11. CASE MapNewTable
    BY <1>11, NewTableStep
  <1>12. ASSUME Quiet, kpc # "boot", kpc' \in {"panik", "halt"}
         PROVE  TableInv' /\ MapInv' /\ FrameInv' /\ LoopInv' /\ RamInv'
    <2>1. FrameInv' /\ LoopInv' /\ StackInv'
      BY <1>12 DEF FrameInv, LoopInv, StackInv
    <2>. QED  BY <1>0, <1>1, <1>12, <2>1 DEF KInv, RamInv
  <1>13. CASE \/ StackAllocFails \/ MapNoFrame
              \/ \E near_esp \in BOOLEAN : FaultAllocFails(near_esp) \/ FaultHalts(near_esp)
    BY <1>12, <1>13 DEF StackAllocFails, MapNoFrame, MapNeedsTable, FaultAllocFails, FaultHalts
  <1>14. ASSUME NEW page \in TouchedPages, TouchFaults(page)
         PROVE  TableInv' /\ MapInv' /\ FrameInv' /\ LoopInv' /\ RamInv'
    <2>1. /\ Quiet /\ kpc = "run" /\ kpc' = "fault" /\ in_fault' /\ virt' = page
          /\ ~IsMapped(page) /\ page \in Pages
      BY <1>14, PagingAssumption DEF TouchFaults, Pages
    <2>2. FrameInv' /\ LoopInv'
      BY <2>1 DEF FrameInv, LoopInv
    <2>3. ASSUME RamBelowHeap'  PROVE StackInv'
      <3>1. \A p \in StackPages : IsMapped(p)
        BY <1>0, <2>1, <2>3 DEF KInv, RamInv, StackInv
      <3>2. ~IsMapped(virt)'
        BY <2>1 DEF IsMapped, Translate
      <3>. QED  BY <1>1, <2>1, <3>1, <3>2 DEF StackInv, StackPages, HeapPages, Pages
    <2>. QED  BY <1>0, <1>1, <2>1, <2>2, <2>3 DEF KInv, RamInv
  <1>15. CASE UNCHANGED allVars
    <2>1. Quiet /\ UNCHANGED <<kpc, virt, phys_frame, in_fault, owned, total_frames>>
      BY <1>15 DEF allVars, kVars, vars
    <2>2. FrameInv' /\ LoopInv'
      BY <1>1, <2>1, QuietWalk DEF KInv, FrameInv, LoopInv
    <2>3. RamInv'
      BY <1>1, <2>1 DEF KInv, RamInv, RamBelowHeap, StackInv, IsMapped, Translate
    <2>. QED  BY <1>1, <2>1, <2>2, <2>3
  <1>. QED  BY <1>2, <1>3, <1>4, <1>6, <1>7, <1>8, <1>9, <1>10, <1>11, <1>13, <1>14, <1>15
            DEF KNext, KStep, Touch, Stopped

-----------------------------------------------------------------------------
(* The theorems.                                                           *)

\* The invariant holds when kernel_main starts.
LEMMA KInitInv == KInit => IInv /\ KInv
  <1>. SUFFICES ASSUME KInit  PROVE IInv /\ KInv
    OBVIOUS
  <1>1. IInv
    BY InitIInv DEF KInit
  <1>2. /\ DOMAIN page_tables = {} /\ \A e \in Entries : page_directory[e] = NotPresent
    BY DEF KInit
  <1>3. KTypeOK
    BY <1>1, <1>2 DEF KInit, KTypeOK, IInv
  <1>4. OrderInv
    <2>1. /\ kpc = "boot" /\ reserved_types = 0 /\ pc = "parse" /\ paging_on = FALSE
      BY DEF KInit, Init
    <2>2. paging_on = (kpc \notin {"boot", "frame1", "frame2", "paging"})
      BY <2>1
    <2>. QED  BY <1>2, <2>1, <2>2 DEF OrderInv, ReservationsBeforeAlloc
  <1>5. HighMapped = {}
    BY <1>2, PageIndex DEF HighMapped, IsMapped, Translate
  <1>6. TableInv /\ MapInv /\ FrameInv /\ LoopInv
    BY <1>2, <1>5 DEF TableInv, MapInv, FrameInv, LoopInv, IdentityMapped, KInit
  <1>7. RamInv
    BY <1>2 DEF RamInv, StackInv, KInit
  <1>. QED  BY <1>1, <1>3, <1>4, <1>6, <1>7 DEF KInv

\* Every step of the kernel preserves both invariants.
LEMMA KStepInv == IInv /\ KInv /\ [KNext]_allVars => (IInv /\ KInv)'
  <1>. SUFFICES ASSUME IInv, KInv, [KNext]_allVars  PROVE IInv' /\ KInv'
    OBVIOUS
  <1>1. IInv'
    BY PmmStep, StepIInv
  <1>. QED  BY <1>1, KTypeStep, OrderStep, MapStep DEF KInv

\* Both invariants hold throughout.
THEOREM KInvHolds == KSpec => [](IInv /\ KInv)
  BY KInitInv, KStepInv, PTL DEF KSpec

\* paging.c keeps the directory and the tables well formed: a present directory
\* entry always leads to a page table, and a page table entry to a frame.
THEOREM KTypeCorrect == KSpec => []KTypeOK
  <1>1. KInv => KTypeOK
    BY DEF KInv
  <1>. QED  BY <1>1, KInvHolds, PTL

\* For every firmware map and every sequence of faults, paging_map_page never
\* maps a frame twice and never maps a page table or a reserved frame.
THEOREM NoAliasing == KSpec => []FramesNotAliased
  <1>1. IInv /\ KInv => FramesNotAliased
    BY DEF IInv, MarkInv, KInv, MapInv, FramesNotAliased
  <1>. QED  BY <1>1, KInvHolds, PTL

\* For every firmware map and every sequence of faults, the frames behind pages
\* and page tables stay marked in the bitmap.
THEOREM MappedHeld == KSpec => []MappedFramesHeld
  <1>1. IInv /\ KInv => MappedFramesHeld
    BY DEF IInv, MarkInv, KInv, MapInv, TableInv, MappedFramesHeld
  <1>. QED  BY <1>1, KInvHolds, PTL

\* From paging_init on the identity map of the first table stands, whatever is
\* mapped later.
THEOREM IdentityStands == KSpec => []IdentityMapped
  <1>1. KInv => IdentityMapped
    BY DEF KInv, MapInv
  <1>. QED  BY <1>1, KInvHolds, PTL

\* The firmware map is sane by the time pmm_init has read it.
SaneFirmware == pc = "serve" => FirmwareOk

\* With a sane map all RAM ends below the kernel heap: the bitmap of more would
\* have reached the boot stack.
LEMMA SaneRam ==
    ASSUME IInv, KInv, SaneFirmware, Serving
    PROVE  RamBelowHeap
  <1>1. total_frames <= max_frame_idx /\ max_frame_idx \in Nat /\ total_frames \in Nat
    <2>1. /\ TypeOK /\ ScanInv /\ CountInv /\ FirmwareOk /\ pc \in {"scan", "serve"}
      BY DEF IInv, SaneFirmware, Serving
    <2>2. total_frames <= max_frame_idx
      BY <2>1, TotalBound
    <2>3. max_frame_idx \in Nat /\ total_frames \in Nat
      BY <2>1, FrameIndexBound, PmmAssumption DEF TypeOK
    <2>. QED  BY <2>2, <2>3
  <1>2. ~BitmapHitsBootStack
    BY DEF KInv, OrderInv, Serving
  <1>3. BOOT_STACK_LOW \in Nat /\ BITMAP_ADDR \in Nat /\ KERNEL_HEAP_START \in Nat
    BY PmmAssumption, PagingAssumption
  <1>4. max_frame_idx \div 8 + 1 <= BOOT_STACK_LOW - BITMAP_ADDR
    BY <1>1, <1>2, <1>3, LayoutAssumption, BitmapBytesType DEF BitmapHitsBootStack, BitmapBytes
  <1>5. max_frame_idx <= 8 * (BOOT_STACK_LOW - BITMAP_ADDR)
    BY <1>1, <1>3, <1>4
  <1>. QED  BY <1>1, <1>3, <1>5, PagingAssumption DEF RamBelowHeap

\* With a sane firmware map paging_map_page reaches every page table through the
\* identity map, however much RAM lies beyond it.
THEOREM TablesInReach == KSpec /\ []SaneFirmware => []TablesReachable
  <1>1. IInv /\ KInv /\ SaneFirmware => TablesReachable
    <2>. SUFFICES ASSUME IInv, KInv, SaneFirmware, paging_on
                  PROVE  /\ \A t \in DOMAIN page_tables : Translate(t) = t
                         /\ \A d, e \in Entries : d # e /\ page_directory[d] # NotPresent
                                                  => page_directory[d] # page_directory[e]
      BY DEF TablesReachable
    <2>1. RamBelowHeap
      BY SaneRam DEF KInv, OrderInv
    <2>. QED  BY <2>1 DEF KInv, RamInv, MapInv, IdentityMapped, TableInv
  <1>. QED  BY <1>1, KInvHolds, PTL

\* With a sane firmware map high_stack_entry starts on a stack that is mapped to
\* its last page, and only the heap and the stack ever get pages.
THEOREM StackIsBacked == KSpec /\ []SaneFirmware => []StackBacked
  <1>1. IInv /\ KInv /\ SaneFirmware => StackBacked
    <2>. SUFFICES ASSUME IInv, KInv, SaneFirmware  PROVE StackBacked
      OBVIOUS
    <2>1. HighMapped \subseteq StackPages \cup HeapPages
      BY DEF KInv, MapInv
    <2>2. ASSUME kpc = "run"  PROVE StackPages \subseteq HighMapped
      <3>1. RamBelowHeap
        BY <2>2, SaneRam DEF KInv, OrderInv
      <3>2. \A p \in StackPages : IsMapped(p)
        BY <2>2, <3>1 DEF KInv, RamInv, StackInv
      <3>. QED  BY <3>2, HighPages DEF HighMapped
    <2>. QED  BY <2>1, <2>2 DEF StackBacked
  <1>. QED  BY <1>1, KInvHolds, PTL

\* With a sane firmware map no step changes or drops a mapping: nothing has to be
\* flushed from the TLB.
THEOREM MappingsStay == KSpec /\ []SaneFirmware => MappingsPermanent
  <1>. DEFINE A == paging_on => \A p \in Pages : IsMapped(p) => Translate(p)' = Translate(p)
  <1>1. IInv /\ KInv /\ SaneFirmware /\ [KNext]_allVars => [A]_allVars
    <2>. SUFFICES ASSUME IInv, KInv, SaneFirmware, [KNext]_allVars, paging_on,
                         NEW p \in Pages, IsMapped(p)
                  PROVE  Translate(p)' = Translate(p)
      OBVIOUS
    <2>0. RamBelowHeap /\ KTypeOK
      BY SaneRam DEF KInv, OrderInv
    <2>1. ASSUME MapEffect, kpc = "map"  PROVE Translate(p)' = Translate(p)
      <3>1. ~IsMapped(virt)
        BY <2>0, <2>1 DEF KInv, RamInv, StackInv
      <3>. QED  BY <2>1, <3>1 DEF MapEffect
    <2>2. CASE UNCHANGED <<page_directory, page_tables>>
      BY <2>2, QuietWalk
    <2>3. CASE MapInTable
      <3>1. kpc = "map" /\ virt \in Pages
        BY <2>3, HighPages DEF MapInTable, KInv, FrameInv
      <3>. QED  BY <2>0, <2>1, <2>3, <3>1, InTableEffect DEF KInv
    <2>4. CASE MapNewTable
      <3>1. /\ kpc = "map" /\ virt \in Pages /\ Serving
            /\ page_directory[PdirIndex(virt)] = NotPresent
        BY <2>4, HighPages DEF MapNewTable, MapNeedsTable, KInv, FrameInv, OrderInv
      <3>2. PICK table \in FreeFrames :
              \/ /\ page_directory' = [page_directory EXCEPT ![PdirIndex(virt)] = table]
                 /\ page_tables' =
                      [t \in DOMAIN page_tables \cup {table} |->
                         IF t = table
                         THEN [e \in Entries |-> IF e = PtableIndex(virt)
                                                 THEN phys_frame ELSE NotPresent]
                         ELSE page_tables[t]]
              \/ UNCHANGED <<page_directory, page_tables>>
        BY <2>4 DEF MapNewTable
      <3>3. table \in Nat /\ table \notin DOMAIN page_tables
        BY <3>1, FreshFrame
      <3>4. CASE UNCHANGED <<page_directory, page_tables>>
        BY <2>2, <3>4
      <3>5. CASE ~UNCHANGED <<page_directory, page_tables>>
        <4>1. MapEffect
          BY <2>0, <3>1, <3>2, <3>3, <3>5, NewTableEffect
        <4>. QED  BY <2>1, <3>1, <4>1
      <3>. QED  BY <3>4, <3>5
    <2>. QED  BY <2>2, <2>3, <2>4
              DEF KNext, KStep, PmmBoot, TrialAlloc, PagingInit, ReservePageTables, StackAlloc,
                  StackAllocFails, StackMark, SwitchToHighStack, MapNoFrame, FaultAlloc,
                  FaultAllocFails, FaultHalts, Touch, TouchFaults, Stopped, allVars, kVars,
                  KInv, OrderInv
  <1>. QED  BY <1>1, KInvHolds, PTL DEF KSpec, MappingsPermanent

=============================================================================
