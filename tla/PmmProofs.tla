----------------------------- MODULE PmmProofs -----------------------------
(***************************************************************************)
(* Proofs about Pmm for every firmware map, stale bitmap and frame size.   *)
(*                                                                         *)
(* The invariant IInv has one part per idea.  MarkInv (owned and reserved  *)
(* frames have their bit set) needs nothing of the firmware.  CountInv     *)
(* (the counters count) needs FirmwareOk, and ScanInv for the frames that  *)
(* the scan of pmm_init has not reached yet.  That the count total_frames  *)
(* bounds an index is TotalBound: usable is a set of indices below         *)
(* max_frame_idx, so it has at most that many members.                     *)
(***************************************************************************)
EXTENDS Pmm, FiniteSetTheorems, SequenceTheorems, NaturalsInduction, WellFoundedInduction, TLAPS

\* Dividing never increases a number, and keeps it a number.
LEMMA DivBound ==
    ASSUME NEW a \in Nat, NEW p \in Nat \ {0}
    PROVE  a \div p \in 0 .. a
  OBVIOUS

\* A larger address has no smaller frame index.
LEMMA DivMonotonic ==
    ASSUME NEW a \in Nat, NEW b \in Nat, NEW p \in Nat \ {0}, a <= b
    PROVE  a \div p <= b \div p
  OBVIOUS

\* A remainder is below its divisor.
LEMMA ModBound ==
    ASSUME NEW a \in Int, NEW p \in Nat \ {0}
    PROVE  a % p \in 0 .. p - 1
  OBVIOUS

\* Whatever is cut to 32 bits fits in them.
LEMMA WordMod ==
    ASSUME NEW a \in Int
    PROVE  a % WORD \in 0 .. WORD - 1
  <1>1. WORD \in Nat \ {0}
    BY PmmAssumption
  <1>. QED  BY <1>1, ModBound

\* So does a sum.
LEMMA WordModSum ==
    ASSUME NEW a \in Nat, NEW b \in Nat
    PROVE  /\ (a + b) % WORD \in 0 .. WORD - 1
           /\ (a - 1) % WORD \in 0 .. WORD - 1
  <1>1. a + b \in Int /\ a - 1 \in Int
    OBVIOUS
  <1>. QED  BY <1>1, WordMod

\* FRAME_INDEX of an address is a natural number.
LEMMA FrameIndexType ==
    ASSUME NEW a \in Nat
    PROVE  FRAME_INDEX(a) \in 0 .. a
  BY DivBound, PmmAssumption DEF FRAME_INDEX

\* FRAME_INDEX of a 32-bit address is at most that of the last one.
LEMMA FrameIndexBound ==
    /\ FRAME_INDEX(WORD - 1) \in 0 .. WORD - 1
    /\ \A a \in 0 .. WORD - 1 : FRAME_INDEX(a) \in 0 .. FRAME_INDEX(WORD - 1)
  <1>1. WORD \in Nat /\ WORD - 1 \in Nat /\ PAGE_SIZE \in Nat \ {0}
    BY PmmAssumption
  <1>2. FRAME_INDEX(WORD - 1) \in 0 .. WORD - 1
    BY <1>1, FrameIndexType
  <1>3. ASSUME NEW a \in 0 .. WORD - 1
        PROVE  FRAME_INDEX(a) \in 0 .. FRAME_INDEX(WORD - 1)
    <2>1. a \in Nat /\ a <= WORD - 1
      BY <1>1
    <2>2. FRAME_INDEX(a) \in Nat
      BY <2>1, FrameIndexType
    <2>3. FRAME_INDEX(a) <= FRAME_INDEX(WORD - 1)
      BY <1>1, <2>1, DivMonotonic DEF FRAME_INDEX
    <2>. QED  BY <1>1, <1>2, <2>2, <2>3
  <1>. QED  BY <1>2, <1>3

\* The frames pmm_init visits for a region are finitely many indices.
LEMMA RegionType ==
    ASSUME NEW r \in Region
    PROVE  /\ RegionBase(r) \in 0 .. WORD - 1
           /\ RegionEnd(r) \in 0 .. WORD - 1
           /\ RegionFrames(r) \subseteq Nat
  <1>0. r.base \in Nat /\ r.length \in Nat /\ WORD \in Nat
    BY PmmAssumption DEF Region
  <1>1. RegionBase(r) \in 0 .. WORD - 1
    BY <1>0, WordMod DEF RegionBase
  <1>2. r.length % WORD \in 0 .. WORD - 1
    BY <1>0, WordMod
  <1>3. RegionEnd(r) \in 0 .. WORD - 1
    <2>1. RegionBase(r) + (r.length % WORD) \in Int
      BY <1>0, <1>1, <1>2
    <2>. QED  BY <2>1, WordMod DEF RegionEnd
  <1>4. FRAME_INDEX(RegionBase(r)) \in Nat
    BY <1>1, FrameIndexType
  <1>. QED  BY <1>1, <1>3, <1>4 DEF RegionFrames

\* So are those of a range that pmm_reserve_memory_region covers.
LEMMA CoveringFinite ==
    ASSUME NEW s \in Nat, NEW e \in Nat
    PROVE  /\ FramesCovering(s, e) \subseteq Nat
           /\ IsFiniteSet(FramesCovering(s, e))
  <1>1. (e + PAGE_SIZE - 1) % WORD \in Nat
    <2>1. e + PAGE_SIZE - 1 \in Int
      BY PmmAssumption
    <2>2. (e + PAGE_SIZE - 1) % WORD \in 0 .. WORD - 1
      BY <2>1, WordMod
    <2>. QED  BY <2>2
  <1>2. /\ FRAME_INDEX(s) \in Nat
        /\ FRAME_INDEX((e + PAGE_SIZE - 1) % WORD) - 1 \in Int
    BY <1>1, FrameIndexType
  <1>. DEFINE a == FRAME_INDEX(s)
              b == FRAME_INDEX((e + PAGE_SIZE - 1) % WORD) - 1
  <1>3. FramesCovering(s, e) = a .. b
    BY DEF FramesCovering
  <1>. HIDE DEF a, b
  <1>4. a \in Nat /\ b \in Int
    BY <1>2 DEF a, b
  <1>5. a .. b \subseteq Nat /\ IsFiniteSet(a .. b)
    BY <1>4, FS_Interval
  <1>. QED  BY <1>3, <1>5

\* The bitmap has a positive number of bytes, and a bit for every frame.
LEMMA BitmapBytesType ==
    ASSUME max_frame_idx \in Nat
    PROVE  /\ BitmapBytes \in Nat
           /\ 0 .. max_frame_idx \subseteq InitialisedBits
           /\ InitialisedBits \subseteq Nat
  BY DEF BitmapBytes, InitialisedBits

\* Every reservation is a finite set of frames.
LEMMA ReservedFinite ==
    ASSUME NEW i \in 1 .. Len(ReserveOrder), max_frame_idx \in Nat
    PROVE  /\ ReservedFrames(ReserveOrder[i]) \subseteq Nat
           /\ IsFiniteSet(ReservedFrames(ReserveOrder[i]))
  <1>1. /\ LowMemoryFrames \subseteq Nat
        /\ IsFiniteSet(LowMemoryFrames)
    BY CoveringFinite, PmmAssumption DEF LowMemoryFrames
  <1>2. /\ PageTableFrames \subseteq Nat
        /\ IsFiniteSet(PageTableFrames)
    <2>1. PAGE_DIR_START_ADDR + TABLE_BYTES \in Nat /\ PAGE_TABLE_START_ADDR + TABLE_BYTES \in Nat
      BY PmmAssumption
    <2>. QED BY <2>1, CoveringFinite, FS_Union, PmmAssumption DEF PageTableFrames
  <1>3. /\ FramesCovering(kernel_start, kernel_end) \subseteq Nat
        /\ IsFiniteSet(FramesCovering(kernel_start, kernel_end))
    BY CoveringFinite, PmmAssumption
  <1>4. BITMAP_ADDR \in Nat /\ BITMAP_ADDR + BitmapBytes \in Nat
    BY PmmAssumption, BitmapBytesType
  <1>5. /\ FramesCovering(BITMAP_ADDR, BITMAP_ADDR + BitmapBytes) \subseteq Nat
        /\ IsFiniteSet(FramesCovering(BITMAP_ADDR, BITMAP_ADDR + BitmapBytes))
    BY <1>4, CoveringFinite
  <1>6. ReserveOrder[i] \in {"INIT", "KERNEL", "BITMAP", "PAGE_TABLE"}
    BY DEF ReserveOrder
  <1>. QED  BY <1>1, <1>2, <1>3, <1>5, <1>6 DEF ReservedFrames

-----------------------------------------------------------------------------
(* The inductive invariant.                                                *)

\* Loop indices stay within the sequence they run over.
IndexInv ==
    /\ pc = "parse" => idx <= Len(e820)
    /\ pc \in {"max", "scan"} => idx <= Len(usable_memory_region)
    /\ pc = "serve" => idx = Len(usable_memory_region)

\* Nothing is usable before the scan, nothing reserved or owned before pmm_init
\* returns, nothing owned before three reservations.
PhaseInv ==
    /\ pc \in {"parse", "max", "smashed"} => usable = {} /\ total_frames = 0
    /\ pc # "serve" => reserved = {} /\ reserved_types = 0
    /\ ~Serving => owned = {}

\* The bits of owned and reserved frames, for any firmware map.
MarkInv ==
    /\ owned \cup reserved \subseteq frame_bitmap
    /\ owned \cap reserved = {}
    /\ 0 \notin owned
    /\ \A i \in 1 .. reserved_types : ReservedFrames(ReserveOrder[i]) \subseteq reserved

\* What the scan has freed so far, and the bits it has not touched.
ScanInv ==
    pc \in {"scan", "serve"} =>
      /\ usable \subseteq 0 .. max_frame_idx - 1
      /\ \A f \in usable : \E i \in 1 .. idx : f \in RegionFrames(usable_memory_region[i])
      /\ InitialisedBits \ usable \subseteq frame_bitmap
      /\ owned \cap InitialisedBits \subseteq usable
      /\ pc = "scan" => frame_bitmap \cap usable = {}

\* The counters, for a sane firmware map.
CountInv ==
    FirmwareOk =>
      /\ pc \in {"scan", "serve"} => total_frames = Cardinality(usable)
      /\ pc = "serve" =>
           /\ owned \subseteq usable
           /\ frame_bitmap \cap usable = owned \cup (reserved \cap usable)
           /\ used_frames = Cardinality(frame_bitmap \cap usable)

\* Every region that was parsed is an available entry of the firmware's map.
SourceInv ==
    \A i \in 1 .. Len(usable_memory_region) : \E j \in 1 .. Len(e820) :
      usable_memory_region[i] = e820[j] /\ e820[j].type = AVAILABLE

\* The entries parsed so far.
ParseInv ==
    usable_memory_region =
      FirstRegions(AvailableUpTo[IF pc = "parse" THEN idx ELSE Len(e820)])

IInv ==
    /\ TypeOK /\ IndexInv /\ PhaseInv /\ MarkInv /\ ScanInv /\ CountInv
    /\ SourceInv /\ ParseInv

-----------------------------------------------------------------------------
(* Steps preserve the invariant, one part at a time.                       *)

\* Every action keeps the variables in their domains and the loop indices in range.
LEMMA TypeStep ==
    ASSUME TypeOK, IndexInv, [Next]_vars
    PROVE  TypeOK'
  <1>0. WORD \in Nat \ {0} /\ max_frame_idx \in Nat /\ used_frames \in Nat
    BY PmmAssumption, FrameIndexBound DEF TypeOK
  <1>. USE <1>0 DEF TypeOK
  <1>1. CASE ParseEntry
    <2>1. idx + 1 \in 1 .. Len(e820)
      BY <1>1 DEF ParseEntry
    <2>2. e820[idx + 1] \in Region
      BY <2>1
    <2>. QED  BY <1>1, <2>2 DEF ParseEntry
  <1>2. CASE PmmInitStart
    <2>1. 0 \in 0 .. WORD - 1
      OBVIOUS
    <2>. QED  BY <1>2, <2>1 DEF PmmInitStart
  <1>3. CASE MaxRegion
    <2>1. usable_memory_region[idx + 1] \in Region
      BY <1>3 DEF MaxRegion
    <2>2. FRAME_INDEX(RegionEnd(usable_memory_region[idx + 1]))
            \in 0 .. FRAME_INDEX(WORD - 1)
      BY <2>1, RegionType, FrameIndexBound
    <2>. QED  BY <1>3, <2>2 DEF MaxRegion
  <1>4. CASE FillBitmap
    BY <1>4, BitmapBytesType DEF FillBitmap, memVars
  <1>5. CASE ScanRegion
    <2>. DEFINE freed == RegionFrames(usable_memory_region[idx + 1])
                         \cap (0 .. max_frame_idx - 1)
    <2>1. freed \subseteq Nat /\ Cardinality(freed) \in Nat
      <3>1. IsFiniteSet(0 .. max_frame_idx - 1)
        BY FS_Interval
      <3>2. IsFiniteSet(freed) /\ freed \subseteq Nat
        <4>1. freed \subseteq 0 .. max_frame_idx - 1
          OBVIOUS
        <4>. QED  BY <3>1, <4>1, FS_Subset
      <3>. QED  BY <3>2, FS_CardinalityType
    <2>. HIDE DEF freed
    <2>2. /\ frame_bitmap' = frame_bitmap \ freed
          /\ total_frames' = total_frames + Cardinality(freed)
          /\ usable' = usable \cup freed
      BY <1>5 DEF ScanRegion, freed
    <2>3. /\ idx' = idx + 1
          /\ UNCHANGED <<pc, e820, usable_memory_region, max_frame_idx,
                         used_frames, reserved_types, reserved, owned>>
      BY <1>5 DEF ScanRegion
    <2>4. /\ frame_bitmap' \in SUBSET Nat /\ usable' \in SUBSET Nat
          /\ total_frames' \in Nat
      BY <2>1, <2>2
    <2>5. idx' \in Nat
      BY <2>3
    <2>. QED  BY <2>3, <2>4, <2>5
  <1>6. CASE PmmInitDone
    <2>1. /\ pc' = "serve"
          /\ UNCHANGED <<idx, e820, usable_memory_region, max_frame_idx, frame_bitmap,
                         total_frames, reserved_types, usable, reserved, owned>>
      BY <1>6 DEF PmmInitDone, memVars
    <2>2. used_frames' \in 0 .. WORD - 1
      BY <1>6 DEF PmmInitDone
    <2>. QED  BY <2>1, <2>2
  <1>7. CASE PmmReserveMemoryRegion
    <2>. DEFINE frames == ReservedFrames(ReserveOrder[reserved_types + 1])
    <2>1. reserved_types + 1 \in 1 .. Len(ReserveOrder)
      BY <1>7 DEF PmmReserveMemoryRegion, ReserveOrder
    <2>2. frames \subseteq Nat /\ IsFiniteSet(frames)
      BY <2>1, ReservedFinite
    <2>3. Cardinality(frames \ frame_bitmap) \in Nat
      BY <2>2, FS_Difference, FS_CardinalityType
    <2>4. (used_frames + Cardinality(frames \ frame_bitmap)) % WORD \in 0 .. WORD - 1
      BY <2>3, WordModSum
    <2>5. reserved_types' \in 0 .. Len(ReserveOrder)
      BY <1>7, <2>1 DEF PmmReserveMemoryRegion
    <2>. HIDE DEF frames
    <2>6. /\ frame_bitmap' = frame_bitmap \cup frames
          /\ reserved' = reserved \cup frames
          /\ used_frames' = (used_frames + Cardinality(frames \ frame_bitmap)) % WORD
      BY <1>7 DEF PmmReserveMemoryRegion, SetFrameBitmap, frames
    <2>. QED  BY <1>7, <2>2, <2>4, <2>5, <2>6 DEF PmmReserveMemoryRegion, memVars
  <1>8. CASE PmmAllocFrame
    <2>1. (used_frames + 1) % WORD \in 0 .. WORD - 1
      BY WordModSum
    <2>. QED  BY <1>8, <2>1 DEF PmmAllocFrame, AllocFrame, TakeFrame, FreeFrames, memVars
  <1>9. ASSUME NEW addr \in FreeArgs, PmmFreeFrame(addr)
        PROVE  TypeOK'
    <2>1. (used_frames - 1) % WORD \in 0 .. WORD - 1
      BY WordModSum
    <2>. QED  BY <1>9, <2>1 DEF PmmFreeFrame, memVars
  <1>10. CASE UNCHANGED vars
    BY <1>10 DEF vars
  <1>. QED  BY <1>1, <1>2, <1>3, <1>4, <1>5, <1>6, <1>7, <1>8, <1>9, <1>10
            DEF Next, Boot, Client, Smashed, PmmAllocFail, PmmFreeRejected

\* Nothing is usable, reserved or owned before its phase of the boot.
LEMMA PhaseStep ==
    ASSUME TypeOK, IndexInv, PhaseInv, [Next]_vars
    PROVE  IndexInv' /\ PhaseInv'
  <1>. USE DEF TypeOK, IndexInv, PhaseInv, Serving, ReservationsBeforeAlloc
  <1>1. CASE ParseEntry
    BY <1>1 DEF ParseEntry
  <1>2. CASE PmmInitStart
    BY <1>2 DEF PmmInitStart
  <1>3. CASE MaxRegion
    BY <1>3 DEF MaxRegion
  <1>4. CASE FillBitmap
    BY <1>4 DEF FillBitmap, memVars
  <1>5. CASE ScanRegion
    BY <1>5 DEF ScanRegion
  <1>6. CASE PmmInitDone
    BY <1>6 DEF PmmInitDone, memVars
  <1>7. CASE PmmReserveMemoryRegion
    BY <1>7 DEF PmmReserveMemoryRegion, memVars
  <1>8. CASE PmmAllocFrame
    BY <1>8 DEF PmmAllocFrame, AllocFrame, memVars
  <1>9. ASSUME NEW addr \in FreeArgs, PmmFreeFrame(addr)
        PROVE  IndexInv' /\ PhaseInv'
    BY <1>9 DEF PmmFreeFrame, memVars
  <1>10. CASE UNCHANGED vars
    BY <1>10 DEF vars
  <1>. QED  BY <1>1, <1>2, <1>3, <1>4, <1>5, <1>6, <1>7, <1>8, <1>9, <1>10
            DEF Next, Boot, Client, Smashed, PmmAllocFail, PmmFreeRejected

\* No action clears the bit of a frame that stays owned or reserved.
LEMMA MarkStep ==
    ASSUME TypeOK, PhaseInv, MarkInv, [Next]_vars
    PROVE  MarkInv'
  <1>. USE DEF MarkInv
  <1>1. CASE pc # "serve" /\ ~PmmInitDone
    <2>1. UNCHANGED <<reserved, owned, reserved_types>> /\ pc # "serve"
      BY <1>1 DEF Next, Boot, Client, Smashed, ParseEntry, PmmInitStart, MaxRegion,
           FillBitmap, ScanRegion, PmmReserveMemoryRegion, PmmAllocFrame, AllocFrame,
           PmmAllocFail, PmmFreeFrame, PmmFreeRejected, Serving, vars
    <2>. QED  BY <2>1 DEF PhaseInv, Serving
  <1>2. CASE PmmInitDone
    BY <1>2 DEF PmmInitDone, PhaseInv, Serving
  <1>3. CASE PmmReserveMemoryRegion
    <2>. DEFINE n == reserved_types
                frames == ReservedFrames(ReserveOrder[n + 1])
    <2>1. /\ frame_bitmap' = frame_bitmap \cup frames
          /\ reserved' = reserved \cup frames
          /\ n' = n + 1 /\ n \in 0 .. 3
          /\ UNCHANGED <<owned, max_frame_idx, pc>> /\ pc = "serve"
      BY <1>3 DEF PmmReserveMemoryRegion, SetFrameBitmap, memVars, ReserveOrder, TypeOK
    <2>2. \A i \in 1 .. 4 : ReservedFrames(ReserveOrder[i])' = ReservedFrames(ReserveOrder[i])
      BY <2>1 DEF ReservedFrames, BitmapBytes
    <2>3. \A i \in 1 .. n' : ReservedFrames(ReserveOrder[i])' \subseteq reserved'
      <3>1. \A i \in 1 .. n' : i \in 1 .. n \/ i = n + 1
        BY <2>1
      <3>. QED  BY <2>1, <2>2, <3>1
    <2>4. owned \cap frames = {}
      <3>1. CASE n < 3
        BY <2>1, <3>1 DEF PhaseInv, Serving, ReservationsBeforeAlloc
      <3>2. CASE n = 3
        <4>1. LowMemoryFrames \subseteq reserved
          BY <2>1, <3>2 DEF ReservedFrames, ReserveOrder
        <4>2. frames \subseteq LowMemoryFrames
          BY <3>2, LayoutAssumption DEF ReservedFrames, ReserveOrder
        <4>. QED  BY <4>1, <4>2
      <3>. QED  BY <2>1, <3>1, <3>2
    <2>. QED  BY <2>1, <2>3, <2>4
  <1>4. CASE PmmAllocFrame
    <2>1. PICK f \in FreeFrames : TakeFrame(f)
      BY <1>4 DEF PmmAllocFrame, AllocFrame
    <2>2. UNCHANGED <<max_frame_idx, reserved_types, reserved>>
      BY <1>4 DEF PmmAllocFrame, AllocFrame, memVars
    <2>3. \A i : ReservedFrames(ReserveOrder[i])' = ReservedFrames(ReserveOrder[i])
      BY <2>2 DEF ReservedFrames, BitmapBytes
    <2>4. f # 0 /\ f \notin frame_bitmap
      BY DEF FreeFrames
    <2>. QED  BY <2>1, <2>2, <2>3, <2>4 DEF TakeFrame
  <1>5. ASSUME NEW addr \in FreeArgs, PmmFreeFrame(addr)
        PROVE  MarkInv'
    BY <1>5 DEF PmmFreeFrame, memVars, ReservedFrames, BitmapBytes
  <1>6. CASE UNCHANGED vars
    BY <1>6 DEF vars, ReservedFrames, BitmapBytes
  <1>. QED  BY <1>1, <1>2, <1>3, <1>4, <1>5, <1>6
            DEF Next, Boot, Client, Smashed, PmmAllocFail, PmmFreeRejected,
                ParseEntry, PmmInitStart, MaxRegion, FillBitmap, ScanRegion

\* The scan of pmm_init clears the bits of the regions done, and no other.
LEMMA ScanStep ==
    ASSUME TypeOK, IndexInv, PhaseInv, MarkInv, ScanInv, CountInv, [Next]_vars
    PROVE  ScanInv'
  <1>. USE DEF ScanInv
  <1>1. CASE pc \in {"parse", "smashed"} \/ MaxRegion
    BY <1>1 DEF Next, Boot, Client, Smashed, ParseEntry, PmmInitStart, MaxRegion,
         FillBitmap, ScanRegion, PmmInitDone, PmmReserveMemoryRegion, PmmAllocFrame, AllocFrame,
         PmmAllocFail, PmmFreeFrame, PmmFreeRejected, Serving, vars
  <1>2. CASE FillBitmap
    <2>1. owned' = {} /\ usable' = {}
      BY <1>2 DEF FillBitmap, memVars, PhaseInv, Serving
    <2>. QED  BY <1>2, <2>1 DEF FillBitmap, memVars, InitialisedBits, BitmapBytes
  <1>3. CASE ScanRegion
    <2>. DEFINE region == usable_memory_region[idx + 1]
                freed == RegionFrames(region) \cap (0 .. max_frame_idx - 1)
    <2>1. /\ frame_bitmap' = frame_bitmap \ freed
          /\ usable' = usable \cup freed
          /\ idx' = idx + 1 /\ idx \in Nat
          /\ UNCHANGED <<usable_memory_region, max_frame_idx, pc>> /\ pc = "scan"
      BY <1>3 DEF ScanRegion, TypeOK
    <2>2. InitialisedBits' = InitialisedBits
      BY <2>1 DEF InitialisedBits, BitmapBytes
    <2>3. ASSUME NEW f \in usable'
          PROVE  \E i \in 1 .. idx' : f \in RegionFrames(usable_memory_region[i])
      <3>1. CASE f \in usable
        <4>1. PICK i \in 1 .. idx : f \in RegionFrames(usable_memory_region[i])
          BY <2>1, <3>1
        <4>2. i \in 1 .. idx'
          BY <2>1
        <4>. QED  BY <4>1, <4>2
      <3>2. CASE f \in freed
        <4>1. idx + 1 \in 1 .. idx'
          BY <2>1
        <4>. QED  BY <4>1, <3>2
      <3>. QED  BY <2>1, <2>3, <3>1, <3>2
    <2>4. (\A f \in usable : \E i \in 1 .. idx : f \in RegionFrames(usable_memory_region[i]))'
      BY <2>1, <2>3 DEF RegionFrames, RegionBase, RegionEnd, LastStep, FRAME_INDEX
    <2>5. owned' = {}
      BY <1>3 DEF ScanRegion, PhaseInv, Serving
    <2>. QED  BY <2>1, <2>2, <2>4, <2>5
  <1>4. CASE PmmInitDone
    BY <1>4 DEF PmmInitDone, memVars, InitialisedBits, BitmapBytes
  <1>5. CASE PmmReserveMemoryRegion
    BY <1>5 DEF PmmReserveMemoryRegion, SetFrameBitmap, memVars, InitialisedBits, BitmapBytes
  <1>6. CASE PmmAllocFrame
    <2>1. PICK f \in FreeFrames : TakeFrame(f)
      BY <1>6 DEF PmmAllocFrame, AllocFrame
    <2>2. /\ UNCHANGED <<pc, idx, usable_memory_region, max_frame_idx, usable>>
          /\ pc = "serve"
      BY <1>6 DEF PmmAllocFrame, AllocFrame, memVars, Serving
    <2>3. InitialisedBits' = InitialisedBits
      BY <2>2 DEF InitialisedBits, BitmapBytes
    <2>4. f \notin frame_bitmap
      BY DEF FreeFrames
    <2>. QED  BY <2>1, <2>2, <2>3, <2>4 DEF TakeFrame
  <1>7. ASSUME NEW addr \in FreeArgs, PmmFreeFrame(addr)
        PROVE  ScanInv'
    <2>1. /\ FRAME_INDEX(addr) \in owned
          /\ frame_bitmap' = frame_bitmap \ {FRAME_INDEX(addr)}
          /\ owned' \subseteq owned
          /\ UNCHANGED <<pc, idx, usable_memory_region, max_frame_idx, usable>>
          /\ pc = "serve"
      BY <1>7 DEF PmmFreeFrame, memVars, Serving
    <2>2. InitialisedBits' = InitialisedBits
      BY <2>1 DEF InitialisedBits, BitmapBytes
    <2>. QED  BY <2>1, <2>2
  <1>8. CASE UNCHANGED vars
    BY <1>8 DEF vars, InitialisedBits, BitmapBytes
  <1>. QED  BY <1>1, <1>2, <1>3, <1>4, <1>5, <1>6, <1>7, <1>8
            DEF Next, Boot, Client, Smashed, PmmAllocFail, PmmFreeRejected,
                ParseEntry, PmmInitStart

\* FirmwareOk is about the parsed regions and max_frame_idx only.
LEMMA FirmwareStable ==
    ASSUME UNCHANGED <<usable_memory_region, max_frame_idx>>
    PROVE  FirmwareOk' = FirmwareOk
  BY DEF FirmwareOk, UsableIdx, RegionFrames, RegionBase, RegionEnd, LastStep,
         FRAME_INDEX, ReservedFrames, BitmapBytes

\* total_frames, a count, never exceeds max_frame_idx, an index.
LEMMA TotalBound ==
    ASSUME TypeOK, ScanInv, CountInv, FirmwareOk, pc \in {"scan", "serve"}
    PROVE  /\ IsFiniteSet(usable)
           /\ total_frames <= max_frame_idx
           /\ Cardinality(usable) < WORD
  <1>1. max_frame_idx \in Nat /\ WORD \in Nat /\ max_frame_idx < WORD
    <2>1. max_frame_idx \in 0 .. FRAME_INDEX(WORD - 1)
      BY DEF TypeOK
    <2>. QED  BY <2>1, PmmAssumption, FrameIndexBound
  <1>2. /\ IsFiniteSet(0 .. max_frame_idx - 1)
        /\ Cardinality(0 .. max_frame_idx - 1) = max_frame_idx
    BY <1>1, FS_Interval
  <1>3. usable \in SUBSET (0 .. max_frame_idx - 1)
    BY DEF ScanInv
  <1>4. IsFiniteSet(usable) /\ Cardinality(usable) <= max_frame_idx
    BY <1>2, <1>3, FS_Subset
  <1>5. Cardinality(usable) \in Nat
    BY <1>4, FS_CardinalityType
  <1>6. total_frames = Cardinality(usable)
    BY DEF CountInv
  <1>. QED  BY <1>1, <1>4, <1>5, <1>6

\* Every action keeps the counters exact when the firmware map is sane.
LEMMA CountStep ==
    ASSUME TypeOK, IndexInv, PhaseInv, MarkInv, ScanInv, CountInv, [Next]_vars,
           FirmwareOk'
    PROVE  CountInv'
  <1>1. CASE pc \in {"parse", "smashed"} \/ MaxRegion
    BY <1>1 DEF Next, Boot, Client, Smashed, ParseEntry, PmmInitStart, MaxRegion,
         FillBitmap, ScanRegion, PmmInitDone, PmmReserveMemoryRegion, PmmAllocFrame, AllocFrame,
         PmmAllocFail, PmmFreeFrame, PmmFreeRejected, Serving, vars, CountInv
  <1>2. CASE FillBitmap
    <2>1. usable' = {} /\ total_frames' = 0 /\ pc' # "serve"
      BY <1>2 DEF FillBitmap, memVars, PhaseInv
    <2>. QED  BY <2>1, FS_EmptySet DEF CountInv
  <1>3. CASE ScanRegion
    <2>. DEFINE region == usable_memory_region[idx + 1]
                freed == RegionFrames(region) \cap (0 .. max_frame_idx - 1)
    <2>1. /\ total_frames' = total_frames + Cardinality(freed)
          /\ usable' = usable \cup freed
          /\ UNCHANGED <<usable_memory_region, max_frame_idx, pc>> /\ pc = "scan"
          /\ idx + 1 \in 1 .. Len(usable_memory_region) /\ idx \in Nat
      BY <1>3 DEF ScanRegion, TypeOK
    <2>2. FirmwareOk
      BY <2>1, FirmwareStable
    <2>3. usable \cap freed = {}
      <3>1. SUFFICES ASSUME NEW f \in usable, f \in freed  PROVE FALSE
        OBVIOUS
      <3>2. PICK i \in 1 .. idx : f \in RegionFrames(usable_memory_region[i])
        BY <2>1 DEF ScanInv
      <3>3. i # idx + 1 /\ i \in UsableIdx /\ idx + 1 \in UsableIdx
        BY <2>1 DEF UsableIdx, TypeOK
      <3>4. RegionFrames(usable_memory_region[i]) \cap RegionFrames(region) = {}
        BY <2>2, <3>3 DEF FirmwareOk
      <3>. QED  BY <3>1, <3>2, <3>4
    <2>4. IsFiniteSet(usable) /\ IsFiniteSet(freed)
      <3>1. IsFiniteSet(0 .. max_frame_idx - 1)
        BY FS_Interval DEF TypeOK
      <3>2. freed \in SUBSET (0 .. max_frame_idx - 1)
        OBVIOUS
      <3>. QED  BY <2>1, <2>2, <3>1, <3>2, FS_Subset, TotalBound
    <2>5. Cardinality(usable \cup freed) = Cardinality(usable) + Cardinality(freed)
      <3>1. Cardinality(usable) \in Nat /\ Cardinality(freed) \in Nat
        BY <2>4, FS_CardinalityType
      <3>2. Cardinality(usable \cup freed)
              = Cardinality(usable) + Cardinality(freed) - Cardinality(usable \cap freed)
        BY <2>4, FS_Union
      <3>3. Cardinality(usable \cap freed) = 0
        BY <2>3, FS_EmptySet
      <3>. HIDE DEF freed
      <3>. QED  BY <3>1, <3>2, <3>3
    <2>6. total_frames = Cardinality(usable)
      BY <2>1, <2>2 DEF CountInv
    <2>. QED  BY <2>1, <2>5, <2>6 DEF CountInv
  <1>4. CASE PmmInitDone
    <2>1. /\ UNCHANGED <<usable_memory_region, max_frame_idx, total_frames, usable,
                         frame_bitmap, reserved, owned>>
          /\ used_frames' = 0 /\ pc = "scan"
      BY <1>4 DEF PmmInitDone, memVars
    <2>2. FirmwareOk
      BY <2>1, FirmwareStable
    <2>3. frame_bitmap \cap usable = {} /\ owned = {} /\ reserved = {}
      BY <2>1 DEF ScanInv, PhaseInv, Serving
    <2>. QED  BY <2>1, <2>2, <2>3, FS_EmptySet DEF CountInv
  <1>5. ASSUME pc = "serve",
               UNCHANGED <<pc, usable_memory_region, max_frame_idx, total_frames, usable>>
        PROVE  /\ FirmwareOk /\ IsFiniteSet(usable)
               /\ total_frames <= max_frame_idx
               /\ Cardinality(usable) < WORD
               /\ IsFiniteSet(frame_bitmap \cap usable)
               /\ used_frames = Cardinality(frame_bitmap \cap usable)
               /\ used_frames \in Nat /\ Cardinality(usable) \in Nat
               /\ WORD \in Nat
    <2>1. FirmwareOk
      BY <1>5, FirmwareStable
    <2>2. IsFiniteSet(usable) /\ total_frames <= max_frame_idx /\ Cardinality(usable) < WORD
      BY <1>5, <2>1, TotalBound
    <2>3. IsFiniteSet(frame_bitmap \cap usable)
      BY <2>2, FS_Intersection
    <2>4. used_frames = Cardinality(frame_bitmap \cap usable)
      BY <1>5, <2>1 DEF CountInv
    <2>. QED  BY <2>1, <2>2, <2>3, <2>4, FS_CardinalityType, PmmAssumption
  <1>6. CASE PmmReserveMemoryRegion
    <2>. DEFINE n == reserved_types + 1
                frames == ReservedFrames(ReserveOrder[n])
                new == frames \ frame_bitmap
                marked == frame_bitmap \cap usable
    <2>1. /\ frame_bitmap' = frame_bitmap \cup frames
          /\ reserved' = reserved \cup frames
          /\ used_frames' = (used_frames + Cardinality(new)) % WORD
          /\ UNCHANGED <<owned, pc, usable_memory_region, max_frame_idx, total_frames, usable>>
          /\ pc = "serve" /\ n \in 1 .. Len(ReserveOrder)
      BY <1>6 DEF PmmReserveMemoryRegion, SetFrameBitmap, memVars, ReserveOrder, TypeOK
    <2>2. /\ FirmwareOk /\ IsFiniteSet(usable) /\ Cardinality(usable) < WORD
          /\ IsFiniteSet(marked) /\ used_frames = Cardinality(marked)
          /\ used_frames \in Nat /\ Cardinality(usable) \in Nat /\ WORD \in Nat
      BY <1>5, <2>1
    <2>3. new \subseteq usable
      <3>1. frames \subseteq 0 .. max_frame_idx - 1
        BY <2>1, <2>2 DEF FirmwareOk
      <3>2. 0 .. max_frame_idx - 1 \subseteq InitialisedBits
        BY BitmapBytesType DEF TypeOK
      <3>. HIDE DEF frames
      <3>. QED  BY <2>1, <3>1, <3>2 DEF ScanInv
    <2>. HIDE DEF frames
    <2>4. IsFiniteSet(new) /\ new \cap marked = {} /\ marked \cup new \subseteq usable
      BY <2>2, <2>3, FS_Subset
    <2>5. Cardinality(marked \cup new) = used_frames + Cardinality(new)
      <3>1. Cardinality(marked \cup new)
              = Cardinality(marked) + Cardinality(new) - Cardinality(marked \cap new)
        BY <2>2, <2>4, FS_Union
      <3>2. Cardinality(marked \cap new) = 0
        BY <2>4, FS_EmptySet
      <3>3. Cardinality(new) \in Nat
        BY <2>4, FS_CardinalityType
      <3>. HIDE DEF new, marked
      <3>. QED  BY <2>2, <3>1, <3>2, <3>3
    <2>6. used_frames' = Cardinality(marked \cup new)
      <3>1. Cardinality(marked \cup new) <= Cardinality(usable)
        BY <2>2, <2>4, FS_Subset
      <3>2. IsFiniteSet(marked \cup new)
        BY <2>2, <2>4, FS_Subset
      <3>3. Cardinality(marked \cup new) \in Nat
        BY <3>2, FS_CardinalityType
      <3>. HIDE DEF new, marked
      <3>. QED  BY <2>1, <2>2, <2>5, <3>1, <3>3
    <2>7. frame_bitmap' \cap usable' = marked \cup new
      BY <2>1, <2>3
    <2>8. frame_bitmap' \cap usable' = owned' \cup (reserved' \cap usable')
      BY <2>1, <2>2, <2>3 DEF CountInv, MarkInv
    <2>9. owned' \subseteq usable' /\ total_frames' = Cardinality(usable')
      BY <2>1, <2>2 DEF CountInv
    <2>. QED  BY <2>6, <2>7, <2>8, <2>9 DEF CountInv
  <1>7. CASE PmmAllocFrame
    <2>. DEFINE marked == frame_bitmap \cap usable
    <2>1. PICK f \in FreeFrames : TakeFrame(f)
      BY <1>7 DEF PmmAllocFrame, AllocFrame
    <2>2. /\ UNCHANGED <<reserved, pc, usable_memory_region, max_frame_idx, total_frames, usable>>
          /\ pc = "serve"
      BY <1>7 DEF PmmAllocFrame, AllocFrame, memVars, Serving
    <2>3. /\ FirmwareOk /\ IsFiniteSet(usable) /\ Cardinality(usable) < WORD
          /\ total_frames <= max_frame_idx
          /\ IsFiniteSet(marked) /\ used_frames = Cardinality(marked)
          /\ used_frames \in Nat /\ Cardinality(usable) \in Nat /\ WORD \in Nat
      BY <1>5, <2>2
    <2>4. f \in usable /\ f \notin frame_bitmap
      <3>1. f \in 1 .. total_frames - 1 /\ f \notin frame_bitmap
        BY DEF FreeFrames
      <3>2. f \in 0 .. max_frame_idx
        BY <2>3, <3>1 DEF TypeOK
      <3>3. f \in InitialisedBits
        BY <3>2, BitmapBytesType DEF TypeOK
      <3>. QED  BY <2>2, <3>1, <3>3 DEF ScanInv
    <2>5. frame_bitmap' \cap usable' = marked \cup {f}
      BY <2>1, <2>2, <2>4 DEF TakeFrame
    <2>6. Cardinality(marked \cup {f}) = used_frames + 1
      BY <2>3, <2>4, FS_AddElement
    <2>7. used_frames' = used_frames + 1
      <3>1. marked \cup {f} \in SUBSET usable
        BY <2>4
      <3>2. Cardinality(marked \cup {f}) <= Cardinality(usable)
        BY <2>3, <3>1, FS_Subset
      <3>3. used_frames + 1 < WORD
        BY <2>3, <2>6, <3>2
      <3>4. used_frames' = (used_frames + 1) % WORD
        BY <2>1 DEF TakeFrame
      <3>. QED  BY <2>3, <3>3, <3>4
    <2>8. frame_bitmap' \cap usable' = owned' \cup (reserved' \cap usable')
      BY <2>1, <2>2, <2>3, <2>4 DEF CountInv, TakeFrame
    <2>9. owned' \subseteq usable' /\ total_frames' = Cardinality(usable')
      BY <2>1, <2>2, <2>3, <2>4 DEF CountInv, TakeFrame
    <2>. QED  BY <2>5, <2>6, <2>7, <2>8, <2>9 DEF CountInv
  <1>8. ASSUME NEW addr \in FreeArgs, PmmFreeFrame(addr)
        PROVE  CountInv'
    <2>. DEFINE f == FRAME_INDEX(addr)
                marked == frame_bitmap \cap usable
    <2>1. /\ f \in owned
          /\ frame_bitmap' = frame_bitmap \ {f}
          /\ used_frames' = (used_frames - 1) % WORD
          /\ owned' = owned \ {f}
          /\ UNCHANGED <<reserved, pc, usable_memory_region, max_frame_idx, total_frames, usable>>
          /\ pc = "serve"
      BY <1>8 DEF PmmFreeFrame, memVars, Serving
    <2>2. /\ FirmwareOk /\ IsFiniteSet(usable) /\ Cardinality(usable) < WORD
          /\ IsFiniteSet(marked) /\ used_frames = Cardinality(marked)
          /\ used_frames \in Nat /\ Cardinality(usable) \in Nat /\ WORD \in Nat
      BY <1>5, <2>1
    <2>. HIDE DEF f
    <2>3. f \in marked /\ f \notin reserved
      BY <2>1, <2>2 DEF CountInv, MarkInv
    <2>4. /\ IsFiniteSet(marked \ {f})
          /\ Cardinality(marked \ {f}) = used_frames - 1
      BY <2>2, <2>3, FS_RemoveElement
    <2>5. used_frames' = used_frames - 1
      <3>1. used_frames - 1 \in Nat
        BY <2>4, FS_CardinalityType
      <3>2. used_frames <= Cardinality(usable)
        BY <2>2, FS_Subset
      <3>. QED  BY <2>1, <2>2, <3>1, <3>2
    <2>6. frame_bitmap' \cap usable' = marked \ {f}
      BY <2>1
    <2>7. frame_bitmap' \cap usable' = owned' \cup (reserved' \cap usable')
      BY <2>1, <2>2, <2>3 DEF CountInv
    <2>8. owned' \subseteq usable' /\ total_frames' = Cardinality(usable')
      BY <2>1, <2>2 DEF CountInv
    <2>. QED  BY <2>4, <2>5, <2>6, <2>7, <2>8 DEF CountInv
  <1>9. CASE UNCHANGED vars
    <2>1. FirmwareOk
      BY <1>9, FirmwareStable DEF vars
    <2>. QED  BY <1>9, <2>1 DEF vars, CountInv
  <1>. QED  BY <1>1, <1>2, <1>3, <1>4, <1>6, <1>7, <1>8, <1>9
            DEF Next, Boot, Client, Smashed, PmmAllocFail, PmmFreeRejected,
                ParseEntry, PmmInitStart

\* The parser copies available entries only, and nothing rewrites them.
LEMMA SourceStep ==
    ASSUME TypeOK, SourceInv, [Next]_vars
    PROVE  SourceInv'
  <1>1. CASE ParseEntry
    <2>. DEFINE entry == e820[idx + 1]  regions == usable_memory_region
    <2>1. /\ e820' = e820 /\ idx + 1 \in 1 .. Len(e820)
          /\ regions \in Seq(Region) /\ Len(regions) \in Nat
      BY <1>1 DEF ParseEntry, TypeOK
    <2>2. CASE regions' = Append(regions, entry) /\ entry.type = AVAILABLE
      <3>1. /\ Len(regions') = Len(regions) + 1
            /\ \A i \in 1 .. Len(regions') : i \in 1 .. Len(regions) \/ i = Len(regions) + 1
            /\ \A i \in 1 .. Len(regions) : regions'[i] = regions[i]
            /\ regions'[Len(regions) + 1] = entry
        <4>1. entry \in Region
          BY <2>1 DEF TypeOK
        <4>2. Len(regions') = Len(regions) + 1
          BY <2>1, <2>2, <4>1
        <4>3. ASSUME NEW i \in 1 .. Len(regions)  PROVE regions'[i] = regions[i]
          BY <2>1, <2>2, <4>1
        <4>4. regions'[Len(regions) + 1] = entry
          BY <2>1, <2>2, <4>1
        <4>. QED  BY <2>1, <4>2, <4>3, <4>4
      <3>2. ASSUME NEW i \in 1 .. Len(regions')
            PROVE  \E j \in 1 .. Len(e820) : regions'[i] = e820[j] /\ e820[j].type = AVAILABLE
        <4>1. CASE i \in 1 .. Len(regions)
          BY <3>1, <4>1 DEF SourceInv
        <4>2. CASE i = Len(regions) + 1
          BY <2>1, <2>2, <3>1, <4>2
        <4>. QED  BY <3>1, <4>1, <4>2
      <3>. QED  BY <2>1, <3>2 DEF SourceInv
    <2>3. CASE regions' = regions
      BY <2>1, <2>3 DEF SourceInv
    <2>. QED  BY <1>1, <2>2, <2>3 DEF ParseEntry
  <1>2. CASE ~ParseEntry
    <2>1. UNCHANGED <<e820, usable_memory_region>>
      BY <1>2 DEF Next, Boot, Client, Smashed, PmmInitStart, MaxRegion,
         FillBitmap, ScanRegion, PmmInitDone, PmmReserveMemoryRegion, PmmAllocFrame, AllocFrame,
         PmmAllocFail, PmmFreeFrame, PmmFreeRejected, memVars, vars
    <2>. QED  BY <2>1 DEF SourceInv
  <1>. QED  BY <1>1, <1>2

-----------------------------------------------------------------------------
(* The parser.                                                             *)

\* A set of natural numbers that is not empty has a least element.
LEMMA LeastElement ==
    ASSUME NEW T, T \subseteq Nat, T # {}
    PROVE  \E x \in T : \A y \in T : x <= y
  <1>. DEFINE R == OpToRel(<, Nat)
  <1>1. R = {ss \in Nat \X Nat : ss[1] < ss[2]}
    BY Zenon DEF OpToRel
  <1>2. IsWellFoundedOn(R, Nat)
    BY NatLessThanWellFounded, Zenon
  <1>. HIDE DEF R
  <1>3. PICK x \in T : \A y \in T : ~(<<y, x>> \in R)
    BY <1>2, WFMin
  <1>4. ASSUME NEW y \in T  PROVE x <= y
    <2>1. x \in Nat /\ y \in Nat
      OBVIOUS
    <2>2. CASE y < x
      <3>1. <<y, x>> \in Nat \X Nat /\ <<y, x>>[1] = y /\ <<y, x>>[2] = x
        BY <2>1
      <3>2. <<y, x>> \in R
        BY <1>1, <2>2, <3>1
      <3>. QED  BY <1>3, <3>2
    <2>. QED  BY <2>1, <2>2
  <1>. QED  BY <1>4

KeptStep(g, k) ==
    IF k = 0 THEN << >>
    ELSE IF e820[k].type = AVAILABLE THEN Append(g[k - 1], e820[k]) ELSE g[k - 1]
IsKept(g, n) == g = [k \in 0 .. n |-> KeptStep(g, k)]

\* There is a table of the available entries: the recursion of AvailableUpTo is
\* well founded.
LEMMA KeptExists ==
    ASSUME NEW n \in Nat
    PROVE  \E g : IsKept(g, n)
  <1>. DEFINE T == {m \in Nat : ~\E g : IsKept(g, m)}
  <1>. SUFFICES ASSUME T # {}  PROVE FALSE
    OBVIOUS
  <1>1. PICK x \in T : \A y \in T : x <= y
    <2>1. T \subseteq Nat
      OBVIOUS
    <2>. HIDE DEF T
    <2>. QED  BY <2>1, LeastElement
  <1>2. x \in Nat /\ ~\E g : IsKept(g, x)
    OBVIOUS
  <1>3. CASE x = 0
    <2>. DEFINE g == [k \in 0 .. 0 |-> << >>]
    <2>1. \A k \in 0 .. 0 : k = 0
      OBVIOUS
    <2>2. IsKept(g, 0)
      BY <2>1 DEF IsKept, KeptStep
    <2>. QED  BY <1>2, <1>3, <2>2
  <1>4. CASE x > 0
    <2>1. x - 1 \in Nat /\ ~(x <= x - 1)
      BY <1>2, <1>4
    <2>2. PICK g : IsKept(g, x - 1)
      BY <1>1, <2>1
    <2>3. \A k \in 0 .. x - 1 : g[k] = KeptStep(g, k)
      BY <2>2 DEF IsKept
    <2>. DEFINE h == [k \in 0 .. x |-> IF k < x THEN g[k] ELSE KeptStep(g, x)]
    <2>4. ASSUME NEW k \in 0 .. x
          PROVE  h[k] = KeptStep(h, k)
      <3>1. h[k] = KeptStep(g, k)
        <4>1. CASE k < x
          BY <1>2, <2>3, <4>1
        <4>2. CASE k = x
          BY <1>2, <4>2
        <4>. QED  BY <1>2, <4>1, <4>2
      <3>2. k # 0 => k - 1 \in 0 .. x /\ k - 1 < x
        BY <1>2
      <3>3. k # 0 => h[k - 1] = g[k - 1]
        BY <3>2
      <3>. HIDE DEF h
      <3>. QED  BY <3>1, <3>3 DEF KeptStep
    <2>5. IsKept(h, x)
      <3>1. h = [k \in 0 .. x |-> h[k]]
        OBVIOUS
      <3>. HIDE DEF h
      <3>. QED  BY <2>4, <3>1 DEF IsKept
    <2>. QED  BY <1>2, <2>5
  <1>. QED  BY <1>2, <1>3, <1>4

\* An entry more is kept if it is available.
LEMMA KeptValue ==
    ASSUME Len(e820) \in Nat, NEW k \in 0 .. Len(e820)
    PROVE  AvailableUpTo[k] = KeptStep(AvailableUpTo, k)
  <1>. DEFINE F == CHOOSE g : IsKept(g, Len(e820))
  <1>1. AvailableUpTo = F
    BY DEF AvailableUpTo, IsKept, KeptStep
  <1>2. IsKept(F, Len(e820))
    <2>1. \E g : IsKept(g, Len(e820))
      BY KeptExists
    <2>. QED  BY <2>1
  <1>. HIDE DEF F
  <1>3. F[k] = KeptStep(F, k)
    BY <1>2 DEF IsKept
  <1>. QED  BY <1>1, <1>3

\* What is kept are regions.
LEMMA KeptType ==
    ASSUME e820 \in Seq(Region), NEW n \in 0 .. Len(e820)
    PROVE  AvailableUpTo[n] \in Seq(Region)
  <1>. DEFINE T == {m \in Nat : m <= Len(e820) /\ AvailableUpTo[m] \notin Seq(Region)}
  <1>. SUFFICES ASSUME T # {}  PROVE FALSE
    OBVIOUS
  <1>1. PICK x \in T : \A y \in T : x <= y
    <2>1. T \subseteq Nat
      OBVIOUS
    <2>. HIDE DEF T
    <2>. QED  BY <2>1, LeastElement
  <1>2. x \in Nat /\ x <= Len(e820) /\ Len(e820) \in Nat /\ AvailableUpTo[x] \notin Seq(Region)
    OBVIOUS
  <1>3. AvailableUpTo[x] = KeptStep(AvailableUpTo, x)
    <2>1. x \in 0 .. Len(e820)
      BY <1>2
    <2>. QED  BY <1>2, <2>1, KeptValue
  <1>4. x # 0
    BY <1>2, <1>3 DEF KeptStep
  <1>5. AvailableUpTo[x - 1] \in Seq(Region) /\ e820[x] \in Region
    <2>1. x - 1 \in Nat /\ x - 1 <= Len(e820) /\ ~(x <= x - 1) /\ x \in 1 .. Len(e820)
      BY <1>2, <1>4
    <2>. QED  BY <1>1, <2>1
  <1>. QED  BY <1>2, <1>3, <1>4, <1>5 DEF KeptStep

\* usable_memory_region[] takes an entry while there is room.
LEMMA FirstAppend ==
    ASSUME NEW s \in Seq(Region), NEW r \in Region
    PROVE  /\ FirstRegions(s) \in Seq(Region)
           /\ FirstRegions(Append(s, r)) =
                IF Len(FirstRegions(s)) < MAX_MEMORY_REGIONS
                THEN Append(FirstRegions(s), r) ELSE FirstRegions(s)
  <1>. DEFINE M == MAX_MEMORY_REGIONS  t == Append(s, r)
  <1>1. /\ M \in Nat /\ Len(s) \in Nat /\ t \in Seq(Region) /\ Len(t) = Len(s) + 1
        /\ t[Len(s) + 1] = r /\ \A k \in 1 .. Len(s) : t[k] = s[k]
    BY PmmAssumption
  <1>. HIDE DEF M, t
  <1>2. ASSUME NEW u \in Seq(Region), NEW n \in Nat, n <= Len(u)
        PROVE  /\ SubSeq(u, 1, n) \in Seq(Region) /\ Len(SubSeq(u, 1, n)) = n
               /\ \A k \in 1 .. n : SubSeq(u, 1, n)[k] = u[k]
    <2>1. \A k \in 1 .. n : u[k] \in Region
      BY <1>2
    <2>. QED  BY <1>2, <2>1, SubSeqProperties
  <1>3. CASE Len(s) < M
    <2>1. FirstRegions(s) = SubSeq(s, 1, Len(s))
      BY <1>3 DEF FirstRegions, M
    <2>2. FirstRegions(s) = s
      BY <1>1, <1>2, <2>1, SeqEqual
    <2>3. FirstRegions(t) = SubSeq(t, 1, Len(t))
      BY <1>1, <1>3 DEF FirstRegions, M
    <2>4. FirstRegions(t) = t
      BY <1>1, <1>2, <2>3, SeqEqual
    <2>. QED  BY <1>3, <2>2, <2>4 DEF t, M
  <1>4. CASE ~(Len(s) < M)
    <2>1. FirstRegions(s) = SubSeq(s, 1, M) /\ FirstRegions(t) = SubSeq(t, 1, M)
      BY <1>1, <1>4 DEF FirstRegions, M
    <2>2. M <= Len(s) /\ M <= Len(t)
      BY <1>1, <1>4
    <2>3. /\ FirstRegions(s) \in Seq(Region) /\ Len(FirstRegions(s)) = M
          /\ \A k \in 1 .. M : FirstRegions(s)[k] = s[k]
      BY <1>1, <1>2, <2>1, <2>2
    <2>4. /\ FirstRegions(t) \in Seq(Region) /\ Len(FirstRegions(t)) = M
          /\ \A k \in 1 .. M : FirstRegions(t)[k] = t[k]
      BY <1>1, <1>2, <2>1, <2>2
    <2>5. \A k \in 1 .. M : FirstRegions(t)[k] = FirstRegions(s)[k]
      BY <1>1, <2>2, <2>3, <2>4
    <2>6. FirstRegions(t) = FirstRegions(s)
      BY <2>3, <2>4, <2>5, SeqEqual
    <2>7. ~(Len(FirstRegions(s)) < M)
      BY <1>1, <2>3
    <2>. QED  BY <2>3, <2>6, <2>7 DEF t, M
  <1>. QED  BY <1>3, <1>4

\* The parser keeps up with the reference, entry by entry.
LEMMA ParseStep ==
    ASSUME TypeOK, IndexInv, ParseInv, [Next]_vars
    PROVE  ParseInv'
  <1>0. e820 \in Seq(Region) /\ Len(e820) \in Nat /\ idx \in Nat
    BY DEF TypeOK
  <1>1. CASE ParseEntry
    <2>. DEFINE entry == e820[idx + 1]  s == AvailableUpTo[idx]
                regions == usable_memory_region
    <2>1. /\ e820' = e820 /\ pc = "parse" /\ pc' = "parse" /\ idx' = idx + 1
          /\ idx + 1 \in 0 .. Len(e820) /\ idx \in 0 .. Len(e820)
          /\ idx + 1 \in 1 .. Len(e820) /\ idx + 1 # 0 /\ (idx + 1) - 1 = idx
          /\ regions' = IF entry.type = AVAILABLE /\ Len(regions) < MAX_MEMORY_REGIONS
                        THEN Append(regions, entry) ELSE regions
      BY <1>0, <1>1 DEF ParseEntry
    <2>2. s \in Seq(Region) /\ entry \in Region
      BY <1>0, <2>1, KeptType
    <2>3. regions = FirstRegions(s)
      BY <2>1 DEF ParseInv
    <2>4. AvailableUpTo[idx + 1] = IF entry.type = AVAILABLE THEN Append(s, entry) ELSE s
      BY <1>0, <2>1, KeptValue DEF KeptStep
    <2>5. FirstRegions(Append(s, entry)) =
            IF Len(FirstRegions(s)) < MAX_MEMORY_REGIONS
            THEN Append(FirstRegions(s), entry) ELSE FirstRegions(s)
      BY <2>2, FirstAppend
    <2>6. AvailableUpTo' = AvailableUpTo
      BY <2>1 DEF AvailableUpTo
    <2>. HIDE DEF s, entry
    <2>7. regions' = FirstRegions(AvailableUpTo[idx + 1])
      BY <2>1, <2>3, <2>4, <2>5
    <2>. QED  BY <2>1, <2>6, <2>7 DEF ParseInv, FirstRegions
  <1>2. CASE ~ParseEntry
    <2>1. /\ UNCHANGED <<e820, usable_memory_region>>
          /\ (pc = "parse" /\ pc' = "parse" => idx' = idx)
          /\ (pc = "parse" /\ pc' # "parse" => idx = Len(e820))
          /\ (pc # "parse" => pc' # "parse")
      BY <1>2 DEF Next, Boot, Client, Smashed, PmmInitStart, MaxRegion,
         FillBitmap, ScanRegion, PmmInitDone, PmmReserveMemoryRegion, PmmAllocFrame, AllocFrame,
         PmmAllocFail, PmmFreeFrame, PmmFreeRejected, Serving, memVars, vars
    <2>2. AvailableUpTo' = AvailableUpTo
      BY <2>1 DEF AvailableUpTo
    <2>. QED  BY <2>1, <2>2 DEF ParseInv, FirstRegions
  <1>. QED  BY <1>1, <1>2

-----------------------------------------------------------------------------
(* The bytes of a frame.                                                   *)

\* A number lies in the multiple of p that its quotient names.
LEMMA DivMultiple ==
    ASSUME NEW a \in Nat, NEW p \in Nat \ {0}
    PROVE  /\ a \div p \in Nat /\ (a \div p) * p \in Nat
           /\ (a \div p) * p <= a /\ a < (a \div p) * p + p
  OBVIOUS

\* Multiples keep the order of their factors.
LEMMA TimesMonotonic ==
    ASSUME NEW a \in Nat, NEW b \in Nat, NEW p \in Nat, a <= b
    PROVE  a * p \in Nat /\ b * p \in Nat /\ a * p <= b * p
  OBVIOUS

\* A multiple that is below another is at least p below it.
LEMMA TimesNext ==
    ASSUME NEW a \in Nat, NEW b \in Nat, NEW p \in Nat, a * p < b * p
    PROVE  (a + 1) * p <= b * p
  <1>1. CASE a < b
    BY <1>1, TimesMonotonic
  <1>2. CASE b <= a
    BY <1>2, TimesMonotonic
  <1>. QED  BY <1>1, <1>2

\* A number without remainder is a multiple.
LEMMA ModMultiple ==
    ASSUME NEW a \in Nat, NEW p \in Nat \ {0}, a % p = 0
    PROVE  a = (a \div p) * p
  OBVIOUS

\* pmm_init frees only frames that start before the region's end; the frame of
\* an aligned region is one with all its bytes in the region.
LEMMA RegionBytes ==
    ASSUME NEW r \in Region, r.base + r.length < WORD, NEW f \in RegionFrames(r)
    PROVE  /\ f \in Nat /\ f * PAGE_SIZE < r.base + r.length
           /\ r.base % PAGE_SIZE = 0 /\ r.length % PAGE_SIZE = 0 =>
                r.base <= f * PAGE_SIZE /\ (f + 1) * PAGE_SIZE <= r.base + r.length
  <1>. DEFINE p == PAGE_SIZE  b == r.base  l == r.length
  <1>1. p \in Nat \ {0} /\ WORD \in Nat \ {0} /\ b \in Nat /\ l \in Nat
        /\ b + l < WORD
    BY PmmAssumption DEF Region
  <1>2. RegionBase(r) = b /\ RegionEnd(r) = b + l
    <2>1. b % WORD = b /\ l % WORD = l /\ (b + l) % WORD = b + l
      BY <1>1
    <2>. QED  BY <2>1 DEF RegionBase, RegionEnd
  <1>3. 0 < l /\ f \in b \div p .. b \div p + (l - 1) \div p
    BY <1>1, <1>2 DEF RegionFrames, LastStep, FRAME_INDEX
  <1>. HIDE DEF p, b, l
  <1>4. /\ b \div p \in Nat /\ (b \div p) * p \in Nat /\ (b \div p) * p <= b
        /\ l - 1 \in Nat
    BY <1>1, <1>3, DivMultiple
  <1>5. /\ (l - 1) \div p \in Nat /\ ((l - 1) \div p) * p \in Nat
        /\ ((l - 1) \div p) * p <= l - 1
    BY <1>1, <1>4, DivMultiple
  <1>6. f \in Nat /\ b \div p <= f /\ f <= b \div p + (l - 1) \div p
    BY <1>3, <1>4, <1>5
  <1>7. f * p \in Nat /\ f * p < b + l
    <2>. DEFINE x == b \div p  y == (l - 1) \div p
    <2>1. x \in Nat /\ y \in Nat /\ x * p \in Nat /\ y * p \in Nat /\ x * p <= b
          /\ y * p <= l - 1 /\ f \in Nat /\ f <= x + y
      BY <1>4, <1>5, <1>6
    <2>. HIDE DEF x, y
    <2>2. f * p <= (x + y) * p /\ f * p \in Nat
      BY <1>1, <2>1, TimesMonotonic
    <2>3. (x + y) * p = x * p + y * p
      BY <1>1, <2>1
    <2>. QED  BY <1>1, <2>1, <2>2, <2>3
  <1>8. ASSUME b % p = 0, l % p = 0
        PROVE  b <= f * p /\ (f + 1) * p <= b + l
    <2>. DEFINE x == b \div p  z == l \div p
    <2>1. /\ b = x * p /\ l = z * p /\ x \in Nat /\ z \in Nat
      BY <1>1, <1>8, ModMultiple, DivMultiple
    <2>2. x <= f /\ f \in Nat
      BY <1>6
    <2>. HIDE DEF x, z
    <2>3. b <= f * p
      BY <1>1, <2>1, <2>2, TimesMonotonic
    <2>4. b + l = (x + z) * p /\ x + z \in Nat
      BY <1>1, <2>1
    <2>5. (f + 1) * p <= (x + z) * p
      BY <1>1, <1>7, <2>2, <2>4, TimesNext
    <2>. QED  BY <2>3, <2>4, <2>5
  <1>. QED  BY <1>6, <1>7, <1>8 DEF p, b, l

\* A frame that starts below LOW_MEMORY_END is one pmm_reserve_memory_region
\* puts aside first.
LEMMA LowFrames ==
    ASSUME NEW f \in Nat, f * PAGE_SIZE < LOW_MEMORY_END
    PROVE  f \in LowMemoryFrames
  <1>. DEFINE p == PAGE_SIZE  e == LOW_MEMORY_END + PAGE_SIZE - 1
  <1>1. p \in Nat \ {0} /\ WORD \in Nat \ {0} /\ LOW_MEMORY_END \in Nat /\ e \in Nat
        /\ e < WORD /\ f * p \in Nat /\ (f + 1) * p = f * p + p
    <2>1. p \in Nat \ {0} /\ WORD \in Nat \ {0} /\ LOW_MEMORY_END \in Nat
      BY PmmAssumption
    <2>2. LOW_MEMORY_END + p <= WORD
      BY LayoutAssumption
    <2>3. e \in Nat /\ e < WORD
      BY <2>1, <2>2
    <2>. HIDE DEF p, e
    <2>4. f * p \in Nat /\ (f + 1) * p = f * p + p
      BY <2>1
    <2>. QED  BY <2>1, <2>3, <2>4
  <1>2. e % WORD = e /\ 0 \div p = 0
    BY <1>1
  <1>3. (f + 1) * p <= e
    BY <1>1
  <1>4. LowMemoryFrames = 0 .. (e \div p) - 1
    BY <1>2 DEF LowMemoryFrames, FramesCovering, FRAME_INDEX
  <1>. HIDE DEF p, e
  <1>5. e \div p \in Nat /\ e < ((e \div p) + 1) * p
    BY <1>1, DivMultiple
  <1>6. f + 1 <= e \div p
    <2>1. CASE (e \div p) + 1 <= f + 1
      <3>1. ((e \div p) + 1) * p <= (f + 1) * p
        BY <1>1, <1>5, <2>1, TimesMonotonic
      <3>. QED  BY <1>1, <1>3, <1>5, <3>1
    <2>. QED  BY <1>5, <2>1
  <1>. QED  BY <1>4, <1>5, <1>6

-----------------------------------------------------------------------------
(* The theorems.                                                           *)

\* The invariant holds when kernel_main starts.
LEMMA InitIInv == Init => IInv
  <1>. SUFFICES ASSUME Init  PROVE IInv
    OBVIOUS
  <1>1. TypeOK
    <2>1. e820 \in Seq(Region) /\ frame_bitmap \subseteq Nat /\ 0 \in 0 .. WORD - 1
          /\ 0 \in 0 .. FRAME_INDEX(WORD - 1)
      BY PmmAssumption, FrameIndexBound DEF Init
    <2>. QED  BY <2>1 DEF Init, TypeOK, ReserveOrder
  <1>2. IndexInv /\ PhaseInv /\ MarkInv
    <2>1. Len(e820) \in Nat
      BY <1>1 DEF TypeOK
    <2>. QED  BY <2>1 DEF Init, IndexInv, PhaseInv, MarkInv, Serving
  <1>3. ScanInv /\ CountInv /\ SourceInv
    BY DEF Init, ScanInv, CountInv, SourceInv
  <1>4. ParseInv
    <2>1. e820 \in Seq(Region) /\ Len(e820) \in Nat /\ 0 \in 0 .. Len(e820) /\ pc = "parse"
          /\ idx = 0 /\ usable_memory_region = << >>
      BY <1>1 DEF Init, TypeOK
    <2>2. AvailableUpTo[0] = << >>
      BY <2>1, KeptValue DEF KeptStep
    <2>3. FirstRegions(<< >>) = << >>
      BY PmmAssumption DEF FirstRegions
    <2>. QED  BY <2>1, <2>2, <2>3 DEF ParseInv
  <1>. QED  BY <1>1, <1>2, <1>3, <1>4 DEF IInv

\* Every step preserves the invariant.
LEMMA StepIInv == IInv /\ [Next]_vars => IInv'
  <1>. SUFFICES ASSUME IInv, [Next]_vars  PROVE IInv'
    OBVIOUS
  <1>1. TypeOK /\ IndexInv /\ PhaseInv /\ MarkInv /\ ScanInv /\ CountInv /\ SourceInv
        /\ ParseInv
    BY DEF IInv
  <1>2. TypeOK' /\ IndexInv' /\ PhaseInv' /\ MarkInv' /\ ScanInv' /\ SourceInv'
        /\ ParseInv'
    BY <1>1, TypeStep, PhaseStep, MarkStep, ScanStep, SourceStep, ParseStep
  <1>3. CountInv'
    <2>1. CASE FirmwareOk'
      BY <1>1, <2>1, CountStep
    <2>2. CASE ~FirmwareOk'
      BY <2>2 DEF CountInv
    <2>. QED  BY <2>1, <2>2
  <1>. QED  BY <1>2, <1>3 DEF IInv

\* The inductive invariant holds throughout.
THEOREM IInvHolds == Spec => []IInv
  BY InitIInv, StepIInv, PTL DEF Spec

\* pmm.c keeps every variable in its domain; in particular the highest frame index
\* is one a 32-bit address can have, although regions are described in 64 bits.
THEOREM TypeCorrect == Spec => []TypeOK
  <1>1. IInv => TypeOK
    BY DEF IInv
  <1>. QED  BY <1>1, IInvHolds, PTL

\* parse_and_print_e820_map copies the first available entries that fit, in the
\* firmware's order, whatever the map.
THEOREM KeepsAvailable == Spec => []ParseKeepsAvailable
  <1>1. IInv => ParseKeepsAvailable
    BY DEF IInv, ParseInv, ParseKeepsAvailable
  <1>. QED  BY <1>1, IInvHolds, PTL

\* Whatever the firmware reports, pmm_alloc_frame never returns frame 0, a frame
\* that is in use, or one that the three reservations before it put aside.
THEOREM FramesPrivate == Spec => []OwnedIsPrivate
  <1>1. IInv => OwnedIsPrivate
    <2>. SUFFICES ASSUME IInv  PROVE OwnedIsPrivate
      OBVIOUS
    <2>1. ASSUME Serving, NEW i \in 1 .. ReservationsBeforeAlloc
          PROVE  owned \cap ReservedFrames(ReserveOrder[i]) = {}
      <3>1. i \in 1 .. reserved_types
        BY <2>1 DEF Serving, ReservationsBeforeAlloc, IInv, TypeOK
      <3>. QED  BY <3>1 DEF IInv, MarkInv
    <2>. QED  BY <2>1 DEF IInv, MarkInv, OwnedIsPrivate
  <1>. QED  BY <1>1, IInvHolds, PTL

\* With a sane firmware map, total_frames and used_frames of pmm.c are exactly the
\* numbers of usable frames and of usable frames in use, and no frame leaks.
THEOREM FramesAccounted == Spec => []AccountingExact
  <1>1. IInv => AccountingExact
    BY DEF IInv, CountInv, AccountingExact
  <1>. QED  BY <1>1, IInvHolds, PTL

\* With a sane firmware map, the loop of pmm_alloc_frame, bounded by a count of
\* frames, stays below max_frame_idx and returns only frames pmm_init freed.
THEOREM SearchBounded == Spec => []SearchStaysInBitmap
  <1>1. IInv => SearchStaysInBitmap
    BY TotalBound DEF IInv, CountInv, SearchStaysInBitmap
  <1>. QED  BY <1>1, IInvHolds, PTL

\* With a sane map whose entries lie below 4 GB and whose RAM past the low
\* megabyte is page aligned, pmm_alloc_frame hands out RAM and nothing else.
THEOREM OwnedRam == Spec => []OwnedIsRam
  <1>1. IInv => OwnedIsRam
    <2>. SUFFICES ASSUME IInv, pc = "serve", FirmwareOk, FirmwareAligned,
                         NEW f \in owned,
                         NEW b \in f * PAGE_SIZE .. (f + 1) * PAGE_SIZE - 1
                  PROVE  \E j \in 1 .. Len(e820) :
                           e820[j].type = AVAILABLE /\ b \in Bytes(e820[j])
      BY DEF OwnedIsRam
    <2>. DEFINE region(i) == usable_memory_region[i]
    <2>1. f \in usable /\ Serving
      BY DEF IInv, CountInv, PhaseInv
    <2>2. PICK i \in 1 .. Len(usable_memory_region) : f \in RegionFrames(region(i))
      BY <2>1 DEF IInv, ScanInv, IndexInv
    <2>3. PICK j \in 1 .. Len(e820) : region(i) = e820[j] /\ e820[j].type = AVAILABLE
      BY DEF IInv, SourceInv
    <2>. DEFINE r == e820[j]
    <2>4. r \in Region /\ r.base \in Nat /\ r.length \in Nat /\ r.base + r.length < WORD
          /\ f \in RegionFrames(r)
      <3>1. r \in Region
        BY DEF IInv, TypeOK
      <3>2. r.base \in Nat /\ r.length \in Nat
        BY <3>1 DEF Region
      <3>3. r.base + r.length < WORD
        BY DEF FirmwareAligned
      <3>. QED  BY <2>2, <2>3, <3>1, <3>2, <3>3
    <2>5. f \notin LowMemoryFrames
      <3>1. 1 \in 1 .. reserved_types
        BY <2>1 DEF Serving, ReservationsBeforeAlloc, IInv, TypeOK
      <3>2. ReservedFrames(ReserveOrder[1]) = LowMemoryFrames
        BY DEF ReservedFrames, ReserveOrder
      <3>. QED  BY <3>1, <3>2 DEF IInv, MarkInv
    <2>6. f \in Nat /\ f * PAGE_SIZE < r.base + r.length
      BY <2>4, RegionBytes
    <2>7. r.base + r.length > LOW_MEMORY_END
      <3>1. ~(f * PAGE_SIZE < LOW_MEMORY_END)
        BY <2>5, <2>6, LowFrames
      <3>2. f * PAGE_SIZE \in Nat /\ LOW_MEMORY_END \in Nat
        BY <2>6, PmmAssumption
      <3>. QED  BY <2>4, <2>6, <3>1, <3>2
    <2>8. r.base % PAGE_SIZE = 0 /\ r.length % PAGE_SIZE = 0
      BY <2>2, <2>3, <2>7 DEF FirmwareAligned, UsableIdx
    <2>9. r.base <= f * PAGE_SIZE /\ (f + 1) * PAGE_SIZE <= r.base + r.length
      BY <2>4, <2>8, RegionBytes
    <2>10. b \in Bytes(r)
      <3>1. f * PAGE_SIZE \in Nat /\ (f + 1) * PAGE_SIZE \in Nat
        <4>1. f \in Nat /\ f + 1 \in Nat /\ PAGE_SIZE \in Nat
          BY <2>6, PmmAssumption
        <4>. QED  BY ONLY <4>1, TimesMonotonic
      <3>. QED  BY <2>4, <2>9, <3>1 DEF Bytes
    <2>. QED  BY <2>3, <2>10
  <1>. QED  BY <1>1, IInvHolds, PTL

\* Once pmm_init is done, only pmm_free_frame of an owned frame clears a bit, and
\* only that one.
THEOREM OwnersFree == Spec => OnlyOwnersFree
  <1>. DEFINE A == pc = "serve" =>
                     /\ frame_bitmap \ frame_bitmap' = owned \ owned'
                     /\ Cardinality(owned \ owned') <= 1
                     /\ UNCHANGED memVars
  <1>1. IInv /\ [Next]_vars => [A]_vars
    <2>. SUFFICES ASSUME IInv, Next, pc = "serve"
                  PROVE  /\ frame_bitmap \ frame_bitmap' = owned \ owned'
                         /\ Cardinality(owned \ owned') <= 1
                         /\ UNCHANGED memVars
      OBVIOUS
    <2>1. CASE PmmReserveMemoryRegion
      BY <2>1, FS_EmptySet DEF PmmReserveMemoryRegion, SetFrameBitmap
    <2>2. CASE PmmAllocFrame
      BY <2>2, FS_EmptySet DEF PmmAllocFrame, AllocFrame, TakeFrame
    <2>3. ASSUME NEW addr \in FreeArgs, PmmFreeFrame(addr)
          PROVE  /\ frame_bitmap \ frame_bitmap' = owned \ owned'
                 /\ Cardinality(owned \ owned') <= 1
                 /\ UNCHANGED memVars
      <3>1. /\ owned \ owned' = {FRAME_INDEX(addr)}
            /\ frame_bitmap \ frame_bitmap' = {FRAME_INDEX(addr)}
        BY <2>3 DEF PmmFreeFrame, IInv, MarkInv
      <3>2. Cardinality({FRAME_INDEX(addr)}) = 1
        BY FS_Singleton
      <3>3. UNCHANGED memVars
        BY <2>3 DEF PmmFreeFrame
      <3>4. Cardinality(owned \ owned') <= 1
        BY <3>1, <3>2
      <3>. QED  BY <3>1, <3>3, <3>4
    <2>4. CASE UNCHANGED vars
      BY <2>4, FS_EmptySet DEF vars, memVars
    <2>. QED  BY <2>1, <2>2, <2>3, <2>4
              DEF Next, Boot, Client, Smashed, PmmAllocFail, PmmFreeRejected, ParseEntry,
                  PmmInitStart, MaxRegion, FillBitmap, ScanRegion, PmmInitDone
  <1>. QED  BY <1>1, IInvHolds, PTL DEF Spec, OnlyOwnersFree

\* pmm.c implements the abstract allocator for every firmware map: every step is
\* an allocation, a release, the opening of the pool or a stutter of it.
THEOREM PmmRefinesFrameAllocator == Spec => ImplementsFrameAllocator
  <1>. DEFINE Pool == IF Serving THEN FreeFrames ELSE {}
  <1>1. Init => FA!Init
    BY DEF Init, FA!Init, Serving
  <1>2. IInv /\ IInv' /\ [Next]_vars => [FA!Next]_FA!vars
    <2>. SUFFICES ASSUME IInv, IInv', [Next]_vars
                  PROVE  [FA!Next]_FA!vars
      OBVIOUS
    <2>. USE DEF FA!vars
    <2>1. CASE UNCHANGED vars
      BY <2>1 DEF vars, Serving, FreeFrames
    <2>2. CASE pc # "serve"
      <3>1. ~Serving /\ ~Serving' /\ owned' = owned
        BY <2>2 DEF IInv, PhaseInv, Serving, Next, Boot, Client, Smashed, ParseEntry,
             PmmInitStart, MaxRegion, FillBitmap, ScanRegion, PmmInitDone,
             PmmReserveMemoryRegion, PmmAllocFrame, AllocFrame, PmmAllocFail, PmmFreeFrame,
             PmmFreeRejected, vars, ReservationsBeforeAlloc
      <3>2. Serving' = Serving
        BY <3>1 DEF Serving
      <3>. QED  BY <3>1, <3>2
    <2>3. CASE PmmReserveMemoryRegion
      <3>1. CASE ~Serving /\ ~Serving'
        <4>1. Serving' = Serving /\ owned' = owned
          BY <2>3, <3>1 DEF PmmReserveMemoryRegion, Serving
        <4>. QED  BY <3>1, <4>1
      <3>2. CASE ~Serving /\ Serving'
        <4>1. 0 \notin FreeFrames'
          BY DEF FreeFrames
        <4>2. reserved' \subseteq frame_bitmap' /\ reserved_types' \in Nat /\ reserved_types' >= 3
          BY <3>2 DEF IInv, MarkInv, Serving, ReservationsBeforeAlloc, TypeOK
        <4>3. /\ LowMemoryFrames \subseteq reserved'
              /\ FramesCovering(kernel_start, kernel_end) \subseteq reserved'
          <5>1. \A i \in 1 .. 2 : ReservedFrames(ReserveOrder[i])' \subseteq reserved'
            BY <4>2 DEF IInv, MarkInv
          <5>2. ReservedFrames(ReserveOrder[1])' = LowMemoryFrames
            BY DEF ReservedFrames, ReserveOrder
          <5>3. ReservedFrames(ReserveOrder[2])' = FramesCovering(kernel_start, kernel_end)
            BY DEF ReservedFrames, ReserveOrder
          <5>. QED  BY <5>1, <5>2, <5>3
        <4>4. FreeFrames' \cap (LowMemoryFrames \cup FramesCovering(kernel_start, kernel_end)) = {}
          BY <4>2, <4>3 DEF FreeFrames
        <4>5. FA!Open
          BY <2>3, <3>2, <4>1, <4>4 DEF FA!Open, PmmReserveMemoryRegion
        <4>. QED  BY <4>5 DEF FA!Next
      <3>3. CASE Serving
        <4>1. reserved_types = 3 /\ reserved_types' = 4 /\ Serving'
          BY <2>3, <3>3 DEF PmmReserveMemoryRegion, Serving, ReservationsBeforeAlloc,
               ReserveOrder, IInv, TypeOK
        <4>2. ReservedFrames(ReserveOrder[1]) \subseteq frame_bitmap
          BY <4>1 DEF IInv, MarkInv
        <4>3. ReservedFrames(ReserveOrder[4]) \subseteq frame_bitmap
          BY <4>2, LayoutAssumption DEF ReservedFrames, ReserveOrder
        <4>4. frame_bitmap' = frame_bitmap /\ UNCHANGED <<total_frames, owned>>
          BY <2>3, <4>1, <4>3 DEF PmmReserveMemoryRegion, SetFrameBitmap, memVars
        <4>. QED  BY <3>3, <4>1, <4>4 DEF FreeFrames
      <3>. QED  BY <3>1, <3>2, <3>3
    <2>4. CASE PmmAllocFrame
      <3>1. PICK f \in FreeFrames : TakeFrame(f)
        BY <2>4 DEF PmmAllocFrame, AllocFrame
      <3>2. Serving /\ Serving' /\ total_frames' = total_frames
        BY <2>4 DEF PmmAllocFrame, AllocFrame, Serving, memVars
      <3>3. FreeFrames' = FreeFrames \ {f}
        BY <3>1, <3>2 DEF FreeFrames, TakeFrame
      <3>4. FA!Alloc(f)
        BY <3>1, <3>2, <3>3 DEF FA!Alloc, TakeFrame
      <3>. QED  BY <3>1, <3>2, <3>4 DEF FA!Next
    <2>5. ASSUME NEW addr \in FreeArgs, PmmFreeFrame(addr)
          PROVE  [FA!Next]_FA!vars
      <3>. DEFINE f == FRAME_INDEX(addr)
      <3>1. /\ Serving /\ Serving' /\ total_frames' = total_frames
            /\ f \in owned /\ f < total_frames
            /\ frame_bitmap' = frame_bitmap \ {f}
            /\ owned' = owned \ {f}
        BY <2>5 DEF PmmFreeFrame, Serving, memVars
      <3>. HIDE DEF f
      <3>2. f \in 1 .. total_frames - 1
        <4>1. f \in Nat /\ f # 0 /\ total_frames \in Nat
          BY <3>1 DEF IInv, MarkInv, TypeOK
        <4>. QED  BY <3>1, <4>1
      <3>3. FreeFrames' = FreeFrames \cup {f}
        BY <3>1, <3>2 DEF FreeFrames
      <3>4. FA!Free(f)
        BY <3>1, <3>3 DEF FA!Free
      <3>. QED  BY <3>1, <3>4 DEF FA!Next
    <2>. QED  BY <2>1, <2>2, <2>3, <2>4, <2>5
              DEF Next, Boot, Client, Smashed, PmmAllocFail, PmmFreeRejected,
                  ParseEntry, PmmInitStart, MaxRegion, FillBitmap, ScanRegion, PmmInitDone
  <1>. QED  BY <1>1, <1>2, IInvHolds, PTL DEF Spec, ImplementsFrameAllocator, FA!Spec

=============================================================================
