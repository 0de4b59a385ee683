-------------------------------- MODULE Pmm --------------------------------
(***************************************************************************)
(* The physical memory manager: the E820 parser of memory_map.c and the    *)
(* bitmap frame allocator of pmm.c, called in the order kernel_main calls  *)
(* them.  The firmware map, the stale contents of the memory the bitmap is *)
(* laid over and the requests of the allocator's clients are inputs.       *)
(*                                                                         *)
(* Addresses are bytes below WORD = 2^32 (uint32_t arithmetic wraps at     *)
(* WORD); firmware bases and lengths are uint64_t and may exceed it.  The  *)
(* bitmap is the set of frame indices whose bit is 1 ("used").             *)
(***************************************************************************)
EXTENDS Integers, Sequences, FiniteSets

CONSTANTS
    PAGE_SIZE,              \* bytes of a frame
    WORD,                   \* 2^32: one past the largest uint32_t
    MAX_MEMORY_REGIONS,     \* capacity of usable_memory_region[]
    E820Maps,               \* the firmware maps considered
    StaleBitmaps,           \* contents the bitmap's memory may have at boot
    FreeArgs,               \* addresses clients pass to pmm_free_frame
    LOW_MEMORY_END,         \* 0x100000
    kernel_start, kernel_end,
    BITMAP_ADDR,            \* 0x90000
    PAGE_DIR_START_ADDR, PAGE_TABLE_START_ADDR,
    TABLE_BYTES,            \* PAGE_ENTRIES * sizeof(uint32_t)
    BOOT_STACK_LOW,         \* lowest byte of the boot stack in use ...
    BOOT_STACK_TOP          \* ... and its top, 0x9FB00

\* E820_TYPE_AVAILABLE; every other type is treated alike.
AVAILABLE == 1

Region == [base : Nat, length : Nat, type : Nat]

ASSUME PmmAssumption ==
    /\ PAGE_SIZE \in Nat \ {0}
    /\ WORD \in Nat \ {0}
    /\ MAX_MEMORY_REGIONS \in Nat
    /\ E820Maps \subseteq Seq(Region)
    /\ StaleBitmaps \subseteq SUBSET Nat
    /\ FreeArgs \subseteq 0 .. WORD - 1
    /\ {LOW_MEMORY_END, kernel_start, kernel_end, BITMAP_ADDR, TABLE_BYTES,
        PAGE_DIR_START_ADDR, PAGE_TABLE_START_ADDR,
        BOOT_STACK_LOW, BOOT_STACK_TOP} \subseteq Nat

VARIABLES
    pc,                     \* where kernel_main is
    idx,                    \* index of the loop that is running
    e820,                   \* the map the boot loader left at 0x5000
    usable_memory_region,   \* its available entries, as parsed
    max_frame_idx, frame_bitmap, total_frames, used_frames,
    reserved_types,         \* number of ReserveOrder calls made so far
    usable,                 \* history: frames pmm_init marked free
    reserved,               \* history: frames pmm_reserve_memory_region marked
    owned                   \* history: frames handed out and not given back

memVars == <<usable_memory_region, max_frame_idx, total_frames, usable>>
pmmVars == <<frame_bitmap, used_frames, owned>>
vars == <<pc, idx, e820, usable_memory_region, max_frame_idx, frame_bitmap,
          total_frames, used_frames, reserved_types, usable, reserved, owned>>

-----------------------------------------------------------------------------
(* The address arithmetic of pmm.c.                                        *)

FRAME_INDEX(addr) == addr \div PAGE_SIZE

\* The uint64_t fields are assigned to uint32_t locals.
RegionBase(r) == r.base % WORD
MutantRegionEnd(r) == RegionBase(r) + (r.length % WORD)   \* 64-bit sum
RegionEnd(r)  == (RegionBase(r) + (r.length % WORD)) % WORD

\* Mutant: the loop runs while addr <= base + length.
MutantLastStep(r) == (RegionEnd(r) - RegionBase(r)) \div PAGE_SIZE

\* Frames visited by "for (addr = base; addr < base + length; addr += PAGE_SIZE)".
LastStep(r) == (RegionEnd(r) - RegionBase(r) - 1) \div PAGE_SIZE
RegionFrames(r) ==
    IF RegionBase(r) < RegionEnd(r)
    THEN FRAME_INDEX(RegionBase(r)) .. FRAME_INDEX(RegionBase(r)) + LastStep(r)
    ELSE {}

BitmapBytes == max_frame_idx \div 8 + 1

\* Mutant: the last, partial byte is not initialised.
MutantInitialisedBits == 0 .. 8 * (max_frame_idx \div 8) - 1

\* The bits that step 3 of pmm_init sets to 1.
InitialisedBits == 0 .. 8 * BitmapBytes - 1

\* Writing the bitmap overwrites the stack pmm_init runs on.
BitmapHitsBootStack ==
    /\ BITMAP_ADDR < BOOT_STACK_TOP
    /\ BOOT_STACK_LOW < BITMAP_ADDR + BitmapBytes

\* The frames of [start_address, end_address) rounded outwards.
FramesCovering(start_address, end_address) ==
    FRAME_INDEX(start_address) ..
        FRAME_INDEX((end_address + PAGE_SIZE - 1) % WORD) - 1

\* What each call of pmm_reserve_memory_region covers.
LowMemoryFrames == FramesCovering(0, LOW_MEMORY_END)
PageTableFrames ==
    FramesCovering(PAGE_DIR_START_ADDR, PAGE_DIR_START_ADDR + TABLE_BYTES)
      \cup FramesCovering(PAGE_TABLE_START_ADDR, PAGE_TABLE_START_ADDR + TABLE_BYTES)
ReservedFrames(type) ==
    CASE type = "INIT"   -> LowMemoryFrames
      [] type = "KERNEL" -> FramesCovering(kernel_start, kernel_end)
      [] type = "BITMAP" -> FramesCovering(BITMAP_ADDR, BITMAP_ADDR + BitmapBytes)
      [] type = "PAGE_TABLE" -> PageTableFrames

\* The order in which kernel_main reserves; allocations start after the third.
ReserveOrder == <<"INIT", "KERNEL", "BITMAP", "PAGE_TABLE">>
ReservationsBeforeAlloc == 3

\* The fixed addresses: the paging structures are in low memory, and the bitmap
\* of a full 4 GB reaches the boot stack, so that a region ending in the last
\* page, where the scan of pmm_init would wrap, never gets as far as the scan.
ASSUME LayoutAssumption ==
    /\ LOW_MEMORY_END + PAGE_SIZE <= WORD
    /\ PageTableFrames \subseteq LowMemoryFrames
    /\ BITMAP_ADDR < BOOT_STACK_TOP
    /\ BOOT_STACK_LOW < BITMAP_ADDR + FRAME_INDEX(WORD - 1) \div 8 + 1

-----------------------------------------------------------------------------
Init ==
    /\ pc = "parse" /\ idx = 0
    /\ e820 \in E820Maps
    /\ usable_memory_region = <<>>
    /\ max_frame_idx = 0
    /\ frame_bitmap \in StaleBitmaps
    /\ total_frames = 0 /\ used_frames = 0
    /\ reserved_types = 0
    /\ usable = {} /\ reserved = {} /\ owned = {}

\* Mutant: the capacity of usable_memory_region[] is not checked.
MutantParseEntry ==
    /\ pc = "parse" /\ idx < Len(e820)
    /\ usable_memory_region' =
         IF e820[idx + 1].type = AVAILABLE
         THEN Append(usable_memory_region, e820[idx + 1]) ELSE usable_memory_region
    /\ idx' = idx + 1
    /\ UNCHANGED <<pc, e820, max_frame_idx, frame_bitmap, total_frames,
                   used_frames, reserved_types, usable, reserved, owned>>

\* One iteration of parse_and_print_e820_map.
ParseEntry ==
    /\ pc = "parse" /\ idx < Len(e820)
    /\ LET entry == e820[idx + 1] IN
         usable_memory_region' =
           IF entry.type = AVAILABLE /\ Len(usable_memory_region) < MAX_MEMORY_REGIONS
           THEN Append(usable_memory_region, entry)
           ELSE usable_memory_region
    /\ idx' = idx + 1
    /\ UNCHANGED <<pc, e820, max_frame_idx, frame_bitmap, total_frames,
                   used_frames, reserved_types, usable, reserved, owned>>

\* parse_and_print_e820_map returns and pmm_init starts.
PmmInitStart ==
    /\ pc = "parse" /\ idx = Len(e820)
    /\ pc' = "max" /\ idx' = 0
    /\ total_frames' = 0 /\ used_frames' = 0
    /\ UNCHANGED <<e820, usable_memory_region, max_frame_idx, frame_bitmap,
                   reserved_types, usable, reserved, owned>>

\* Mutant: the loop index is not advanced.
MutantMaxRegion ==
    /\ pc = "max" /\ idx < Len(usable_memory_region)
    /\ max_frame_idx' = FRAME_INDEX(RegionEnd(usable_memory_region[idx + 1]))
    /\ UNCHANGED <<pc, idx, e820, usable_memory_region, frame_bitmap, total_frames,
                   used_frames, reserved_types, usable, reserved, owned>>

\* pmm_init, one iteration of step 1.
MaxRegion ==
    /\ pc = "max" /\ idx < Len(usable_memory_region)
    /\ LET current_frame_idx == FRAME_INDEX(RegionEnd(usable_memory_region[idx + 1]))
       IN  max_frame_idx' = IF current_frame_idx > max_frame_idx
                            THEN current_frame_idx ELSE max_frame_idx
    /\ idx' = idx + 1
    /\ UNCHANGED <<pc, e820, usable_memory_region, frame_bitmap, total_frames,
                   used_frames, reserved_types, usable, reserved, owned>>

\* pmm_init, steps 2 and 3.  If the bitmap reaches the stack in use, its
\* return addresses are gone and nothing is known of what runs next.
FillBitmap ==
    /\ pc = "max" /\ idx = Len(usable_memory_region)
    /\ frame_bitmap' = frame_bitmap \cup InitialisedBits
    /\ pc' = IF BitmapHitsBootStack THEN "smashed" ELSE "scan"
    /\ idx' = 0
    /\ UNCHANGED <<e820, memVars, used_frames, reserved_types, reserved, owned>>

\* pmm_init, the inner loop of step 4 for one region.
ScanRegion ==
    /\ pc = "scan" /\ idx < Len(usable_memory_region)
    /\ LET freed == RegionFrames(usable_memory_region[idx + 1])
                    \cap (0 .. max_frame_idx - 1)
       IN  /\ frame_bitmap' = frame_bitmap \ freed
           /\ total_frames' = total_frames + Cardinality(freed)
           /\ usable' = usable \cup freed
    /\ idx' = idx + 1
    /\ UNCHANGED <<pc, e820, usable_memory_region, max_frame_idx, used_frames,
                   reserved_types, reserved, owned>>

\* pmm_init returns.
PmmInitDone ==
    /\ pc = "scan" /\ idx = Len(usable_memory_region)
    /\ pc' = "serve" /\ used_frames' = 0
    /\ UNCHANGED <<idx, e820, memVars, frame_bitmap, reserved_types, reserved, owned>>

\* Mutant: every frame of the range is counted, marked before or not.
MutantCountAll(frames) ==
    /\ frame_bitmap' = frame_bitmap \cup frames
    /\ used_frames' = (used_frames + Cardinality(frames)) % WORD

\* Mutant: BITMAP_SET toggles the bit.
MutantToggle(frames) ==
    /\ frame_bitmap' = (frame_bitmap \ frames) \cup (frames \ frame_bitmap)
    /\ used_frames' = used_frames

\* pmm_set_frame_bitmap over a set of frames.
SetFrameBitmap(frames) ==
    /\ frame_bitmap' = frame_bitmap \cup frames
    /\ used_frames' = (used_frames + Cardinality(frames \ frame_bitmap)) % WORD

\* The next pmm_reserve_memory_region call of kernel_main.
PmmReserveMemoryRegion ==
    /\ pc = "serve" /\ reserved_types < Len(ReserveOrder)
    /\ LET frames == ReservedFrames(ReserveOrder[reserved_types + 1]) IN
         /\ SetFrameBitmap(frames)
         /\ reserved' = reserved \cup frames
    /\ reserved_types' = reserved_types + 1
    /\ UNCHANGED <<pc, idx, e820, memVars, owned>>

\* Frames pmm_alloc_frame would accept: it looks at indices 1 .. total_frames-1.
FreeFrames == {f \in 1 .. total_frames - 1 : f \notin frame_bitmap}

\* Mutant: the bit of the returned frame is not set.
MutantTakeFrame(f) ==
    /\ f \in FreeFrames
    /\ \A g \in FreeFrames : f <= g
    /\ used_frames' = (used_frames + 1) % WORD
    /\ owned' = owned \cup {f}
    /\ UNCHANGED frame_bitmap

\* pmm_alloc_frame finds the lowest clear bit and returns that frame.
TakeFrame(f) ==
    /\ f \in FreeFrames
    /\ \A g \in FreeFrames : f <= g
    /\ frame_bitmap' = frame_bitmap \cup {f}
    /\ used_frames' = (used_frames + 1) % WORD
    /\ owned' = owned \cup {f}

Serving == pc = "serve" /\ reserved_types >= ReservationsBeforeAlloc

AllocFrame(f) ==
    /\ Serving
    /\ TakeFrame(f)
    /\ UNCHANGED <<pc, idx, e820, memVars, reserved_types, reserved>>

PmmAllocFrame == \E f \in FreeFrames : AllocFrame(f)

\* pmm_alloc_frame finds no clear bit and returns 0.
PmmAllocFail ==
    /\ Serving /\ FreeFrames = {}
    /\ UNCHANGED vars

\* Mutant: the whole bitmap byte is cleared.
MutantFreeByte(addr) ==
    LET frame_idx == FRAME_INDEX(addr) IN
    /\ Serving
    /\ frame_idx < total_frames /\ frame_idx \in owned
    /\ frame_bitmap' = {f \in frame_bitmap : f \div 8 # frame_idx \div 8}
    /\ used_frames' = (used_frames - 1) % WORD
    /\ owned' = owned \ {frame_idx}
    /\ UNCHANGED <<pc, idx, e820, memVars, reserved_types, reserved>>

\* Mutant: the counter is decremented and the bit forgotten.
MutantFreeNoClear(addr) ==
    /\ Serving
    /\ FRAME_INDEX(addr) < total_frames /\ FRAME_INDEX(addr) \in owned
    /\ used_frames' = (used_frames - 1) % WORD
    /\ owned' = owned \ {FRAME_INDEX(addr)}
    /\ UNCHANGED <<pc, idx, e820, memVars, frame_bitmap, reserved_types, reserved>>

\* pmm_free_frame.  The code trusts its caller for indices below total_frames;
\* a caller that keeps to the interface passes a frame it was given.
PmmFreeFrame(addr) ==
    LET frame_idx == FRAME_INDEX(addr) IN
    /\ Serving
    /\ frame_idx < total_frames /\ frame_idx \in owned
    /\ frame_bitmap' = frame_bitmap \ {frame_idx}
    /\ used_frames' = (used_frames - 1) % WORD
    /\ owned' = owned \ {frame_idx}
    /\ UNCHANGED <<pc, idx, e820, memVars, reserved_types, reserved>>

\* pmm_free_frame's else branch: a message and nothing else.
PmmFreeRejected(addr) ==
    /\ Serving
    /\ FRAME_INDEX(addr) >= total_frames
    /\ UNCHANGED vars

\* Nothing more is said of a kernel whose stack is gone.
Smashed == pc = "smashed" /\ UNCHANGED vars

Boot ==
    \/ ParseEntry \/ PmmInitStart
    \/ MaxRegion \/ FillBitmap
    \/ ScanRegion \/ PmmInitDone
    \/ PmmReserveMemoryRegion

Client ==
    \/ PmmAllocFrame \/ PmmAllocFail
    \/ \E addr \in FreeArgs : PmmFreeFrame(addr) \/ PmmFreeRejected(addr)

Next == Boot \/ Client \/ Smashed

\* kernel_main is the only thread: it keeps executing.
Spec == Init /\ [][Next]_vars /\ WF_vars(Boot)

-----------------------------------------------------------------------------
(* What a firmware map has to be like for the allocator to be correct.     *)

UsableIdx == 1 .. Len(usable_memory_region)

\* No frame is offered twice, and there is RAM past everything the kernel
\* reserves, so that every reserved frame has a bit.
FirmwareOk ==
    /\ \A i, j \in UsableIdx : i # j =>
          RegionFrames(usable_memory_region[i])
            \cap RegionFrames(usable_memory_region[j]) = {}
    /\ \A i \in 1 .. Len(ReserveOrder) :
          ReservedFrames(ReserveOrder[i]) \subseteq 0 .. max_frame_idx - 1

\* All entries lie below 2^32 and do not overlap, and RAM that reaches past the
\* low megabyte starts and ends on page boundaries.
Bytes(r) == r.base .. r.base + r.length - 1
FirmwareAligned ==
    /\ \A i \in 1 .. Len(e820) : e820[i].base + e820[i].length < WORD
    /\ \A i, j \in 1 .. Len(e820) : i # j => Bytes(e820[i]) \cap Bytes(e820[j]) = {}
    /\ \A i \in UsableIdx : LET r == usable_memory_region[i] IN
          r.base + r.length > LOW_MEMORY_END =>
            r.base % PAGE_SIZE = 0 /\ r.length % PAGE_SIZE = 0

-----------------------------------------------------------------------------
(* Properties.                                                             *)

\* Every variable stays in its domain.
TypeOK ==
    /\ pc \in {"parse", "max", "scan", "serve", "smashed"}
    /\ idx \in Nat
    /\ e820 \in Seq(Region)
    /\ usable_memory_region \in Seq(Region)
    /\ max_frame_idx \in 0 .. FRAME_INDEX(WORD - 1)
    /\ frame_bitmap \subseteq Nat
    /\ total_frames \in Nat
    /\ used_frames \in 0 .. WORD - 1
    /\ reserved_types \in 0 .. Len(ReserveOrder)
    /\ usable \subseteq Nat /\ reserved \subseteq Nat /\ owned \subseteq Nat

\* The available entries among the first k of the firmware's map, in its order.
AvailableUpTo ==
    LET kept[k \in 0 .. Len(e820)] ==
          IF k = 0 THEN << >>
          ELSE IF e820[k].type = AVAILABLE THEN Append(kept[k - 1], e820[k]) ELSE kept[k - 1]
    IN  kept
FirstRegions(s) ==
    SubSeq(s, 1, IF Len(s) < MAX_MEMORY_REGIONS THEN Len(s) ELSE MAX_MEMORY_REGIONS)

\* parse_and_print_e820_map keeps the first MAX_MEMORY_REGIONS available
\* entries, in firmware order, and no other entry.
ParseKeepsAvailable ==
    pc # "parse" => usable_memory_region = FirstRegions(AvailableUpTo[Len(e820)])

\* Whatever the firmware says, a frame in a client's hands is marked, is never
\* frame 0 and is never a frame that pmm_reserve_memory_region put aside before
\* allocation started; and reservations are never undone.
OwnedIsPrivate ==
    /\ owned \cup reserved \subseteq frame_bitmap
    /\ 0 \notin owned
    /\ Serving => \A i \in 1 .. ReservationsBeforeAlloc :
                    owned \cap ReservedFrames(ReserveOrder[i]) = {}

\* With a sane map no frame is lost and the counters are exact: the usable
\* frames marked in the bitmap are the owned and the reserved ones, used_frames
\* counts them and total_frames counts the usable ones.
AccountingExact ==
    pc = "serve" /\ FirmwareOk =>
      /\ frame_bitmap \cap usable = owned \cup (reserved \cap usable)
      /\ used_frames = Cardinality(frame_bitmap \cap usable)
      /\ total_frames = Cardinality(usable)

\* With a sane map pmm_alloc_frame, whose index bound is a count of frames,
\* never looks at a bit that pmm_init did not initialise, and so never hands
\* out a frame that only stale memory says is free.
SearchStaysInBitmap ==
    pc = "serve" /\ FirmwareOk =>
      /\ total_frames <= max_frame_idx
      /\ owned \subseteq usable

\* With aligned entries below 4 GB, every byte of a frame handed to a client
\* is RAM that the firmware reports as available.
OwnedIsRam ==
    pc = "serve" /\ FirmwareOk /\ FirmwareAligned =>
      \A f \in owned : \A b \in f * PAGE_SIZE .. (f + 1) * PAGE_SIZE - 1 :
        \E i \in 1 .. Len(e820) : e820[i].type = AVAILABLE /\ b \in Bytes(e820[i])

\* After boot a bit is cleared only by its owner's pmm_free_frame, one at a
\* time, and the frames known to the allocator never change.
OnlyOwnersFree ==
    [][pc = "serve" =>
         /\ frame_bitmap \ frame_bitmap' = owned \ owned'
         /\ Cardinality(owned \ owned') <= 1
         /\ UNCHANGED memVars]_vars

\* Parsing and initialisation terminate, and all four reservations are made,
\* unless the bitmap reaches the boot stack.
BootCompletes ==
    <>(pc = "smashed" \/ (pc = "serve" /\ reserved_types = Len(ReserveOrder)))

\* The bitmap, its count-bounded first-fit search and the two free branches
\* implement the abstract allocator, for any firmware map.
FA == INSTANCE FrameAllocator
      WITH Protected <- LowMemoryFrames \cup FramesCovering(kernel_start, kernel_end),
           open <- Serving,
           pool <- IF Serving THEN FreeFrames ELSE {}
ImplementsFrameAllocator == FA!Spec

(* Stated by the code and its docs, refuted by runs.                       *)

\* pmm_alloc_frame says "No free frames available!": then every frame
\* pmm_init found usable (frame 0 aside) is in use.
ExhaustionIsReal ==
    Serving /\ FreeFrames = {} => usable \ {0} \subseteq frame_bitmap

\* "Marks reserved regions as unavailable": no byte of a frame handed to a
\* client belongs to an entry the firmware reports as anything but available.
NoReservedMemoryOwned ==
    \A f \in owned : \A i \in 1 .. Len(e820) :
      e820[i].type # AVAILABLE =>
        Bytes(e820[i]) \cap (f * PAGE_SIZE .. (f + 1) * PAGE_SIZE - 1) = {}

\* "Allocate address for bitmap array in a safe memory region": the bitmap
\* shares no byte with the kernel image, the paging structures or the boot
\* stack in use.
BitmapInSafeRegion ==
    pc \notin {"parse", "max"} =>
      (BITMAP_ADDR .. BITMAP_ADDR + BitmapBytes - 1)
        \cap ((kernel_start .. kernel_end - 1)
              \cup (PAGE_DIR_START_ADDR .. PAGE_DIR_START_ADDR + TABLE_BYTES - 1)
              \cup (PAGE_TABLE_START_ADDR .. PAGE_TABLE_START_ADDR + TABLE_BYTES - 1)
              \cup (BOOT_STACK_LOW .. BOOT_STACK_TOP - 1)) = {}

=============================================================================
