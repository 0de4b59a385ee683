------------------------------- MODULE MCPmm -------------------------------
(***************************************************************************)
(* Pmm on a scaled machine: 16-byte frames in a 4096-byte address space    *)
(* (256 frames).  Low memory is frames 0-5: the kernel in frame 1, the     *)
(* page directory and table in 2 and 3, the bitmap in 4, where the boot    *)
(* stack also ends, and the hole for VGA and BIOS in 5.                    *)
(***************************************************************************)
EXTENDS Pmm

Entry(base, length, type) == [base |-> base, length |-> length, type |-> type]
RESERVED == 2

LowRam  == Entry(0, 76, AVAILABLE)
LowRes  == Entry(76, 4, RESERVED)
BiosRom == Entry(80, 16, RESERVED)

\* The map an emulator reports: low memory and one region above it.
EmulatorMap == <<LowRam, LowRes, BiosRom, Entry(96, 64, AVAILABLE),
                 Entry(160, 16, RESERVED)>>

\* A hole in RAM, and one region more than usable_memory_region[] holds.
HoleMap == <<LowRam, LowRes, Entry(96, 32, AVAILABLE), Entry(128, 16, RESERVED),
             Entry(144, 32, AVAILABLE), Entry(192, 64, AVAILABLE)>>

\* High RAM reported first.
UnsortedMap == <<Entry(128, 48, AVAILABLE), Entry(96, 16, AVAILABLE), BiosRom, LowRam>>

\* The highest region ends in the middle of a frame.
RaggedTopMap == <<LowRam, LowRes, Entry(96, 56, AVAILABLE), Entry(152, 24, RESERVED)>>

\* Less memory than the kernel reserves.
TinyMap == <<Entry(0, 40, AVAILABLE)>>

\* The same RAM reported twice: more frames are counted than have bits.
OverlapMap == <<LowRam, Entry(96, 112, AVAILABLE), Entry(96, 112, AVAILABLE)>>

\* A region in the middle that starts and ends inside frames.
UnalignedMap == <<LowRam, Entry(96, 24, AVAILABLE), Entry(120, 24, RESERVED),
                  Entry(144, 64, AVAILABLE)>>

\* A region that begins in low memory and ends in the middle of a frame above it.
StraddlingMap == <<LowRam, Entry(88, 36, AVAILABLE), Entry(128, 32, AVAILABLE)>>

\* RAM above 4 GB; cut to 32 bits it lies over reserved memory.
HighMap == <<LowRam, Entry(96, 32, AVAILABLE), Entry(128, 48, RESERVED),
             Entry(4096 + 144, 32, AVAILABLE)>>

\* A region that crosses 4 GB: in 32 bits it ends before it starts.
CrossingMap == <<LowRam, Entry(96, 32, AVAILABLE), Entry(3840, 512, AVAILABLE)>>

\* More than 80 frames: 2 GB and more on the real machine.
BigMap == <<LowRam, Entry(96, 1280, AVAILABLE)>>

SaneMaps == {EmulatorMap, HoleMap, UnsortedMap, RaggedTopMap}
AllMaps  == SaneMaps \cup {TinyMap, OverlapMap, UnalignedMap, StraddlingMap, HighMap,
                          CrossingMap, BigMap}
Emulator  == {EmulatorMap}
Unaligned == {UnalignedMap}
Big       == {BigMap}

Stale == {{}, 0 .. 255, {f \in 0 .. 255 : f % 3 = 0}}

\* Addresses inside every frame up to 12, and one no frame count reaches.
Args == {16 * f + 3 : f \in 0 .. 12} \cup {4095}

=============================================================================
