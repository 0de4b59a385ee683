----------------------------- MODULE BootLoader -----------------------------
(***************************************************************************)
(* Both stages of the boot loader, up to the jump to the kernel, over any  *)
(* number of warm resets.  A reset keeps memory: what the previous kernel  *)
(* left in its statics and in the E820 buffer is there when the next boot  *)
(* starts.  The BIOS is external: a disk service that may fail and a       *)
(* memory map service with its two ways of ending a list.                  *)
(*                                                                         *)
(* Memory is the range from kernel_start to kernel_end in sectors.  The    *)
(* disk image is made by dd: the kernel from LBA 9 on, zeros after it.     *)
(***************************************************************************)
EXTENDS Integers, Sequences

CONSTANTS
    LOAD_SECTORS,       \* sectors LoadKernel reads, 0x30
    IMAGE_SECTORS,      \* sectors of kernel.bin, which has no .bss
    KERNEL_SECTORS,     \* sectors from kernel_start to kernel_end
    ZeroStatics,        \* sectors with statics the kernel reads before it writes
    MapSlots,           \* slots of the buffer at 0x5000
    FirmwareMaps        \* lists of memory map entries

Sectors == 0 .. KERNEL_SECTORS - 1
BssSectors == IMAGE_SECTORS .. KERNEL_SECTORS - 1
Endings == {"last", "fails"}

\* The layout of the build: all statics that are not set before they are used
\* (usable_memory_region_count, max_frame_idx, current_panik_mode, ...) lie in
\* the part of .bss that the sectors of the loader reach.
ASSUME BootAssumption ==
    /\ IMAGE_SECTORS \in Nat /\ IMAGE_SECTORS <= LOAD_SECTORS
    /\ LOAD_SECTORS \in Nat /\ KERNEL_SECTORS \in Nat /\ MapSlots \in Nat
    /\ ZeroStatics \subseteq IMAGE_SECTORS .. LOAD_SECTORS - 1
    /\ ZeroStatics \subseteq BssSectors
    /\ FirmwareMaps \subseteq Seq(STRING)
    /\ \A m \in FirmwareMaps : Len(m) <= MapSlots

VARIABLES
    pc,
    dl,                 \* drive the BIOS booted from
    memory,             \* sector -> "image", "zero", "foreign" or "dirty"
    firmware,           \* what int 0x15 reports in this boot, and how it ends
    ebx,                \* continuation value: entries reported, 0 at both ends
    di,                 \* slots filled
    e820_map,           \* the buffer at 0x5000
    memmap_count,       \* the count in stage 2's image
    e820_count          \* the count handed over at 0x2004

biosVars == <<dl, firmware>>
mapVars == <<ebx, di, e820_map, memmap_count, e820_count>>
vars == <<pc, memory, biosVars, mapVars>>

-----------------------------------------------------------------------------
\* The BIOS starts stage 1 from some drive; 0x80 is the first hard disk.
Bios ==
    /\ dl' \in {"0x80", "other"}
    /\ firmware' \in [map : FirmwareMaps, ending : Endings]

\* Power on: memory holds zeros or garbage.
Init ==
    /\ pc = "stage1"
    /\ dl \in {"0x80", "other"} /\ firmware \in [map : FirmwareMaps, ending : Endings]
    /\ memory \in {[s \in Sectors |-> "zero"], [s \in Sectors |-> "dirty"]}
    /\ ebx = 0 /\ di = 0 /\ memmap_count = 0 /\ e820_count = 0
    /\ e820_map = [slot \in 1 .. MapSlots |-> "stale"]

\* jc ReadError and jc/jne NotSupported: a message, then hlt for ever.
Hang == pc' = "hang" /\ UNCHANGED <<memory, biosVars, mapVars>>

\* Stage 1: stage 2 is read from the boot drive, its variables with it.
LoadStage2 ==
    /\ pc = "stage1"
    /\ pc' = "stage2" /\ memmap_count' = 0
    /\ UNCHANGED <<memory, biosVars, ebx, di, e820_map, e820_count>>

LoadStage2Fails == pc = "stage1" /\ Hang

\* Stage 2: int 0x13, ah = 0x41.
CheckExtensions ==
    /\ pc = "stage2"
    /\ pc' = "load"
    /\ UNCHANGED <<memory, biosVars, mapVars>>

NotSupported == pc = "stage2" /\ Hang

\* Mutant: only the sectors of kernel.bin are read.
MutantKernelOnDisk(s) ==
    IF dl # "0x80" THEN "foreign" ELSE IF s < IMAGE_SECTORS THEN "image" ELSE memory[s]

\* Stage 2 always reads drive 0x80; its own disk is there only if the BIOS
\* booted from it.
KernelOnDisk(s) ==
    IF dl # "0x80" THEN "foreign" ELSE IF s < IMAGE_SECTORS THEN "image" ELSE "zero"

\* LoadKernel, and the reset of the registers and the count before the loop.
LoadKernel ==
    /\ pc = "load"
    /\ memory' = [s \in Sectors |-> IF s < LOAD_SECTORS THEN KernelOnDisk(s) ELSE memory[s]]
    /\ ebx' = 0 /\ di' = 0 /\ memmap_count' = 0
    /\ pc' = "e820"
    /\ UNCHANGED <<biosVars, e820_map, e820_count>>

LoadKernelFails == pc = "load" /\ Hang

\* int 0x15 reports entry ebx + 1.  The last entry comes with ebx = 0, or with
\* another value, and then the next call fails.
Reported == ebx + 1 <= Len(firmware.map)
Continuation ==
    IF ebx + 1 = Len(firmware.map) /\ firmware.ending = "last" THEN 0 ELSE ebx + 1

\* Mutant: the loop goes on when ebx is zero.
MutantE820Entry ==
    /\ pc = "e820" /\ Reported
    /\ e820_map' = [e820_map EXCEPT ![di + 1] = firmware.map[ebx + 1]]
    /\ di' = di + 1 /\ memmap_count' = memmap_count + 1
    /\ ebx' = Continuation
    /\ pc' = "e820"
    /\ UNCHANGED <<memory, biosVars, e820_count>>

E820Entry ==
    /\ pc = "e820" /\ Reported
    /\ e820_map' = [e820_map EXCEPT ![di + 1] = firmware.map[ebx + 1]]
    /\ di' = di + 1 /\ memmap_count' = memmap_count + 1
    /\ ebx' = Continuation
    /\ pc' = IF Continuation = 0 THEN "e820_done" ELSE "e820"
    /\ UNCHANGED <<memory, biosVars, e820_count>>

\* Mutant: the failed call is counted too.
MutantE820Fails ==
    /\ pc = "e820" /\ ~Reported
    /\ memmap_count' = memmap_count + 1
    /\ pc' = "e820_done"
    /\ UNCHANGED <<memory, biosVars, ebx, di, e820_map, e820_count>>

\* Mutant: a failed call is tried again.
MutantE820Retry == pc = "e820" /\ ~Reported /\ UNCHANGED vars

\* jc or a wrong signature: no entry, the list is complete.
E820Fails ==
    /\ pc = "e820" /\ ~Reported
    /\ pc' = "e820_done"
    /\ UNCHANGED <<memory, biosVars, mapVars>>

E820Done ==
    /\ pc = "e820_done"
    /\ e820_count' = memmap_count
    /\ pc' = "switch"
    /\ UNCHANGED <<memory, biosVars, ebx, di, e820_map, memmap_count>>

\* Text mode, cli, lgdt, an empty IDT, CR0.PE, flat segments, jmp 0x10000.
EnterKernel ==
    /\ pc = "switch"
    /\ pc' = "entry"
    /\ UNCHANGED <<memory, biosVars, mapVars>>

\* The kernel runs and writes its statics.
KernelRuns ==
    /\ pc \in {"entry", "kernel"}
    /\ \E written \in SUBSET BssSectors :
         memory' = [s \in Sectors |-> IF s \in written THEN "dirty" ELSE memory[s]]
    /\ pc' = "kernel"
    /\ UNCHANGED <<biosVars, mapVars>>

\* A triple fault or the reset button, at any moment: memory stays.
WarmReset ==
    /\ pc' = "stage1"
    /\ Bios
    /\ UNCHANGED <<memory, mapVars>>

\* hlt; jmp End
Halted == pc = "hang" /\ UNCHANGED vars

Loader ==
    \/ LoadStage2 \/ LoadStage2Fails \/ CheckExtensions \/ NotSupported
    \/ LoadKernel \/ LoadKernelFails
    \/ E820Entry \/ E820Fails \/ E820Done \/ EnterKernel

Next == Loader \/ KernelRuns \/ WarmReset \/ Halted

\* The loader runs on; resets and the kernel's writes are not fair.
Spec == Init /\ [][Next]_vars /\ WF_vars(Loader)

-----------------------------------------------------------------------------
\* Every variable stays in its domain, and no entry is written past the
\* buffer.
BootTypeOK ==
    /\ pc \in {"stage1", "stage2", "load", "e820", "e820_done", "switch", "entry",
               "kernel", "hang"}
    /\ memory \in [Sectors -> {"image", "zero", "foreign", "dirty"}]
    /\ ebx \in 0 .. MapSlots /\ di \in 0 .. MapSlots
    /\ DOMAIN e820_map = 1 .. MapSlots
    /\ memmap_count \in 0 .. MapSlots /\ e820_count \in 0 .. MapSlots

\* Booted from the first hard disk, the kernel always starts as if for the
\* first time: its image is fresh, and every static that relies on zero is
\* zero, whatever the previous kernel and its crash left there.  Nobody
\* clears .bss; the zero sectors behind kernel.bin do.
KernelStartsClean ==
    pc = "entry" /\ dl = "0x80" =>
      /\ \A s \in Sectors : s < IMAGE_SECTORS => memory[s] = "image"
      /\ \A s \in ZeroStatics : memory[s] = "zero"

\* The kernel is handed exactly the firmware's list of this boot, in order,
\* however the list ends, and no entry left over from an earlier boot.
MapHandedOver ==
    pc = "entry" =>
      /\ e820_count = Len(firmware.map)
      /\ \A k \in 1 .. e820_count : e820_map[k] = firmware.map[k]

\* Unless it is reset for ever, the machine ends in the kernel or in a hang:
\* the E820 loop ends with every firmware.
LoaderEnds ==
    <>[][~WarmReset]_vars => <>[](pc \in {"entry", "kernel", "hang"})

=============================================================================
