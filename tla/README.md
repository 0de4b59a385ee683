# Kernel-V in TLA+

A verification project for Kernel-V, a small 32-bit x86 kernel: TLA+ modules
translated from its C and assembly sources, TLC configurations that check them
on small machines, and TLAPS proofs of the results that should hold on every
machine. Paths below are relative to the repository (`src/`).

## 1. The system

Kernel-V boots from disk, reads the firmware's memory map, builds a bitmap
allocator for physical frames, turns on paging, moves to a stack in high
memory with a guard page below it, and then serves page faults on its heap. It
prints through a ring log and the VGA text screen. There is one thread of
control; interrupts are never enabled (`kernel/main/kernel.c:103`), so the only
thing that ever happens "in between" is an exception or a reset.

| Part | State | Operations | Talks to |
|---|---|---|---|
| Boot loader (`bootloader/`) | disk packet, E820 buffer at 0x5000 | load kernel, collect map, protected mode | leaves the map for the parser |
| Memory map parser (`memory/memory_map.c`) | `usable_memory_region[]`, its count | `parse_and_print_e820_map` | read by `pmm_init` |
| Frame allocator (`memory/pmm.c`) | bitmap at 0x90000, `total_frames`, `used_frames`, `max_frame_idx` | `pmm_init`, `pmm_reserve_memory_region`, `pmm_set_frame_bitmap`, `pmm_alloc_frame`, `pmm_free_frame` | called by boot, paging, fault handler |
| Paging (`memory/paging.c`) | directory at 0x80000, first table at 0x81000, further tables in allocated frames, CR3, CR0.PG | `paging_init`, `paging_map_page` | allocates tables; writes them through the identity map |
| Page fault handler (`memory/page_fault.c`, `arch/x86/isr_page_fault.asm`) | what the stub saves on the stack | guard page, heap, stack growth, halt | allocates, maps, may fault itself |
| Boot sequence (`main/kernel.c`) | locals | `kernel_main`, `high_stack_entry` | calls all of the above in a fixed order |
| Log (`lib/printk.c`) | `log_buffer`, `rb_head`, `rb_tail` | `ringbuf_putc`, `ringbuf_write`, `printk`, `vprintk` | log first, then screen |
| Formatter (`lib/printk.c`) | the caller's buffer, `tmp[]` | `my_vsnprintf` | called by printk and panik |
| Panik (`lib/panik.c`) | mode, `panik_state` | `panik`, `set_panik_mode`, `reset_panik_state` | log, screen, halt |
| VGA driver (`drivers/vga/vga.c`) | video memory, cursor, CRTC registers | clear, print, scroll, move cursor | used by printk and panik |
| Exception tables (`arch/x86/{idt,gdt,tss}.c`, `double_fault_handler.asm`) | IDT, GDT, TSS | `idt_init`, `init_tss`, `gdt_init`, `update_tss_cr3` | consulted by the processor |

What is hard here is not concurrency but boundaries and order: memory maps with
holes, overlaps, partial pages and 64-bit addresses; a search bounded by a
count; a bitmap over memory nobody cleared; allocations between reservations;
running out of frames at any step of the boot; page tables that must be
reachable through the mapping they describe; a handler that faults; a ring and
a screen at their last cell; a formatter that counts what is left of its
buffer; an overflow of the stack that the fault itself needs; memory that
survives a reset while the program starts again. `PROJECT.json` lists these as hazards, each at its
line, with the properties that watch it.

## 2. Modules

| Module | Models | Extends |
|---|---|---|
| `FrameAllocator` | abstract: a pool of frames, each free or owned by one client | |
| `Pmm` | `memory_map.c`, `pmm.c`, the calls of `kernel_main` up to allocation | |
| `MCPmm` | Pmm on a machine of 256 sixteen-byte frames | `Pmm` |
| `PmmProofs` | theorems about Pmm | `Pmm` |
| `KernelMemory` | `paging.c`, `page_fault.c`, `kernel_main` to the high stack | `Pmm` |
| `MCKernelMemory` | the same with 16-entry page tables | `KernelMemory` |
| `KernelMemoryProofs` | theorems about the address space | `KernelMemory`, `PmmProofs` |
| `BoundedLog` | abstract: the most recent characters | |
| `RingLog` | the ring of `printk.c` | |
| `RingLogProofs` | its theorems; its instance is `MCConsole` | `RingLog` |
| `Terminal` | abstract: a scrolling teletype | |
| `Vga` | `vga.c` | |
| `MCVga` | a 3 by 3 screen | `Vga` |
| `VgaProofs` | theorems about the driver, its refinement of `Terminal` | `Vga` |
| `Console` | `printk`, `vprintk`, `panik` over both | `RingLog`, `Vga` |
| `MCConsole` | its instance | `Console` |
| `ConsoleProofs` | theorems about printk and panik | `Console`, `RingLogProofs`, `VgaProofs` |
| `Printf` | `my_vsnprintf`, with a reference for what it is to print | |
| `MCPrintf` | 8-bit integers, a buffer of six bytes | `Printf` |
| `PrintfProofs` | theorems about the formatter | `Printf` |
| `BootLoader` | `stage1.asm`, `stage2.asm`, warm resets; the BIOS external | |
| `MCBootLoader` | a kernel of seven sectors | `BootLoader` |
| `BootLoaderProofs` | theorems about both stages | `BootLoader` |
| `Faults` | `idt.c`, `gdt.c`, `tss.c`, `isr_page_fault.asm`, `page_fault.c`, the guarded stack; the processor external | |
| `MCFaults` | a stack of 60 words | `Faults` |
| `FaultsProofs` | theorems about tables, stub and guarded stack | `Faults` |

Definitions named `Mutant...` are plausible mistakes in the definition that
follows them. No specification uses them; each shows that a property would
notice that mistake.

### Pmm

Each loop of the code that can meet an interesting boundary is an action per
iteration (`ParseEntry`, `MaxRegion`, `ScanRegion`); loops over frames are set
operations. The bitmap is the set of indices whose bit is 1, and its initial
value is arbitrary (`StaleBitmaps`), since it lies over memory that nobody
clears; only `InitialisedBits` are then set. Addresses wrap at `WORD` = 2^32
where the code computes in `uint32_t`. `usable`, `reserved` and `owned` are
history variables: what `pmm_init` freed, what was reserved, what clients hold.

If the bitmap reaches the boot stack, `FillBitmap` goes to `smashed`, from where
nothing is claimed: the return address of `pmm_init` is gone. `LayoutAssumption`
states the facts about the fixed addresses that the proofs use: low memory does
not end in the last page of the address space, the paging structures lie below
1 MB, and a bitmap for 4 GB reaches the boot stack (so the scan loop, whose
address would wrap for a region ending in the last page, is never reached with
one). TLC evaluates them on the scaled machine, and they hold for the real
constants (1 MB; 0x80000, 0x81000; 0x90000 + 128 KB > 0x9FB00).

Statics start at zero. No code clears `.bss`; that they are zero on every boot,
warm ones included, is `KernelStartsClean` of `BootLoader`.

Clients of the allocator release only frames they hold; `pmm_free_frame` itself
checks the index bound alone and has no caller yet.

Two predicates say when a firmware map is good: `FirmwareOk` (no frame is
offered twice, and there is RAM past everything reserved) and `FirmwareAligned`
(no overlap at all, below 4 GB, RAM that reaches past 1 MB page-aligned). The
last condition is about where a region ends, not where it begins: a region that
starts in low memory and ends inside a frame above it gives that frame away too.
Properties that need a predicate say so; the others hold for any map.

### KernelMemory

`kpc` follows `kernel_main` from the first allocation to `run`, and the fault
handler through `fault`, `map` and back. Virtual addresses are page numbers. A
directory entry is the frame of its table; `page_tables` maps that frame to its
entries. `Translate` is the processor's page walk. `paging_map_page` is
`MapInTable` (the table exists), `MapNewTable` or `MapNoFrame`; clearing a new
table goes through its physical address, and faults when that is not mapped.
`panik` stops the kernel (normal mode).

The stack-growth branch compares with `frame->esp`, a slot that holds the
interrupted code's EDI because `page_fault_stack_t` does not match what
`isr_page_fault` pushes; its outcome is a free choice (`near_esp`). The branch
is never taken in practice because boot maps the whole stack, which
`StackBacked` shows. The guard-page branch writes to address 0 to "force a
double fault"; the identity map makes that write succeed, so the handler falls
through and halts (`FaultHalts`). Accesses are by the running kernel through a
pointer; a stack that overflows into the guard page cannot deliver the fault at
all, and is the subject of `Faults`.

### RingLog, Vga, Console

`ringbuf_putc` and one iteration of `vga_print_string` are single actions.
`Contents` and the refinement mapping in `Vga` read the log and the screen the
way a person would. In `Console` a call becomes the list of strings it sends to
the log and the screen, byte by byte, so every intermediate state of a kernel
that dies while it prints is a state of the model. Texts are inputs, cut by
`Formatted` to the size of the buffer, which is what `FormattedText` of `Printf`
says the formatter delivers; a NUL in a text (from `%c`) is logged and ends the
string on the screen. `vga_set_cursor_position` (no caller), the direct
write to the first cell in `high_stack_entry` and `panik_call_count` are left out.

### Printf

The loops of `my_vsnprintf` over the format, over a width and over the digits of
a number are steps; padding and copying into what is left of the buffer is one.
`At(i)` is `*fmt`, `Room` is `end - p`, and `ConvNumber`, `Digit` and `Emit` are
the three parts that the cases `d`, `u`, `x` and `p` share. An argument is chosen
when `va_arg` reads it. Integers are `int`s of a width given by `INT_LIMIT`; `%`
and `/` round towards zero as C's do (`CMod`, `CDiv`), which is what makes `%u`
of a large value print characters below `'0'`, although `printk.c:73` lists
"%u (unsigned int)". `text` is the history of what the
format called for, built from the reference (`Numeral`, `Wanted`), which reads
the width off the format and never looks at a buffer. `Char` is the set of
characters. `pad_width` is an `int`; the formats are literals of the kernel, the
widest field being `%08x`, and `WidthAssumption` states that none spells a width
that an `int` does not hold. `TmpAssumption` states how large `tmp` must be: room for the longest
decimal numeral and a sign, and for the longest hexadecimal one. With 32-bit
integers that is 11 and 8; the code has 12, and 20 for `p`. `PrintfTypeOK` bounds
`tmp` by the array of the conversion at hand (`TmpSize`): there is room for the
next digit as long as digits are taken, and for the sign when it is added.

Two things the code does are part of the reference, since nothing says
otherwise: zero padding goes before the sign of a negative number (`%05d` of -42
is `00-42`), and `%p` ignores its width. Two are excepted by `exact`: `%u` from
2^31 on and `%p` with one place left, which drops its prefix and
then prints a digit there.

### BootLoader

`memory` is the range of the kernel, from `kernel_start` to `kernel_end`, in
sectors; a sector holds the image, zeros, something foreign or what a previous
kernel left. A warm reset may happen at any moment and keeps memory, the E820
buffer and the count at 0x2004. The BIOS is external: its disk service may fail,
and its memory map ends either with `ebx` = 0 at the last entry or with a failing
call after it. That carry and a wrong signature are the same ending for the loop.

Nothing in the kernel clears `.bss`; the image file does not contain it either.
What does clear it is that the disk image is made from zeros and the loader
always reads 0x30 sectors. In the build at hand (gcc, `-m32`, no optimisation)
`kernel.bin` ends at 0x149C8, `.bss` runs from 0x149E0 to 0x16AC6, and the
loader fills memory up to 0x16000. Past that lie only part of the double-fault
stack, the TSS, the GDT and its pointer, which are written before they are used.
The statics that rely on zero (`current_panik_mode`,
`usable_memory_region_count`, `max_frame_idx`) are below. This is
`BootAssumption`; it stops being true when the kernel grows by a few sectors.
The breadcrumbs at 0x15000 lie in the same range, inside
`usable_memory_region[]`: the loader overwrites them before the next boot can
look for them.

### Faults

`stack` is the sequence of words pushed since `switch_to_high_stack`; a push past
`STACK_WORDS` touches the guard page, and since ESP is then at the guard page the
fault has nowhere to go. A register holds its own name until something clobbers
it, so `ResumesExactly` can compare. The processor is external: `PageFault`
pushes EFLAGS, CS, EIP and the error code, `DoubleFault` follows the task gate of
vector 8 if it can and shuts down otherwise, and shutdown resets the machine.
The handler's allocation and mapping succeed, run out of memory or fault again
(a new table outside the identity map); `KernelMemory` has their effect.

Two more things the code's comments say do not hold, and follow from the
definitions at hand. `page_fault_stack_t` has one segment slot and an `int_no`
where the stub pushes four segments and no number (`SegmentOrder`,
`PushaOrder`), so `frame->error_code` ("Error code pushed by CPU",
`page_fault.h:8`) is the interrupted ECX, `frame->eip` EAX and `frame->esp` EDI:
the reports of the handler say nothing about the fault. And the guard-page
branch does not "Force double fault" (`page_fault.c:39`): address 0 is in the
identity map (`HandlerHalts`).

`NoInterruptWindow` answers the question in `kernel/main/kernel.c:103` ("Enabling
Interrupts is causing the kernel to reboot infinitely. WHY ???"): the PIC is
never remapped, so the timer arrives as vector 8, whose task gate names a busy
TSS. The kernel lives because IF is never on at an instruction that could be
interrupted, not even at the `sti` in the stub, whose effect starts after the
`iret` that undoes it. The EFLAGS of the double-fault task (0x202, `tss.c:27`)
have IF set too; they are never loaded, because its TSS is busy. Were it made
available, `NoInterruptWindow` would fail at the first instruction of
`double_fault_handler`, its `cli`.

`test_stack_overflow(0)` (`kernel.c:138`) recurses without end, so a kernel as
built always ends in `CallOverflows` and reboots; the unit tests after it
(`kernel.c:145`) are reached by no build.

## 3. Runs

| Run | Checks | Result |
|---|---|---|
| `pmm` | eleven maps (emulator, hole and one region too many, unsorted, ragged top, too little memory, overlapping, unaligned, across the end of low memory, above 4 GB, across 4 GB, too big) with three stale bitmaps; any sequence of allocations and releases | holds |
| `pmm_exhaustion` | `ExhaustionIsReal` | violated: on the emulator's map the frames above `total_frames` are never found |
| `pmm_unaligned` | `NoReservedMemoryOwned` | violated: a region ending inside a frame gives away the frame's reserved rest |
| `pmm_big` | `BitmapInSafeRegion` | violated: the bitmap overwrites the boot stack |
| `kernel_memory` | every amount of RAM from one frame to eleven more than boot needs; accesses to two heap tables, the guard page, the stack, the identity map and an unmapped page | holds |
| `kernel_memory_nested` | `NoNestedFault` | violated: a new table outside the identity map |
| `vga` | every text over two characters and two colours on a 3 by 3 screen | holds |
| `console` | printk and panik, both modes, texts that overflow each buffer; the ring under them refines `BoundedLog` | holds |
| `printf` | every format of up to three characters over ten, padded ones of four, pairs of conversions; integers at the edges of their width | holds |
| `boot_loader` | four memory maps, both endings, disk errors, two drives, clean and dirty memory, resets at every step | holds |
| `faults` | calls of two sizes to every depth, accesses to two heap pages, the guard and an unmapped page, out of memory and a nested fault in the handler | holds |
| `faults_double` | `DoubleFaultHandled` | violated: an overflow resets the machine |

Bounds. The scaled machine keeps the order of the real layout: kernel, page
directory, page table and bitmap below 1 MB, the boot stack above the bitmap,
RAM above. A byte of bitmap covers 8 frames in both, so byte boundaries, a
partial last byte and a bitmap past its first frame all occur. Three usable
regions fit the array and one map has four. Page tables have 16 entries, so the
heap needs two of them and RAM can exceed the identity map. A ring of seven and a
screen of three by three make every wrap happen at every offset. In `console`
the log is longer than a panik record, as in the code (8 + 255 + 1 < 1024). In
`printf` an `int` has eight bits, `tmp` the four characters its longest number
needs (twelve for eleven in the code) and the buffer five and a terminator, so
that every conversion meets the end of the buffer at every offset. The loader's
five sectors of seven leave `.bss` sectors on both sides of its last one, and the
longest map fills its buffer. The stack of `faults` holds one fault with its
handler (24 words), two from the upper depths, and none near the guard; frames
of three and seven words, pushed and popped, reach every depth, so that the
overflow happens at every push of the processor and of the stub.

Fairness. `WF(Boot)`, `WF(KStep)`, `WF(Write)` and `WF(Loader)` say that the one
thread of the kernel, and of the loader before it, keeps executing; nothing
preempts it. `LoaderEnds` is about behaviours with finitely many resets. What clients ask for next is not
fair. Deadlock is checked in every run; a halted kernel is an explicit loop.

### Properties worth knowing

* `OwnedIsPrivate`, `ImplementsFrameAllocator`: for any firmware map no frame is
  handed out twice and none that boot reserved.
* `AccountingExact`, `SearchStaysInBitmap`: on sane maps counters are exact, and
  although `pmm_alloc_frame` uses a count as index bound it never reads a bit
  that `pmm_init` did not write.
* `OwnedIsRam`: on aligned maps every byte handed out is RAM.
* `FramesNotAliased`, `MappedFramesHeld`, `TablesReachable`, `IdentityMapped`,
  `MappingsPermanent`: the address space stays sound through the boot sequence
  and demand paging, with memory running out anywhere. `MappingsPermanent` is
  also why the missing TLB flushes for other pages do no harm.
* `HeapFaultsEnd`, `KernelStarts`: no fault loop, no hanging boot.
* `CallIsLogged`, `LogAheadOfScreen`, `PanikRecorded`: a kernel that dies leaves
  in its log at least what is on its screen, and after panik the whole record.
* `FormattedText`, `ScanStaysInFormat`: the formatter prints the reference's text
  cut to its buffer, and leaves a format only if it ends inside a conversion.
* `KernelStartsClean`, `MapHandedOver`: after any history of crashes and resets
  the kernel starts on a fresh image, with its statics zero, and with exactly the
  memory map of this boot.
* `ResumesOnlyServed`, `ResumesExactly`, `NoInterruptWindow`: a fault returns only
  when its page has been mapped, and is then invisible to the code it
  interrupted, at every stack depth; nothing else can interrupt.
* `DoubleFaultTaskReady`: whenever the stack can overflow, the TSS of the
  double-fault handler is complete; what keeps the handler from running is the
  busy bit alone (`faults_double`).

## 4. Proofs

TLAPS proves every safety invariant and action property of the runs, and all
three refinements, for every value of the constants that satisfies the named
assumptions. Each proof module has one inductive invariant, which TLC checked
on the run's instance before it was proved, and one lemma per action or per
conjunct below it. The assumptions are evaluated by TLC on every instance.

### PmmProofs

For all constants satisfying `PmmAssumption` and `LayoutAssumption` (any page
size, word size, set of firmware maps, stale bitmaps and client requests):
`TypeCorrect`, `KeepsAvailable`, `FramesPrivate`, `FramesAccounted`,
`SearchBounded`, `OwnedRam`, `OwnersFree` and `PmmRefinesFrameAllocator`.

The inductive invariant `IInv` is `TypeOK` with

* `IndexInv`: loop indices stay within their sequence;
* `PhaseInv`: nothing is usable, reserved or owned before its phase;
* `MarkInv`: owned and reserved frames have their bit set, and each reservation
  already made is contained in `reserved`;
* `ScanInv`: during the scan, the frames freed are those of the regions done,
  lie below `max_frame_idx`, and every other initialised bit is still set;
* `CountInv`: for a sane map the counters are the cardinalities;
* `SourceInv`, `ParseInv`: the regions are available entries of the map, and
  exactly the first of them.

`OwnedIsPrivate` is not inductive alone: that an allocation avoids the
reservations follows from their bits (`MarkInv`) and not from the search.
`AccountingExact` needs `ScanInv`, because the counter is right only if no frame
is freed twice. `SearchStaysInBitmap` rests on `TotalBound`: `usable` is a
subset of `0 .. max_frame_idx - 1`, so its cardinality cannot exceed
`max_frame_idx`. `OwnedRam` follows a frame back to the entry of the map it came
from; attempting it is what showed that alignment must be asked of the end of a
region that starts in low memory (`StraddlingMap` of `MCPmm`). The refinement
maps the pool to the frames the search would accept; the last reservation
happens while allocation is open, and is a stutter because the page tables lie
in low memory, reserved before.

### KernelMemoryProofs

Every step of the kernel is a step or a stutter of `Pmm` (`PmmStep`), so `IInv`
holds here too. `KInv` adds the order of the boot (`OrderInv`), tables and
mappings (`TableInv`, `MapInv`), the frame on its way into a table (`FrameInv`),
the loop that maps the stack (`LoopInv`) and what depends on RAM ending below the
heap (`RamInv`). `FramesNotAliased` needs `FrameInv`: between the allocation and
the mapping the frame is held and used nowhere. The page walk is unfolded only
in the `MapEffect` lemmas.

For any firmware map: `KTypeCorrect`, `NoAliasing`, `MappedHeld`,
`IdentityStands`. For the sane ones (`KSpec /\ []SaneFirmware`, that is
`FirmwareOk` of the map in use): `TablesInReach`, `StackIsBacked`,
`MappingsStay`. The hypothesis is needed. If RAM is offered twice,
`total_frames` can pass the number of frames there are; then a frame number may
be that of a heap page, a new table may lie behind a mapping, and a nested fault
map something else than what was asked for. With a sane map the argument is that
`total_frames` is at most `max_frame_idx`, and that a bitmap for so much RAM that
a frame had the number of a heap page would have reached the boot stack
(`PagingAssumption`, last conjunct: 8 * (0x9FB00 - 0x90000) = 514048 frames; the
heap starts at page 0xC1000 = 790528). Reaching every table although RAM exceeds
the identity map follows from the halting of a nested fault.

### BootLoaderProofs

`BootTypeCorrect`, `StartsClean`, `HandsOverMap`, for every layout and firmware
list that satisfies `BootAssumption` and any number of resets. `BootInv` follows
what the disk read left in memory (`LoadedInv`) and the E820 loop (`ListInv`:
continuation value, slots and count agree, and the slots hold the first entries
of this boot's list), since both properties speak of the moment of entry only.

### FaultsProofs

`FaultsTypeCorrect`, `InterruptsStayOff`, `TaskReady`, `FaultsAreInvisible`,
`OnlyServedResume`, for every stack size, frame sizes and set of heap pages.
`FrameInv` says word by word what the processor and the stub pushed above the
stack of the interrupted code, at each control point; it covers faults on heap
pages, and `ServedInv` says that no other fault gets as far as the pops. A nested
fault is therefore no exception: it leaves "other" in CR2 and never returns.
`TableInv` says that the TSS is busy whenever a double fault can happen, which
`InterruptsStayOff` needs: the task it describes would start with IF on.

### RingLogProofs, VgaProofs, ConsoleProofs

`RingLogProofs`: `RingTypeCorrect` and `RingImplementsBoundedLog` for every
buffer size of at least two. Modulo is first reduced to one conditional
subtraction (`WrapOnce`, `WrapNegative`), then a write is shown to append when
there is room and to drop the oldest byte when there is not.

`VgaProofs`: `VgaTypeCorrect`, `TextStands`, `VgaImplementsTerminal`, for every
screen size. The flat offset is multiplied out only in the lemmas on offsets;
`ImplementsTerminal` needs `NothingOverprinted`, because a new row of `Terminal`
is blank and the driver's was blank already or is blanked by the scroll.

`ConsoleProofs`: `ConsoleTypeCorrect`, `CallLogged`, `LogLeads`, `PanikOnRecord`,
`ConsoleImplementsLog`. Every step is a step or a stutter of the ring and of the
driver, so their invariants carry over. The rest of `ConsoleInv` follows a call
string by string: what printk still has to log and show compared with what it
has (`PrintkInv`), and the record and the last line of a panik that halts
(`KindsInv`, `RecordInv`, `ScreenInv`). `ConsoleAssumption` says that the fixed
strings and a panik record fit the log and that the last message is one line.

### PrintfProofs

`PrintfTypeCorrect`, `PrintsReference`, `ScanInFormat`, for every format,
argument, buffer size and integer width, from `PrintfAssumption`,
`TmpAssumption` and `WidthAssumption` (which only the range of `pad_width`
needs). What `exact` excepts, `%u` from 2^31 on and `%p` with fewer than two
places left, `PrintsReference` excepts too. `PrintfInv` relates the middle of a conversion to the reference:
`WidthInv` (`pad_width` is the number the digits since the percent sign spell),
`DigitsInv` (the numeral of what is left of the number, followed by `tmp` read
backwards, is the numeral of the argument; so `tmp` is never longer than that)
and `TextInv` (the buffer is the text so far, cut).

### Recursive functions

The induction theorems of the library cannot be used with the provers at hand.
`Numeral`, `Decimal` and `AvailableUpTo` are recursive functions, and what is
needed of them (that they exist, satisfy their equation and have their type) is
proved by taking the least argument for which it fails: `LeastElement`, from
`WFMin` and `NatLessThanWellFounded`.

### Left to TLC

Liveness (`BootCompletes`, `KernelStarts`, `HeapFaultsEnd`, `CallsEnd`,
`LoaderEnds`) is out of the prover's reach, and so the fairness of the
specifications is not used by any proof. The five runs that expect a violation
are counterexamples and need no proof.

## 5. Not modelled, and the plan

Not modelled:

* `vga_set_cursor_position` and `vga_get_cursor_position`, which have no caller;
  `panik_call_count`, which only a test summary reads; the debug dumps of
  `kernel.c` and `paging.c`, which only print; the direct write to the first
  screen cell at `kernel.c:126`.
* The unit tests: nothing reaches them. Panik in test mode is modelled in
  `Console`; the memory code never runs in that mode.
* A release of a frame its caller does not hold: `pmm_free_frame` has no caller.
* The build: its layout is an assumption of `BootLoader`.

What is left to prove is not a property of a run:

1. The link between `Printf` and `Console`: that `Formatted` of `Console` is what
   `FormattedText` delivers is an argument of this README.
2. That the handler of `Faults` is an abstraction of the one of `KernelMemory`:
   `mapped` is the set of heap pages that `Translate` maps.
3. Shorter proofs where one lemma could serve several actions (`ConsoleProofs`).
