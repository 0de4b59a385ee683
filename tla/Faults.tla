------------------------------- MODULE Faults -------------------------------
(***************************************************************************)
(* Exceptions: the tables kernel_main sets up for the processor (idt.c,    *)
(* gdt.c, tss.c), the entry stub isr_page_fault, the branches of           *)
(* page_fault_handler, and a kernel stack with a guard page below it.      *)
(*                                                                         *)
(* The stack is the sequence of words pushed since switch_to_high_stack,   *)
(* and a push beyond STACK_WORDS touches the guard page.  No frame of the  *)
(* kernel is larger than that page (the largest is vprintk's, 1 KB), so an *)
(* overflow cannot step over it.  A register holds its own name until it   *)
(* is clobbered.  What the handler's allocation and mapping do to memory   *)
(* is the subject of KernelMemory; here they succeed, fail or fault.  All  *)
(* pages of the stack but the guard are mapped before it is used, so the   *)
(* branch that would grow it is not taken.                                 *)
(***************************************************************************)
EXTENDS Integers, Sequences

CONSTANTS
    STACK_WORDS,        \* words from the guard page to the initial ESP
    HANDLER_WORDS,      \* words page_fault_handler and what it calls use
    Frames,             \* sizes, in words, of the frames of other functions
    HeapPages

ASSUME FaultsAssumption ==
    /\ STACK_WORDS \in Nat /\ HANDLER_WORDS \in Nat
    /\ Frames \subseteq Nat \ {0}
    /\ HeapPages \cap {"guard", "other"} = {}

VARIABLES
    pc,
    idt, gdt,           \* vector -> gate, index -> descriptor, as loaded
    tss_df,             \* the double fault task: its handler, CR3 and EFLAGS
    cr3, cr2,
    regs, iflag, stack,
    mapped,             \* pages of the heap, and "low" for the identity map
    interrupted         \* history: registers, IF and stack when a fault hit

tableVars == <<idt, gdt, tss_df>>
cpuVars == <<regs, iflag, stack>>
vars == <<pc, tableVars, cr3, cr2, cpuVars, mapped, interrupted>>

-----------------------------------------------------------------------------
\* An entry of the IDT, of the GDT, and what the TSS says of its task.
Gate == {"task_0x18", "isr_page_fault"}
Descriptor == {"flat", "available_tss", "busy_tss"}
Task == [eip : {"none", "double_fault_handler"}, cr3 : {"none", "page_directory"},
         eflags : {"IF=0", "IF=1"}]

Segments == {"ds", "es", "fs", "gs"}
General == {"eax", "ecx", "edx", "ebx", "ebp", "esi", "edi"}

\* What a register or a word of the stack may hold.
Words == General \cup {"0x08", "0x10", "IF=0", "IF=1", "eip", "esp", "error", "frame",
                       "return", "local", "junk"}

\* What pusha and the four pushes of isr_page_fault put on the stack.
PushaOrder == <<"eax", "ecx", "edx", "ebx", "esp", "ebp", "esi", "edi">>
SegmentOrder == <<"ds", "es", "fs", "gs">>

Pushed(order) ==
    [k \in 1 .. Len(order) |-> IF order[k] = "esp" THEN "esp" ELSE regs[order[k]]]

Locals(n) == [k \in 1 .. n |-> "local"]
Drop(n) == SubSeq(stack, 1, Len(stack) - n)
Fits(n) == Len(stack) + n <= STACK_WORDS

\* The registers of a running kernel; the loader set the segments.
KernelRegs ==
    [r \in General \cup Segments |-> IF r \in Segments THEN "0x10" ELSE r]

-----------------------------------------------------------------------------
(* The processor.                                                          *)

\* A task gate is followed only to an available TSS.
TaskGateWorks ==
    /\ 8 \in DOMAIN idt /\ idt[8] = "task_0x18"
    /\ 3 \in DOMAIN gdt /\ gdt[3] = "available_tss"

\* A push into the guard page: the stack is full, so the page fault cannot be
\* delivered.  If vector 8 cannot be delivered either, the processor shuts
\* down and the machine resets.
DoubleFault ==
    /\ cr2' = "guard"
    /\ IF TaskGateWorks THEN pc' = tss_df.eip /\ iflag' = tss_df.eflags
                        ELSE pc' = "reset" /\ iflag' = iflag
    /\ UNCHANGED <<regs, stack>>

\* Vector 14 through its interrupt gate, on the stack in use.
PageFault(page) ==
    IF Fits(4)
       THEN /\ cr2' = page
            /\ stack' = stack \o <<iflag, "0x08", "eip", "error">>
            /\ iflag' = "IF=0" /\ pc' = idt[14]
            /\ UNCHANGED regs
       ELSE DoubleFault

-----------------------------------------------------------------------------
\* What stage 2 leaves: interrupts off, no IDT, a GDT of three entries.
LoaderGdt == [k \in 0 .. 2 |-> "flat"]
NoTask == [eip |-> "none", cr3 |-> "none", eflags |-> "IF=0"]

Init ==
    /\ pc = "idt_init"
    /\ idt = << >> /\ gdt = LoaderGdt /\ tss_df = NoTask
    /\ cr3 = "none" /\ cr2 = "none"
    /\ regs = KernelRegs /\ iflag = "IF=0" /\ stack = << >>
    /\ mapped = {} /\ interrupted = << >>

idt_init ==
    /\ pc = "idt_init"
    /\ idt' = [v \in {8, 14} |-> IF v = 8 THEN "task_0x18" ELSE "isr_page_fault"]
    /\ pc' = "init_tss"
    /\ UNCHANGED <<gdt, tss_df, cr3, cr2, cpuVars, mapped, interrupted>>

\* CR3 is read before there is a page directory.  EFLAGS 0x202 has IF set.
init_tss ==
    /\ pc = "init_tss"
    /\ tss_df' = [eip |-> "double_fault_handler", cr3 |-> cr3, eflags |-> "IF=1"]
    /\ pc' = "gdt_init"
    /\ UNCHANGED <<idt, gdt, cr3, cr2, cpuVars, mapped, interrupted>>

\* set_gdt_entry writes an available TSS, and ltr makes it busy.
gdt_init ==
    /\ pc = "gdt_init"
    /\ gdt' = [k \in 0 .. 3 |-> IF k = 3 THEN "busy_tss" ELSE "flat"]
    /\ pc' = "paging_init"
    /\ UNCHANGED <<idt, tss_df, cr3, cr2, cpuVars, mapped, interrupted>>

\* The identity map starts at address 0.
paging_init ==
    /\ pc = "paging_init"
    /\ cr3' = "page_directory" /\ mapped' = {"low"}
    /\ pc' = "update_tss_cr3"
    /\ UNCHANGED <<tableVars, cr2, cpuVars, interrupted>>

\* Mutant: the TSS keeps the CR3 it was built with.
Mutant_update_tss_cr3 ==
    /\ pc = "update_tss_cr3"
    /\ pc' = "run"
    /\ UNCHANGED <<tableVars, cr3, cr2, cpuVars, mapped, interrupted>>

\* After it the stack is mapped and switched to, on which high_stack_entry runs.
update_tss_cr3 ==
    /\ pc = "update_tss_cr3"
    /\ tss_df' = [tss_df EXCEPT !.cr3 = cr3]
    /\ pc' = "run"
    /\ UNCHANGED <<idt, gdt, cr3, cr2, cpuVars, mapped, interrupted>>

-----------------------------------------------------------------------------
(* The running kernel.                                                     *)

\* Mutant: a function is called whether its frame fits or not.
MutantCall(n) ==
    /\ pc = "run"
    /\ stack' = stack \o Locals(n)
    /\ UNCHANGED <<pc, tableVars, cr3, cr2, regs, iflag, mapped, interrupted>>

\* A function is called: test_stack_overflow by itself, printk, and so on.
Call(n) ==
    /\ pc = "run" /\ Fits(n)
    /\ stack' = stack \o Locals(n)
    /\ UNCHANGED <<pc, tableVars, cr3, cr2, regs, iflag, mapped, interrupted>>

\* Its frame reaches the guard page, and ESP with it.
CallOverflows(n) ==
    /\ pc = "run" /\ ~Fits(n)
    /\ DoubleFault
    /\ UNCHANGED <<tableVars, cr3, mapped, interrupted>>

\* Words are popped again as calls return; test_stack_overflow never does.
Return(n) ==
    /\ pc = "run" /\ Len(stack) >= n
    /\ stack' = Drop(n)
    /\ UNCHANGED <<pc, tableVars, cr3, cr2, regs, iflag, mapped, interrupted>>

\* An access through a pointer to a page that is not mapped.
Access(page) ==
    /\ pc = "run" /\ page \notin mapped
    /\ PageFault(page)
    /\ interrupted' = <<regs, iflag, stack>>
    /\ UNCHANGED <<tableVars, cr3, mapped>>

\* isr_page_fault up to the call of the handler: the registers, the segments,
\* ESP and the return address, then the frames of C.  A push into the guard
\* page cannot be delivered any more.
IsrSave ==
    /\ pc = "isr_page_fault"
    /\ IF Fits(14 + HANDLER_WORDS)
       THEN /\ stack' = stack \o Pushed(PushaOrder) \o Pushed(SegmentOrder)
                              \o <<"frame", "return">> \o Locals(HANDLER_WORDS)
            /\ regs' = [r \in DOMAIN regs |-> IF r \in Segments THEN "0x10"
                                              ELSE IF r = "eax" THEN "junk" ELSE regs[r]]
            /\ pc' = "handler" /\ iflag' = "IF=0" /\ cr2' = cr2
       ELSE DoubleFault
    /\ UNCHANGED <<tableVars, cr3, mapped, interrupted>>

\* page_fault_handler, a heap address: the page is mapped, and the handler
\* returns with the registers a C function may clobber clobbered.
HandlerMaps ==
    /\ pc = "handler" /\ cr2 \in HeapPages
    /\ mapped' = mapped \cup {cr2}
    /\ regs' = [r \in DOMAIN regs |-> IF r \in {"eax", "ecx", "edx"} THEN "junk" ELSE regs[r]]
    /\ stack' = Drop(HANDLER_WORDS + 1)
    /\ pc' = "restore"
    /\ UNCHANGED <<tableVars, cr3, cr2, iflag, interrupted>>

\* paging_map_page writes a new table that is outside the identity map.
HandlerFaults ==
    /\ pc = "handler" /\ cr2 \in HeapPages
    /\ PageFault("other")
    /\ UNCHANGED <<tableVars, cr3, mapped, interrupted>>

\* Out of memory: panik.
HandlerPaniks ==
    /\ pc = "handler" /\ cr2 \in HeapPages
    /\ pc' = "halt"
    /\ UNCHANGED <<tableVars, cr3, cr2, cpuVars, mapped, interrupted>>

\* Mutant: after the message about the guard page the handler returns.
MutantHandlerHalts ==
    /\ pc = "handler" /\ cr2 \notin HeapPages
    /\ IF cr2 = "guard"
       THEN pc' = "restore" /\ stack' = Drop(HANDLER_WORDS + 1) /\ UNCHANGED <<regs, iflag>>
       ELSE pc' = "halt" /\ UNCHANGED cpuVars
    /\ UNCHANGED <<tableVars, cr3, cr2, mapped, interrupted>>

\* The guard page: a message, and a write to address 0, which faults only if
\* that is not mapped.
GuardWriteFaults == cr2 = "guard" /\ "low" \notin mapped

\* Otherwise the handler goes on to report and halt, as for every address that
\* is not in the heap.
HandlerHalts ==
    /\ pc = "handler" /\ cr2 \notin HeapPages
    /\ IF GuardWriteFaults
       THEN PageFault("low")
       ELSE pc' = "halt" /\ UNCHANGED <<cr2, cpuVars>>
    /\ UNCHANGED <<tableVars, cr3, mapped, interrupted>>

\* Mutants: popa before the segments are popped; sti before popa.
MutantIsrPopa ==
    LET at(k) == stack[Len(stack) - k] IN
    /\ pc = "restore"
    /\ regs' = [r \in DOMAIN regs |->
                 CASE r = "edi" -> at(1) [] r = "esi" -> at(2) [] r = "ebp" -> at(3)
                   [] r = "ebx" -> at(5) [] r = "edx" -> at(6) [] r = "ecx" -> at(7)
                   [] r = "eax" -> at(8) [] r = "ds" -> at(9) [] r = "es" -> at(10)
                   [] r = "fs" -> at(11) [] r = "gs" -> at(12)]
    /\ stack' = Drop(14) /\ pc' = "sti"
    /\ UNCHANGED <<tableVars, cr3, cr2, iflag, mapped, interrupted>>
MutantIsrSti ==
    /\ pc = "restore"
    /\ pc' = "sti" /\ iflag' = "IF=1"
    /\ UNCHANGED <<tableVars, cr3, cr2, regs, stack, mapped, interrupted>>

\* add esp, 4; pop gs, fs, es, ds; popa, which skips ESP; add esp, 4.
IsrRestore ==
    LET at(k) == stack[Len(stack) - k] IN
    /\ pc = "restore"
    /\ regs' = [r \in DOMAIN regs |->
                 CASE r = "gs" -> at(1) [] r = "fs" -> at(2) [] r = "es" -> at(3)
                   [] r = "ds" -> at(4) [] r = "edi" -> at(5) [] r = "esi" -> at(6)
                   [] r = "ebp" -> at(7) [] r = "ebx" -> at(9) [] r = "edx" -> at(10)
                   [] r = "ecx" -> at(11) [] r = "eax" -> at(12)]
    /\ stack' = Drop(14)
    /\ pc' = "sti"
    /\ UNCHANGED <<tableVars, cr3, cr2, iflag, mapped, interrupted>>

\* sti takes effect after the instruction that follows it.
Sti ==
    /\ pc = "sti"
    /\ iflag' = "IF=1" /\ pc' = "iret"
    /\ UNCHANGED <<tableVars, cr3, cr2, regs, stack, mapped, interrupted>>

\* iret pops EIP, CS and EFLAGS; the access is tried again.
Iret ==
    /\ pc = "iret" /\ stack[Len(stack)] = "eip"
    /\ iflag' = stack[Len(stack) - 2] /\ stack' = Drop(3)
    /\ pc' = "run" /\ interrupted' = << >>
    /\ UNCHANGED <<tableVars, cr3, cr2, regs, mapped>>

\* The loader runs again.
Reset ==
    /\ pc = "reset"
    /\ pc' = "idt_init"
    /\ idt' = << >> /\ gdt' = LoaderGdt /\ tss_df' = NoTask
    /\ cr3' = "none" /\ cr2' = "none"
    /\ regs' = KernelRegs /\ iflag' = "IF=0" /\ stack' = << >>
    /\ mapped' = {} /\ interrupted' = << >>

\* hlt for ever; double_fault_handler first leaves its marks.
Halted == pc \in {"halt", "double_fault_handler"} /\ UNCHANGED vars

Next ==
    \/ idt_init \/ init_tss \/ gdt_init \/ paging_init \/ update_tss_cr3
    \/ \E n \in Frames : Call(n) \/ CallOverflows(n) \/ Return(n)
    \/ \E page \in HeapPages \cup {"guard", "other"} : Access(page)
    \/ IsrSave \/ HandlerMaps \/ HandlerFaults \/ HandlerPaniks \/ HandlerHalts
    \/ IsrRestore \/ Sti \/ Iret
    \/ Reset \/ Halted

Spec == Init /\ [][Next]_vars

-----------------------------------------------------------------------------
\* Every variable stays in its domain, and the stack above the guard page.
FaultsTypeOK ==
    /\ pc \in {"idt_init", "init_tss", "gdt_init", "paging_init", "update_tss_cr3",
               "run", "isr_page_fault", "handler", "restore", "sti", "iret",
               "reset", "halt", "double_fault_handler"}
    /\ idt \in [DOMAIN idt -> Gate] /\ gdt \in [DOMAIN gdt -> Descriptor]
    /\ tss_df \in Task /\ cr3 \in {"none", "page_directory"}
    /\ cr2 \in HeapPages \cup {"none", "guard", "other"}
    /\ stack \in Seq(Words) /\ Len(stack) <= STACK_WORDS
    /\ regs \in [General \cup Segments -> Words]
    /\ iflag \in {"IF=0", "IF=1"}
    /\ mapped \subseteq HeapPages \cup {"low"}

\* A fault that is served is invisible: when isr_page_fault returns, every
\* register, the interrupt flag and the stack are as they were when the
\* access faulted, whatever the handler clobbered.
ResumesExactly ==
    [][pc = "iret" => <<regs', iflag', stack'>> = interrupted]_vars

\* No instruction is ever interrupted: the stub's sti is covered by the iret
\* after it, which restores the caller's IF, and the EFLAGS of the TSS, which
\* have IF set, are never loaded, because ltr has made it busy.  The timer's
\* interrupt, which arrives as vector 8 because the PIC is not remapped, would
\* be taken for a double fault.
NoInterruptWindow == iflag = "IF=1" => pc = "iret"

\* From the moment the stack can overflow, the TSS of the double fault handler
\* has the page directory in use and its gate leads to it.
DoubleFaultTaskReady ==
    pc \notin {"idt_init", "init_tss", "gdt_init", "paging_init", "update_tss_cr3"} =>
      /\ tss_df.eip = "double_fault_handler" /\ tss_df.cr3 = cr3
      /\ idt[8] = "task_0x18" /\ 3 \in DOMAIN gdt

\* A fault returns only once it is served: when isr_page_fault returns, the
\* page of CR2 is a heap page that is now mapped, so that the access does not
\* fault again.  An access to the guard page or to no page at all, and a
\* handler that faulted itself, never resume.
ResumesOnlyServed ==
    [][pc = "iret" => cr2 \in HeapPages \cap mapped]_vars

(* Stated by the code, refuted by a run.                                   *)

\* "Set up double fault as task gate": a double fault enters its handler and
\* does not reset the machine.
DoubleFaultHandled == pc # "reset"

=============================================================================
