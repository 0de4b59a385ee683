---------------------------- MODULE FaultsProofs ----------------------------
(***************************************************************************)
(* Proofs about Faults for every stack size, every frame size of the       *)
(* handler and of other functions, and every set of heap pages.            *)
(*                                                                         *)
(* The invariant follows a fault from the access to the iret: TableInv     *)
(* says what the processor finds in its tables, FrameInv what lies on the  *)
(* stack above the words of the interrupted code.  FrameInv covers only    *)
(* faults on heap pages; every other fault ends in the handler (ServedInv  *)
(* and the fact that a nested fault leaves "other" in CR2).                *)
(***************************************************************************)
EXTENDS Faults, SequenceTheorems, TLAPS

Setup == {"idt_init", "init_tss", "gdt_init", "paging_init", "update_tss_cr3"}
InFault == {"isr_page_fault", "handler", "restore", "sti", "iret"}

\* What each step of the setup leaves in the processor's tables.
TableInv ==
    /\ pc # "idt_init" =>
         idt = [v \in {8, 14} |-> IF v = 8 THEN "task_0x18" ELSE "isr_page_fault"]
    /\ pc \notin {"idt_init", "init_tss"} => tss_df.eip = "double_fault_handler"
    /\ pc \notin {"idt_init", "init_tss", "gdt_init"} =>
         3 \in DOMAIN gdt /\ gdt[3] = "busy_tss"
    /\ pc \notin {"idt_init", "init_tss", "gdt_init", "paging_init"} => "low" \in mapped
    /\ pc \notin Setup => tss_df.cr3 = cr3

\* Interrupts are off but for the instruction after sti.
FlagInv == iflag = "IF=1" => pc = "iret"

\* n words above the stack s of the interrupted code, of which the lowest three
\* are those that iret pops.
FaultFrame(s, n) ==
    /\ Len(stack) = Len(s) + n
    /\ \A k \in 1 .. Len(s) : stack[k] = s[k]
    /\ stack[Len(s) + 1] = "IF=0" /\ stack[Len(s) + 3] = "eip"

\* The registers r of the interrupted code are where isr_page_fault pushed them.
RegsSaved(r, s) ==
    /\ stack[Len(s) + 5] = r["eax"] /\ stack[Len(s) + 6] = r["ecx"]
    /\ stack[Len(s) + 7] = r["edx"] /\ stack[Len(s) + 8] = r["ebx"]
    /\ stack[Len(s) + 10] = r["ebp"] /\ stack[Len(s) + 11] = r["esi"]
    /\ stack[Len(s) + 12] = r["edi"] /\ stack[Len(s) + 13] = r["ds"]
    /\ stack[Len(s) + 14] = r["es"] /\ stack[Len(s) + 15] = r["fs"]
    /\ stack[Len(s) + 16] = r["gs"]

\* Registers and stack between a fault on a heap page and its iret.
FrameShape(r, s) ==
    /\ pc = "isr_page_fault" => FaultFrame(s, 4) /\ regs = r
    /\ pc = "handler" => FaultFrame(s, 18 + HANDLER_WORDS) /\ RegsSaved(r, s)
    /\ pc = "restore" => FaultFrame(s, 17) /\ RegsSaved(r, s)
    /\ pc \in {"sti", "iret"} => FaultFrame(s, 3) /\ regs = r

FrameInv ==
    pc \in InFault /\ cr2 \in HeapPages =>
      LET r == interrupted[1]
          s == interrupted[3]
      IN  /\ interrupted = <<r, "IF=0", s>>
          /\ r \in [General \cup Segments -> Words] /\ s \in Seq(Words)
          /\ FrameShape(r, s)

\* The stub returns only from a fault that was served.
ServedInv == pc \in {"restore", "sti", "iret"} => cr2 \in HeapPages \cap mapped

FInv == FaultsTypeOK /\ TableInv /\ FlagInv /\ FrameInv /\ ServedInv

-----------------------------------------------------------------------------
\* Words are appended on top of the words that are there.
LEMMA PushEffect ==
    ASSUME NEW a \in Seq(Words), NEW b \in Seq(Words)
    PROVE  /\ a \o b \in Seq(Words)
           /\ Len(a \o b) = Len(a) + Len(b)
           /\ \A k \in 1 .. Len(a) : (a \o b)[k] = a[k]
           /\ \A k \in 1 .. Len(b) : (a \o b)[Len(a) + k] = b[k]
  OBVIOUS

\* Dropping words leaves the ones below.
LEMMA DropEffect ==
    ASSUME stack \in Seq(Words), NEW n \in 0 .. Len(stack)
    PROVE  /\ Drop(n) \in Seq(Words)
           /\ Len(Drop(n)) = Len(stack) - n
           /\ \A k \in 1 .. Len(stack) - n : Drop(n)[k] = stack[k]
  BY DEF Drop

\* A function from 1 .. n to words is a sequence of n words.
LEMMA WordsAreSeq ==
    ASSUME NEW n \in Nat, NEW w \in [1 .. n -> Words]
    PROVE  w \in Seq(Words) /\ Len(w) = n
  <1>1. w \in Seq(Words)
    BY SeqDef
  <1>2. Len(w) \in Nat /\ DOMAIN w = 1 .. Len(w) /\ DOMAIN w = 1 .. n
    BY <1>1, LenProperties
  <1>. QED  BY <1>1, <1>2

\* A frame of locals is a sequence of words.
LEMMA LocalsEffect ==
    ASSUME NEW n \in Nat
    PROVE  Locals(n) \in Seq(Words) /\ Len(Locals(n)) = n
  <1>1. Locals(n) \in [1 .. n -> Words]
    BY DEF Locals, Words
  <1>. QED  BY <1>1, WordsAreSeq

\* So are the registers pusha and the four pushes put on the stack.
LEMMA PushedEffect ==
    ASSUME regs \in [General \cup Segments -> Words]
    PROVE  /\ Pushed(PushaOrder) \in Seq(Words) /\ Len(Pushed(PushaOrder)) = 8
           /\ \A k \in 1 .. 8 : k # 5 => Pushed(PushaOrder)[k] = regs[PushaOrder[k]]
           /\ Pushed(SegmentOrder) \in Seq(Words) /\ Len(Pushed(SegmentOrder)) = 4
           /\ \A k \in 1 .. 4 : Pushed(SegmentOrder)[k] = regs[SegmentOrder[k]]
  <1>1. /\ Len(PushaOrder) = 8 /\ Len(SegmentOrder) = 4
        /\ PushaOrder[5] = "esp"
        /\ \A k \in 1 .. 8 : k # 5 => PushaOrder[k] \in General /\ PushaOrder[k] # "esp"
        /\ \A k \in 1 .. 4 : SegmentOrder[k] \in Segments /\ SegmentOrder[k] # "esp"
    BY DEF PushaOrder, SegmentOrder, General, Segments
  <1>2. /\ Pushed(PushaOrder) \in [1 .. 8 -> Words]
        /\ \A k \in 1 .. 8 : k # 5 => Pushed(PushaOrder)[k] = regs[PushaOrder[k]]
    BY <1>1 DEF Pushed, Words
  <1>3. /\ Pushed(SegmentOrder) \in [1 .. 4 -> Words]
        /\ \A k \in 1 .. 4 : Pushed(SegmentOrder)[k] = regs[SegmentOrder[k]]
    BY <1>1 DEF Pushed
  <1>. HIDE DEF Pushed
  <1>. QED  BY <1>2, <1>3, WordsAreSeq

-----------------------------------------------------------------------------
(* Steps preserve the invariant.                                           *)

\* A double fault finds the TSS busy, so its task, whose EFLAGS have IF set, is not
\* entered: the processor resets with interrupts as they were.
LEMMA DoubleFaultStep ==
    ASSUME FInv, DoubleFault, pc \in {"run", "isr_page_fault", "handler"},
           UNCHANGED <<tableVars, cr3, mapped>>
    PROVE  FInv'
  <1>0. ~TaskGateWorks
    <2>1. gdt[3] = "busy_tss"
      BY DEF FInv, TableInv
    <2>. QED  BY <2>1 DEF TaskGateWorks
  <1>1. /\ pc' = "reset" /\ cr2' = "guard"
        /\ UNCHANGED <<regs, stack, iflag, idt, gdt, tss_df, cr3, mapped>>
    BY <1>0 DEF DoubleFault, tableVars
  <1>2. FaultsTypeOK' /\ FlagInv'
    BY <1>1 DEF FInv, FaultsTypeOK, FlagInv
  <1>3. TableInv'
    BY <1>1 DEF FInv, TableInv, Setup
  <1>4. FrameInv' /\ ServedInv'
    BY <1>1 DEF FrameInv, ServedInv, InFault
  <1>. QED  BY <1>2, <1>3, <1>4 DEF FInv

\* What the processor pushes for vector 14.
LEMMA PageFaultPush ==
    ASSUME FInv, NEW page, PageFault(page), Fits(4), pc \in {"run", "handler"}
    PROVE  /\ stack' \in Seq(Words) /\ Len(stack') = Len(stack) + 4
           /\ \A k \in 1 .. Len(stack) : stack'[k] = stack[k]
           /\ stack'[Len(stack) + 1] = "IF=0" /\ stack'[Len(stack) + 3] = "eip"
           /\ iflag = "IF=0" /\ iflag' = "IF=0" /\ pc' = "isr_page_fault" /\ cr2' = page
           /\ regs' = regs
  <1>. DEFINE b == <<"IF=0", "0x08", "eip", "error">>
  <1>1. iflag = "IF=0"
    BY DEF FInv, FaultsTypeOK, FlagInv
  <1>2. /\ stack' = stack \o b /\ iflag' = "IF=0" /\ pc' = idt[14] /\ cr2' = page
        /\ regs' = regs
    BY <1>1 DEF PageFault
  <1>3. idt[14] = "isr_page_fault"
    <2>1. idt = [v \in {8, 14} |-> IF v = 8 THEN "task_0x18" ELSE "isr_page_fault"]
      BY DEF FInv, TableInv
    <2>. QED  BY <2>1
  <1>4. b \in Seq(Words) /\ Len(b) = 4 /\ b[1] = "IF=0" /\ b[3] = "eip"
    BY DEF Words
  <1>. HIDE DEF b
  <1>5. stack \in Seq(Words)
    BY DEF FInv, FaultsTypeOK
  <1>6. /\ stack \o b \in Seq(Words) /\ Len(stack \o b) = Len(stack) + Len(b)
        /\ \A k \in 1 .. Len(stack) : (stack \o b)[k] = stack[k]
        /\ \A k \in 1 .. Len(b) : (stack \o b)[Len(stack) + k] = b[k]
    BY <1>4, <1>5, PushEffect
  <1>. QED  BY <1>1, <1>2, <1>3, <1>4, <1>6

\* A fault delivered on the stack in use: type, tables, flag.
LEMMA PageFaultStep ==
    ASSUME FInv, NEW page \in HeapPages \cup {"guard", "other"}, PageFault(page),
           Fits(4), pc \in {"run", "handler"}, UNCHANGED <<tableVars, cr3, mapped>>
    PROVE  FaultsTypeOK' /\ TableInv' /\ FlagInv' /\ ServedInv'
  <1>1. /\ stack' \in Seq(Words) /\ Len(stack') = Len(stack) + 4
        /\ iflag' = "IF=0" /\ pc' = "isr_page_fault" /\ cr2' = page /\ regs' = regs
    BY PageFaultPush
  <1>2. Len(stack') <= STACK_WORDS
    BY <1>1 DEF Fits
  <1>3. UNCHANGED <<idt, gdt, tss_df, cr3, mapped>>
    BY DEF tableVars
  <1>4. FaultsTypeOK'
    BY <1>1, <1>2, <1>3 DEF FInv, FaultsTypeOK
  <1>5. TableInv'
    BY <1>1, <1>3 DEF FInv, TableInv, Setup
  <1>. QED  BY <1>1, <1>4, <1>5 DEF FlagInv, ServedInv

\* The kernel faults: what is interrupted is recorded, and lies under the frame.
LEMMA AccessStep ==
    ASSUME FInv, NEW page \in HeapPages \cup {"guard", "other"}, Access(page)
    PROVE  FInv'
  <1>1. /\ pc = "run" /\ PageFault(page) /\ UNCHANGED <<tableVars, cr3, mapped>>
        /\ interrupted' = <<regs, iflag, stack>>
    BY DEF Access
  <1>2. CASE Fits(4)
    <2>1. FaultsTypeOK' /\ TableInv' /\ FlagInv' /\ ServedInv'
      BY <1>1, <1>2, PageFaultStep
    <2>2. /\ stack' \in Seq(Words) /\ Len(stack') = Len(stack) + 4
          /\ \A k \in 1 .. Len(stack) : stack'[k] = stack[k]
          /\ stack'[Len(stack) + 1] = "IF=0" /\ stack'[Len(stack) + 3] = "eip"
          /\ iflag = "IF=0" /\ pc' = "isr_page_fault" /\ regs' = regs
      BY <1>1, <1>2, PageFaultPush
    <2>3. /\ interrupted' = <<regs, "IF=0", stack>>
          /\ interrupted'[1] = regs /\ interrupted'[3] = stack
      BY <1>1, <2>2
    <2>4. regs \in [General \cup Segments -> Words] /\ stack \in Seq(Words)
      BY DEF FInv, FaultsTypeOK
    <2>5. FrameInv'
      BY <2>2, <2>3, <2>4 DEF FrameInv, FrameShape, FaultFrame
    <2>. QED  BY <2>1, <2>5 DEF FInv
  <1>3. CASE ~Fits(4)
    <2>1. DoubleFault
      BY <1>1, <1>3 DEF PageFault
    <2>. QED  BY <1>1, <2>1, DoubleFaultStep
  <1>. QED  BY <1>2, <1>3

\* What isr_page_fault has pushed when the handler runs.
AfterSave == stack \o Pushed(PushaOrder) \o Pushed(SegmentOrder)
                   \o <<"frame", "return">> \o Locals(HANDLER_WORDS)

\* The registers lie in the order of the pushes above what was there.
LEMMA SavePush ==
    ASSUME stack \in Seq(Words), regs \in [General \cup Segments -> Words]
    PROVE  /\ AfterSave \in Seq(Words) /\ Len(AfterSave) = Len(stack) + 14 + HANDLER_WORDS
           /\ \A k \in 1 .. Len(stack) : AfterSave[k] = stack[k]
           /\ \A k \in 1 .. 8 : k # 5 => AfterSave[Len(stack) + k] = regs[PushaOrder[k]]
           /\ \A k \in 1 .. 4 : AfterSave[Len(stack) + 8 + k] = regs[SegmentOrder[k]]
  <1>. DEFINE p == Pushed(PushaOrder)
              q == Pushed(SegmentOrder)
              c == <<"frame", "return">>
              l == Locals(HANDLER_WORDS)
              s1 == stack \o p
              s2 == s1 \o q
              s3 == s2 \o c
              s4 == s3 \o l
              n == Len(stack)
  <1>0. AfterSave = s4
    BY DEF AfterSave
  <1>1. /\ p \in Seq(Words) /\ Len(p) = 8
        /\ \A k \in 1 .. 8 : k # 5 => p[k] = regs[PushaOrder[k]]
        /\ q \in Seq(Words) /\ Len(q) = 4
        /\ \A k \in 1 .. 4 : q[k] = regs[SegmentOrder[k]]
    BY PushedEffect
  <1>1a. p \in Seq(Words) /\ q \in Seq(Words)
    BY <1>1
  <1>2. c \in Seq(Words) /\ Len(c) = 2
    BY DEF Words
  <1>3. HANDLER_WORDS \in Nat /\ l \in Seq(Words) /\ Len(l) = HANDLER_WORDS
    BY FaultsAssumption, LocalsEffect
  <1>4. n \in Nat
    OBVIOUS
  <1>. HIDE DEF p, q, c, l
  <1>5. /\ s1 \in Seq(Words) /\ Len(s1) = n + Len(p)
        /\ \A k \in 1 .. n : s1[k] = stack[k]
        /\ \A k \in 1 .. Len(p) : s1[n + k] = p[k]
    BY <1>1a, PushEffect, Zenon
  <1>. HIDE DEF s1
  <1>6. /\ s2 \in Seq(Words) /\ Len(s2) = Len(s1) + Len(q)
        /\ \A k \in 1 .. Len(s1) : s2[k] = s1[k]
        /\ \A k \in 1 .. Len(q) : s2[Len(s1) + k] = q[k]
    <2>1. s1 \in Seq(Words)
      BY <1>5
    <2>. QED  BY <1>1a, <2>1, PushEffect, Zenon
  <1>. HIDE DEF s2
  <1>7. /\ s3 \in Seq(Words) /\ Len(s3) = Len(s2) + Len(c)
        /\ \A k \in 1 .. Len(s2) : s3[k] = s2[k]
    <2>1. c \in Seq(Words) /\ s2 \in Seq(Words)
      BY <1>2, <1>6
    <2>. QED  BY <2>1, PushEffect, Zenon
  <1>. HIDE DEF s3
  <1>8. /\ s4 \in Seq(Words) /\ Len(s4) = Len(s3) + Len(l)
        /\ \A k \in 1 .. Len(s3) : s4[k] = s3[k]
    <2>1. l \in Seq(Words) /\ s3 \in Seq(Words)
      BY <1>3, <1>7
    <2>. QED  BY <2>1, PushEffect, Zenon
  <1>. HIDE DEF s4, n
  <1>9. /\ Len(s1) = n + 8 /\ Len(s2) = n + 12 /\ Len(s3) = n + 14
        /\ Len(s4) = n + 14 + HANDLER_WORDS
    BY <1>1, <1>2, <1>3, <1>4, <1>5, <1>6, <1>7, <1>8
  <1>10. \A k \in 1 .. n + 12 : s4[k] = s2[k]
    BY <1>4, <1>7, <1>8, <1>9
  <1>11. \A k \in 1 .. n + 8 : s4[k] = s1[k]
    BY <1>4, <1>6, <1>9, <1>10
  <1>12. \A k \in 1 .. n : s4[k] = stack[k]
    BY <1>4, <1>5, <1>11
  <1>13. ASSUME NEW k \in 1 .. 8, k # 5  PROVE s4[n + k] = regs[PushaOrder[k]]
    <2>1. n + k \in 1 .. n + 8 /\ k \in 1 .. Len(p)
      BY <1>1, <1>4
    <2>2. s4[n + k] = s1[n + k]
      BY <1>11, <2>1
    <2>. QED  BY <1>1, <1>5, <1>13, <2>1, <2>2
  <1>14. ASSUME NEW k \in 1 .. 4  PROVE s4[n + 8 + k] = regs[SegmentOrder[k]]
    <2>1. n + 8 + k \in 1 .. n + 12 /\ k \in 1 .. Len(q)
      BY <1>1, <1>4
    <2>2. s4[n + 8 + k] = s2[n + 8 + k]
      BY <1>10, <2>1
    <2>. QED  BY <1>1, <1>6, <1>9, <2>1, <2>2
  <1>15. s4 \in Seq(Words)
    BY <1>8
  <1>. QED  BY <1>0, <1>9, <1>12, <1>13, <1>14, <1>15 DEF n

\* isr_page_fault saves every register of the interrupted code.
LEMMA SaveStep ==
    ASSUME FInv, IsrSave
    PROVE  FInv'
  <1>1. pc = "isr_page_fault" /\ UNCHANGED <<tableVars, cr3, mapped, interrupted>>
    BY DEF IsrSave
  <1>2. CASE ~Fits(14 + HANDLER_WORDS)
    BY <1>1, <1>2, DoubleFaultStep DEF IsrSave
  <1>3. CASE Fits(14 + HANDLER_WORDS)
    <2>1. /\ stack' = stack \o Pushed(PushaOrder) \o Pushed(SegmentOrder)
                            \o <<"frame", "return">> \o Locals(HANDLER_WORDS)
          /\ regs' = [r \in DOMAIN regs |-> IF r \in Segments THEN "0x10"
                                             ELSE IF r = "eax" THEN "junk" ELSE regs[r]]
          /\ pc' = "handler" /\ iflag' = "IF=0" /\ cr2' = cr2
          /\ UNCHANGED <<idt, gdt, tss_df, cr3, mapped, interrupted>>
      BY <1>1, <1>3 DEF IsrSave, tableVars
    <2>2. stack \in Seq(Words) /\ regs \in [General \cup Segments -> Words] /\ Len(stack) \in Nat
      BY DEF FInv, FaultsTypeOK
    <2>3. /\ stack' \in Seq(Words) /\ Len(stack') = Len(stack) + 14 + HANDLER_WORDS
          /\ \A k \in 1 .. Len(stack) : stack'[k] = stack[k]
          /\ \A k \in 1 .. 8 : k # 5 => stack'[Len(stack) + k] = regs[PushaOrder[k]]
          /\ \A k \in 1 .. 4 : stack'[Len(stack) + 8 + k] = regs[SegmentOrder[k]]
      BY <2>1, <2>2, SavePush DEF AfterSave
    <2>4. FaultsTypeOK'
      <3>1. regs' \in [General \cup Segments -> Words]
        BY <2>1, <2>2 DEF Words
      <3>2. Len(stack') <= STACK_WORDS
        BY <1>3, <2>2, <2>3, FaultsAssumption DEF Fits
      <3>. QED  BY <2>1, <2>3, <3>1, <3>2 DEF FInv, FaultsTypeOK
    <2>5. TableInv' /\ FlagInv' /\ ServedInv'
      BY <1>1, <2>1 DEF FInv, TableInv, FlagInv, ServedInv, Setup
    <2>6. ASSUME cr2 \in HeapPages
          PROVE  FrameShape(interrupted[1], interrupted[3])'
      <3>. DEFINE r == interrupted[1]
                  s == interrupted[3]
      <3>1. /\ s \in Seq(Words) /\ Len(s) \in Nat /\ regs = r
            /\ Len(stack) = Len(s) + 4
            /\ \A k \in 1 .. Len(s) : stack[k] = s[k]
            /\ stack[Len(s) + 1] = "IF=0" /\ stack[Len(s) + 3] = "eip"
        BY <1>1, <2>6 DEF FInv, FrameInv, FrameShape, FaultFrame, InFault
      <3>2. r' = r /\ s' = s
        BY <2>1
      <3>. HIDE DEF r, s
      <3>3. FaultFrame(s, 18 + HANDLER_WORDS)'
        <4>1. Len(stack') = Len(s) + (18 + HANDLER_WORDS)
          BY <2>3, <3>1, FaultsAssumption
        <4>2. \A k \in 1 .. Len(s) : stack'[k] = s[k]
          <5>1. \A k \in 1 .. Len(s) : k \in 1 .. Len(stack)
            BY <3>1
          <5>. QED  BY <2>3, <3>1, <5>1
        <4>3. Len(s) + 1 \in 1 .. Len(stack) /\ Len(s) + 3 \in 1 .. Len(stack)
          BY <3>1
        <4>4. stack'[Len(s) + 1] = "IF=0" /\ stack'[Len(s) + 3] = "eip"
          BY <2>3, <3>1, <4>3
        <4>. QED  BY <3>2, <4>1, <4>2, <4>4 DEF FaultFrame
      <3>4. RegsSaved(r, s)'
        <4>1. /\ stack'[Len(s) + 4 + 1] = r["eax"] /\ stack'[Len(s) + 4 + 2] = r["ecx"]
              /\ stack'[Len(s) + 4 + 3] = r["edx"] /\ stack'[Len(s) + 4 + 4] = r["ebx"]
              /\ stack'[Len(s) + 4 + 6] = r["ebp"] /\ stack'[Len(s) + 4 + 7] = r["esi"]
              /\ stack'[Len(s) + 4 + 8] = r["edi"]
          BY <2>3, <3>1 DEF PushaOrder
        <4>2. /\ stack'[Len(s) + 4 + 8 + 1] = r["ds"] /\ stack'[Len(s) + 4 + 8 + 2] = r["es"]
              /\ stack'[Len(s) + 4 + 8 + 3] = r["fs"] /\ stack'[Len(s) + 4 + 8 + 4] = r["gs"]
          BY <2>3, <3>1 DEF SegmentOrder
        <4>. QED  BY <3>1, <3>2, <4>1, <4>2 DEF RegsSaved
      <3>. QED  BY <2>1, <3>3, <3>4 DEF FrameShape, r, s
    <2>7. FrameInv'
      BY <1>1, <2>1, <2>6 DEF FInv, FrameInv, InFault
    <2>. QED  BY <2>4, <2>5, <2>7 DEF FInv
  <1>. QED  BY <1>2, <1>3

\* The handler returns: its frames are gone, the saved registers are not.
LEMMA MapsStep ==
    ASSUME FInv, HandlerMaps
    PROVE  FInv'
  <1>1. /\ pc = "handler" /\ cr2 \in HeapPages /\ mapped' = mapped \cup {cr2}
        /\ regs' = [r \in DOMAIN regs |->
                      IF r \in {"eax", "ecx", "edx"} THEN "junk" ELSE regs[r]]
        /\ stack' = Drop(HANDLER_WORDS + 1) /\ pc' = "restore"
        /\ UNCHANGED <<idt, gdt, tss_df, cr3, cr2, iflag, interrupted>>
    BY DEF HandlerMaps, tableVars
  <1>. DEFINE r == interrupted[1]
              s == interrupted[3]
  <1>2. /\ s \in Seq(Words) /\ Len(s) \in Nat /\ HANDLER_WORDS \in Nat
        /\ FaultFrame(s, 18 + HANDLER_WORDS) /\ RegsSaved(r, s)
        /\ stack \in Seq(Words) /\ Len(stack) <= STACK_WORDS
    BY <1>1, FaultsAssumption DEF FInv, FrameInv, FrameShape, InFault, FaultsTypeOK
  <1>3. r' = r /\ s' = s
    BY <1>1
  <1>. HIDE DEF r, s
  <1>4. HANDLER_WORDS + 1 \in 0 .. Len(stack) /\ Len(stack) = Len(s) + 18 + HANDLER_WORDS
    BY <1>2 DEF FaultFrame
  <1>5. /\ stack' \in Seq(Words) /\ Len(stack') = Len(s) + 17
        /\ \A k \in 1 .. Len(s) + 17 : stack'[k] = stack[k]
    <2>. DEFINE h == HANDLER_WORDS + 1
    <2>1. h \in 0 .. Len(stack) /\ Len(stack) - h = Len(s) + 17
      BY <1>2, <1>4
    <2>. HIDE DEF h
    <2>2. /\ Drop(h) \in Seq(Words) /\ Len(Drop(h)) = Len(stack) - h
          /\ \A k \in 1 .. Len(stack) - h : Drop(h)[k] = stack[k]
      BY <1>2, <2>1, DropEffect
    <2>3. stack' = Drop(h)
      BY <1>1 DEF h
    <2>. QED  BY <2>1, <2>2, <2>3
  <1>6. FaultFrame(s, 17)'
    <2>1. \A k \in 1 .. Len(s) : stack'[k] = s[k]
      <3>1. \A k \in 1 .. Len(s) : k \in 1 .. Len(s) + 17
        BY <1>2
      <3>. QED  BY <1>2, <1>5, <3>1 DEF FaultFrame
    <2>2. Len(s) + 1 \in 1 .. Len(s) + 17 /\ Len(s) + 3 \in 1 .. Len(s) + 17
      BY <1>2
    <2>3. stack'[Len(s) + 1] = "IF=0" /\ stack'[Len(s) + 3] = "eip"
      BY <1>2, <1>5, <2>2 DEF FaultFrame
    <2>. QED  BY <1>3, <1>5, <2>1, <2>3 DEF FaultFrame
  <1>7. RegsSaved(r, s)'
    <2>1. \A k \in 5 .. 16 : stack'[Len(s) + k] = stack[Len(s) + k]
      <3>1. \A k \in 5 .. 16 : Len(s) + k \in 1 .. Len(s) + 17
        BY <1>2
      <3>. QED  BY <1>5, <3>1
    <2>. QED  BY <1>2, <1>3, <2>1 DEF RegsSaved
  <1>8. FrameInv'
    BY <1>1, <1>6, <1>7 DEF FInv, FrameInv, FrameShape, InFault, r, s
  <1>9. regs' \in [General \cup Segments -> Words] /\ Len(stack') <= STACK_WORDS
    BY <1>1, <1>2, <1>4, <1>5, FaultsAssumption DEF FInv, FaultsTypeOK, Words
  <1>10. FaultsTypeOK'
    BY <1>1, <1>5, <1>9 DEF FInv, FaultsTypeOK
  <1>11. TableInv' /\ FlagInv' /\ ServedInv'
    BY <1>1 DEF FInv, TableInv, FlagInv, ServedInv, Setup
  <1>. QED  BY <1>8, <1>10, <1>11 DEF FInv

\* The pops of isr_page_fault find each register where the push left it.
LEMMA RestoreStep ==
    ASSUME FInv, IsrRestore
    PROVE  FInv'
  <1>. DEFINE r == interrupted[1]
              s == interrupted[3]
  <1>0. /\ pc = "restore" /\ pc' = "sti" /\ stack' = Drop(14)
        /\ UNCHANGED <<idt, gdt, tss_df, cr3, cr2, iflag, mapped, interrupted>>
    BY DEF IsrRestore, tableVars
  <1>1. cr2 \in HeapPages /\ cr2 \in mapped
    BY <1>0 DEF FInv, ServedInv
  <1>2. /\ s \in Seq(Words) /\ Len(s) \in Nat /\ r \in [General \cup Segments -> Words]
        /\ FaultFrame(s, 17) /\ RegsSaved(r, s) /\ interrupted = <<r, "IF=0", s>>
        /\ stack \in Seq(Words) /\ Len(stack) <= STACK_WORDS /\ Len(stack) \in Nat
        /\ DOMAIN regs = General \cup Segments
    BY <1>0, <1>1 DEF FInv, FrameInv, FrameShape, InFault, FaultsTypeOK
  <1>3. r' = r /\ s' = s
    BY <1>0
  <1>. HIDE DEF r, s
  <1>4. Len(stack) = Len(s) + 17
    BY <1>2 DEF FaultFrame
  <1>5. \A k \in 1 .. 12 : stack[Len(stack) - k] = stack[Len(s) + (17 - k)]
    <2>1. \A k \in 1 .. 12 : Len(stack) - k = Len(s) + (17 - k)
      BY <1>2, <1>4
    <2>. QED  BY <2>1
  <1>6. /\ stack[Len(stack) - 1] = r["gs"] /\ stack[Len(stack) - 2] = r["fs"]
        /\ stack[Len(stack) - 3] = r["es"] /\ stack[Len(stack) - 4] = r["ds"]
        /\ stack[Len(stack) - 5] = r["edi"] /\ stack[Len(stack) - 6] = r["esi"]
        /\ stack[Len(stack) - 7] = r["ebp"] /\ stack[Len(stack) - 9] = r["ebx"]
        /\ stack[Len(stack) - 10] = r["edx"] /\ stack[Len(stack) - 11] = r["ecx"]
        /\ stack[Len(stack) - 12] = r["eax"]
    BY <1>2, <1>5 DEF RegsSaved
  <1>7. regs' = r
    <2>. DEFINE at(k) == stack[Len(stack) - k]
                popped(x) ==
                  CASE x = "gs" -> at(1) [] x = "fs" -> at(2) [] x = "es" -> at(3)
                    [] x = "ds" -> at(4) [] x = "edi" -> at(5) [] x = "esi" -> at(6)
                    [] x = "ebp" -> at(7) [] x = "ebx" -> at(9) [] x = "edx" -> at(10)
                    [] x = "ecx" -> at(11) [] x = "eax" -> at(12)
    <2>1. regs' = [x \in General \cup Segments |-> popped(x)]
      BY <1>2 DEF IsrRestore
    <2>2. \A x \in General \cup Segments : popped(x) = r[x]
      BY <1>6 DEF General, Segments
    <2>. HIDE DEF popped
    <2>3. r = [x \in General \cup Segments |-> r[x]]
      BY <1>2
    <2>. QED  BY <2>1, <2>2, <2>3
  <1>8. /\ stack' \in Seq(Words) /\ Len(stack') = Len(s) + 3
        /\ \A k \in 1 .. Len(s) + 3 : stack'[k] = stack[k]
    <2>1. 14 \in 0 .. Len(stack) /\ Len(stack) - 14 = Len(s) + 3
      BY <1>2, <1>4
    <2>2. /\ Drop(14) \in Seq(Words) /\ Len(Drop(14)) = Len(stack) - 14
          /\ \A k \in 1 .. Len(stack) - 14 : Drop(14)[k] = stack[k]
      BY <1>2, <2>1, DropEffect
    <2>. QED  BY <1>0, <2>1, <2>2
  <1>9. FaultFrame(s, 3)'
    <2>1. \A k \in 1 .. Len(s) : stack'[k] = s[k]
      <3>1. \A k \in 1 .. Len(s) : k \in 1 .. Len(s) + 3
        BY <1>2
      <3>. QED  BY <1>2, <1>8, <3>1 DEF FaultFrame
    <2>2. Len(s) + 1 \in 1 .. Len(s) + 3 /\ Len(s) + 3 \in 1 .. Len(s) + 3
      BY <1>2
    <2>3. stack'[Len(s) + 1] = "IF=0" /\ stack'[Len(s) + 3] = "eip"
      BY <1>2, <1>8, <2>2 DEF FaultFrame
    <2>. QED  BY <1>3, <1>8, <2>1, <2>3 DEF FaultFrame
  <1>10. FrameInv'
    BY <1>0, <1>2, <1>3, <1>7, <1>9 DEF FrameInv, FrameShape, InFault, r, s
  <1>11. FaultsTypeOK'
    <2>1. Len(stack') <= STACK_WORDS
      BY <1>2, <1>4, <1>8, FaultsAssumption
    <2>. QED  BY <1>0, <1>2, <1>7, <1>8, <2>1 DEF FInv, FaultsTypeOK
  <1>12. TableInv' /\ FlagInv' /\ ServedInv'
    BY <1>0, <1>1 DEF FInv, TableInv, FlagInv, ServedInv, Setup
  <1>. QED  BY <1>10, <1>11, <1>12 DEF FInv

\* iret takes back exactly what the processor pushed.
LEMMA IretEffect ==
    ASSUME FInv, Iret
    PROVE  /\ <<regs', iflag', stack'>> = interrupted
           /\ iflag' = "IF=0" /\ stack' \in Seq(Words) /\ Len(stack') <= STACK_WORDS
  <1>. DEFINE r == interrupted[1]
              s == interrupted[3]
  <1>0. /\ pc = "iret" /\ stack' = Drop(3) /\ iflag' = stack[Len(stack) - 2] /\ regs' = regs
    BY DEF Iret
  <1>1. cr2 \in HeapPages
    BY <1>0 DEF FInv, ServedInv
  <1>2. /\ s \in Seq(Words) /\ Len(s) \in Nat /\ regs = r
        /\ FaultFrame(s, 3) /\ interrupted = <<r, "IF=0", s>>
        /\ stack \in Seq(Words) /\ Len(stack) <= STACK_WORDS /\ Len(stack) \in Nat
    BY <1>0, <1>1 DEF FInv, FrameInv, FrameShape, InFault, FaultsTypeOK
  <1>. HIDE DEF r, s
  <1>3. Len(stack) = Len(s) + 3 /\ Len(stack) - 2 = Len(s) + 1 /\ 3 \in 0 .. Len(stack)
        /\ Len(stack) - 3 = Len(s)
    BY <1>2 DEF FaultFrame
  <1>4. iflag' = "IF=0"
    BY <1>0, <1>2, <1>3 DEF FaultFrame
  <1>5. /\ Drop(3) \in Seq(Words) /\ Len(Drop(3)) = Len(stack) - 3
        /\ \A k \in 1 .. Len(stack) - 3 : Drop(3)[k] = stack[k]
    BY <1>2, <1>3, DropEffect
  <1>6. Drop(3) = s
    <2>1. Len(Drop(3)) = Len(s) /\ \A k \in 1 .. Len(Drop(3)) : Drop(3)[k] = s[k]
      BY <1>2, <1>3, <1>5 DEF FaultFrame
    <2>. QED  BY <1>2, <1>5, <2>1, SeqEqual
  <1>7. Len(s) <= STACK_WORDS
    BY <1>2, <1>3, FaultsAssumption
  <1>. QED  BY <1>0, <1>2, <1>4, <1>6, <1>7

\* The invariant holds when kernel_main starts, and after a reset.
LEMMA FInit == Init => FInv
  <1>. SUFFICES ASSUME Init  PROVE FInv
    OBVIOUS
  <1>1. << >> \in Seq(Words) /\ Len(<< >>) = 0
    BY EmptySeq
  <1>2. KernelRegs \in [General \cup Segments -> Words]
    BY DEF KernelRegs, Words, General, Segments
  <1>3. LoaderGdt \in [DOMAIN LoaderGdt -> Descriptor]
    BY DEF LoaderGdt, Descriptor
  <1>4. idt \in [DOMAIN idt -> Gate]
    BY DEF Init
  <1>5. FaultsTypeOK
    BY <1>1, <1>2, <1>3, <1>4, FaultsAssumption DEF Init, FaultsTypeOK, NoTask, Task
  <1>. QED  BY <1>5 DEF Init, FInv, TableInv, FlagInv, FrameInv, ServedInv, Setup, InFault

\* Every step of the setup, the kernel, the stub and the handler keeps it.
LEMMA FStep == FInv /\ [Next]_vars => FInv'
  <1>. SUFFICES ASSUME FInv, [Next]_vars  PROVE FInv'
    OBVIOUS
  <1>. USE DEF FInv, tableVars, cpuVars
  <1>1. CASE idt_init
    <2>1. /\ pc' = "init_tss"
          /\ idt' = [v \in {8, 14} |-> IF v = 8 THEN "task_0x18" ELSE "isr_page_fault"]
          /\ UNCHANGED <<gdt, tss_df, cr3, cr2, regs, iflag, stack, mapped, interrupted>>
          /\ pc = "idt_init"
      BY <1>1 DEF idt_init
    <2>2. idt' \in [DOMAIN idt' -> Gate]
      BY <2>1 DEF Gate
    <2>3. FaultsTypeOK'
      BY <2>1, <2>2 DEF FaultsTypeOK
    <2>. QED  BY <2>1, <2>3 DEF TableInv, FlagInv, FrameInv, ServedInv, Setup, InFault
  <1>2. CASE init_tss
    BY <1>2 DEF init_tss, FaultsTypeOK, Task, TableInv, FlagInv, FrameInv, ServedInv, Setup, InFault
  <1>3. CASE gdt_init
    <2>1. /\ pc' = "paging_init" /\ pc = "gdt_init"
          /\ gdt' = [k \in 0 .. 3 |-> IF k = 3 THEN "busy_tss" ELSE "flat"]
          /\ UNCHANGED <<idt, tss_df, cr3, cr2, regs, iflag, stack, mapped, interrupted>>
      BY <1>3 DEF gdt_init
    <2>2. gdt' \in [DOMAIN gdt' -> Descriptor] /\ 3 \in DOMAIN gdt' /\ gdt'[3] = "busy_tss"
      BY <2>1 DEF Descriptor
    <2>3. FaultsTypeOK'
      BY <2>1, <2>2 DEF FaultsTypeOK
    <2>. QED  BY <2>1, <2>2, <2>3 DEF TableInv, FlagInv, FrameInv, ServedInv, Setup, InFault
  <1>4. CASE paging_init
    BY <1>4 DEF paging_init, FaultsTypeOK, TableInv, FlagInv, FrameInv, ServedInv, Setup, InFault
  <1>5. CASE update_tss_cr3
    BY <1>5 DEF update_tss_cr3, FaultsTypeOK, Task, TableInv, FlagInv, FrameInv, ServedInv,
         Setup, InFault
  <1>6. ASSUME pc = "run", pc' = "run", stack' \in Seq(Words), Len(stack') <= STACK_WORDS,
               UNCHANGED <<tableVars, cr3, cr2, regs, iflag, mapped, interrupted>>
        PROVE  FInv'
    BY <1>6 DEF FaultsTypeOK, TableInv, FlagInv, FrameInv, ServedInv, Setup, InFault
  <1>7. ASSUME NEW n \in Frames, Call(n)  PROVE FInv'
    <2>1. /\ pc = "run" /\ pc' = "run" /\ Fits(n) /\ stack' = stack \o Locals(n)
          /\ UNCHANGED <<tableVars, cr3, cr2, regs, iflag, mapped, interrupted>>
      BY <1>7 DEF Call
    <2>2. n \in Nat /\ stack \in Seq(Words)
      BY FaultsAssumption DEF FaultsTypeOK
    <2>3. Locals(n) \in Seq(Words) /\ Len(Locals(n)) = n
      BY <2>2, LocalsEffect
    <2>4. stack \o Locals(n) \in Seq(Words) /\ Len(stack \o Locals(n)) = Len(stack) + Len(Locals(n))
      BY <2>2, <2>3, PushEffect
    <2>5. Len(stack') <= STACK_WORDS /\ stack' \in Seq(Words)
      BY <2>1, <2>3, <2>4 DEF Fits
    <2>. QED  BY <1>6, <2>1, <2>5
  <1>8. ASSUME NEW n \in Frames, CallOverflows(n)  PROVE FInv'
    BY <1>8, DoubleFaultStep DEF CallOverflows
  <1>9. ASSUME NEW n \in Frames, Return(n)  PROVE FInv'
    <2>1. /\ pc = "run" /\ pc' = "run" /\ n <= Len(stack) /\ stack' = Drop(n)
          /\ UNCHANGED <<tableVars, cr3, cr2, regs, iflag, mapped, interrupted>>
      BY <1>9 DEF Return
    <2>2. n \in 0 .. Len(stack) /\ n \in Nat /\ stack \in Seq(Words) /\ Len(stack) \in Nat
          /\ Len(stack) <= STACK_WORDS /\ STACK_WORDS \in Nat
      BY <2>1, FaultsAssumption DEF FaultsTypeOK
    <2>3. Drop(n) \in Seq(Words) /\ Len(Drop(n)) = Len(stack) - n
      BY <2>2, DropEffect
    <2>4. stack' \in Seq(Words) /\ Len(stack') <= STACK_WORDS
      BY <2>1, <2>2, <2>3
    <2>. QED  BY <1>6, <2>1, <2>4
  <1>10. ASSUME NEW page \in HeapPages \cup {"guard", "other"}, Access(page)  PROVE FInv'
    BY <1>10, AccessStep
  <1>11. CASE IsrSave
    BY <1>11, SaveStep
  <1>12. CASE HandlerMaps
    BY <1>12, MapsStep
  <1>13. CASE HandlerFaults
    <2>1. pc = "handler" /\ PageFault("other") /\ UNCHANGED <<tableVars, cr3, mapped>>
      BY <1>13 DEF HandlerFaults
    <2>2. CASE Fits(4)
      <3>1. FaultsTypeOK' /\ TableInv' /\ FlagInv' /\ ServedInv'
        BY <2>1, <2>2, PageFaultStep
      <3>2. cr2' = "other" /\ "other" \notin HeapPages
        BY <2>1, <2>2, PageFaultPush, FaultsAssumption
      <3>. QED  BY <3>1, <3>2 DEF FrameInv
    <2>3. CASE ~Fits(4)
      BY <2>1, <2>3, DoubleFaultStep DEF PageFault
    <2>. QED  BY <2>2, <2>3
  <1>14. CASE HandlerPaniks
    BY <1>14 DEF HandlerPaniks, FaultsTypeOK, TableInv, FlagInv, FrameInv, ServedInv, Setup, InFault
  <1>15. CASE HandlerHalts
    <2>1. "low" \in mapped
      BY <1>15 DEF HandlerHalts, TableInv
    <2>2. pc = "handler" /\ pc' = "halt" /\ UNCHANGED <<cr2, cpuVars, tableVars, cr3, mapped, interrupted>>
      BY <1>15, <2>1 DEF HandlerHalts, GuardWriteFaults
    <2>. QED  BY <2>2 DEF FaultsTypeOK, TableInv, FlagInv, FrameInv, ServedInv, Setup, InFault
  <1>16. CASE IsrRestore
    BY <1>16, RestoreStep
  <1>17. CASE Sti
    <2>1. /\ pc = "sti" /\ pc' = "iret" /\ iflag' = "IF=1"
          /\ UNCHANGED <<idt, gdt, tss_df, cr3, cr2, regs, stack, mapped, interrupted>>
      BY <1>17 DEF Sti
    <2>2. FrameInv'
      BY <2>1 DEF FrameInv, FrameShape, FaultFrame, InFault
    <2>. QED  BY <2>1, <2>2 DEF FaultsTypeOK, TableInv, FlagInv, ServedInv, Setup
  <1>18. CASE Iret
    <2>1. /\ pc = "iret" /\ pc' = "run"
          /\ UNCHANGED <<idt, gdt, tss_df, cr3, cr2, regs, mapped>>
      BY <1>18 DEF Iret
    <2>2. iflag' = "IF=0" /\ stack' \in Seq(Words) /\ Len(stack') <= STACK_WORDS
      BY <1>18, IretEffect
    <2>. QED  BY <2>1, <2>2 DEF FaultsTypeOK, TableInv, FlagInv, FrameInv, ServedInv, Setup, InFault
  <1>19. CASE Reset
    <2>1. (Init => FInv)'
      BY FInit, PTL
    <2>. QED  BY <1>19, <2>1 DEF Reset, Init
  <1>20. CASE UNCHANGED vars
    <2>1. UNCHANGED <<pc, idt, gdt, tss_df, cr3, cr2, regs, iflag, stack, mapped, interrupted>>
      BY <1>20 DEF vars
    <2>2. FrameInv'
      BY <2>1 DEF FrameInv, FrameShape, FaultFrame, RegsSaved, InFault
    <2>. QED  BY <2>1, <2>2 DEF FaultsTypeOK, TableInv, FlagInv, ServedInv, Setup
  <1>. QED  BY <1>1, <1>2, <1>3, <1>4, <1>5, <1>7, <1>8, <1>9, <1>10, <1>11, <1>12, <1>13,
               <1>14, <1>15, <1>16, <1>17, <1>18, <1>19, <1>20 DEF Next, Halted

-----------------------------------------------------------------------------
(* The theorems.                                                           *)

\* The invariant holds throughout.
THEOREM FInvHolds == Spec => []FInv
  BY FInit, FStep, PTL DEF Spec

\* For every stack size and depth of calls, no word is ever pushed into the guard
\* page, and the registers and tables stay in their domains.
THEOREM FaultsTypeCorrect == Spec => []FaultsTypeOK
  <1>1. FInv => FaultsTypeOK
    BY DEF FInv
  <1>. QED  BY <1>1, FInvHolds, PTL

\* Neither the sti of isr_page_fault nor the EFLAGS of the TSS ever opens a window
\* for an interrupt.
THEOREM InterruptsStayOff == Spec => []NoInterruptWindow
  <1>1. FInv => NoInterruptWindow
    BY DEF FInv, FlagInv, NoInterruptWindow
  <1>. QED  BY <1>1, FInvHolds, PTL

\* Once the stack is in use the TSS has the handler and the page directory in
\* use, although init_tss runs before there is one.
THEOREM TaskReady == Spec => []DoubleFaultTaskReady
  <1>1. FInv => DoubleFaultTaskReady
    <2>. SUFFICES ASSUME FInv, pc \notin Setup
                  PROVE  /\ tss_df.eip = "double_fault_handler" /\ tss_df.cr3 = cr3
                         /\ idt[8] = "task_0x18" /\ 3 \in DOMAIN gdt
      BY DEF DoubleFaultTaskReady, Setup
    <2>1. tss_df.eip = "double_fault_handler" /\ tss_df.cr3 = cr3
      BY DEF FInv, TableInv, Setup
    <2>2. idt[8] = "task_0x18" /\ 3 \in DOMAIN gdt
      BY DEF FInv, TableInv, Setup
    <2>. QED  BY <2>1, <2>2
  <1>. QED  BY <1>1, FInvHolds, PTL

\* For every stack content, handler frame and heap, isr_page_fault returns with
\* every register, the flag and the stack of the interrupted code.
THEOREM FaultsAreInvisible == Spec => ResumesExactly
  <1>. DEFINE A == pc = "iret" => <<regs', iflag', stack'>> = interrupted
  <1>1. FInv /\ [Next]_vars => [A]_vars
    <2>. SUFFICES ASSUME FInv, Next, pc = "iret"
                  PROVE  <<regs', iflag', stack'>> = interrupted
      OBVIOUS
    <2>1. Iret
      BY DEF Next, idt_init, init_tss, gdt_init, paging_init, update_tss_cr3, Call,
           CallOverflows, Return, Access, IsrSave, HandlerMaps, HandlerFaults, HandlerPaniks,
           HandlerHalts, IsrRestore, Sti, Reset, Halted
    <2>. QED  BY <2>1, IretEffect
  <1>. QED  BY <1>1, FInvHolds, PTL DEF Spec, ResumesExactly

\* isr_page_fault returns only from a fault on a heap page that is now mapped.
THEOREM OnlyServedResume == Spec => ResumesOnlyServed
  <1>. DEFINE A == pc = "iret" => cr2 \in HeapPages \cap mapped
  <1>1. FInv /\ [Next]_vars => [A]_vars
    BY DEF FInv, ServedInv
  <1>. QED  BY <1>1, FInvHolds, PTL DEF Spec, ResumesOnlyServed

=============================================================================
