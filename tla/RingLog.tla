------------------------------ MODULE RingLog ------------------------------
(***************************************************************************)
(* The circular log buffer of printk.c.  rb_head is where the next byte    *)
(* goes, rb_tail where the oldest byte is; equal, the buffer is empty, so  *)
(* that one slot is never used.                                            *)
(***************************************************************************)
EXTENDS Integers, Sequences

CONSTANTS LOG_BUF_SIZE, Char

\* log_buffer is in .bss: it starts as NUL bytes.
NUL == "NUL"

ASSUME RingAssumption == LOG_BUF_SIZE \in Nat /\ LOG_BUF_SIZE >= 2

VARIABLES log_buffer, rb_head, rb_tail

ringVars == <<log_buffer, rb_head, rb_tail>>

Slots == 0 .. LOG_BUF_SIZE - 1

\* printk_init, the first call of kernel_main, has reset the indices.
RingInit ==
    /\ log_buffer = [i \in Slots |-> NUL]
    /\ rb_head = 0 /\ rb_tail = 0

\* Mutant: the wrap of the head is off by one.
MutantWrap(ch) ==
    /\ log_buffer' = [log_buffer EXCEPT ![rb_head] = ch]
    /\ rb_head' = IF rb_head + 1 > LOG_BUF_SIZE THEN 0 ELSE rb_head + 1
    /\ rb_tail' = IF rb_head' = rb_tail THEN (rb_tail + 1) % LOG_BUF_SIZE ELSE rb_tail

\* Mutant: the tail is not pushed on when the buffer is full.
MutantFull(ch) ==
    /\ log_buffer' = [log_buffer EXCEPT ![rb_head] = ch]
    /\ rb_head' = (rb_head + 1) % LOG_BUF_SIZE
    /\ UNCHANGED rb_tail

ringbuf_putc(ch) ==
    /\ log_buffer' = [log_buffer EXCEPT ![rb_head] = ch]
    /\ rb_head' = (rb_head + 1) % LOG_BUF_SIZE
    /\ rb_tail' = IF rb_head' = rb_tail THEN (rb_tail + 1) % LOG_BUF_SIZE ELSE rb_tail

RingNext == \E ch \in Char : ringbuf_putc(ch)

RingSpec == RingInit /\ [][RingNext]_ringVars

\* What a reader of the log sees, oldest byte first.
Held == (rb_head - rb_tail) % LOG_BUF_SIZE
Contents == [i \in 1 .. Held |-> log_buffer[(rb_tail + i - 1) % LOG_BUF_SIZE]]

-----------------------------------------------------------------------------
\* The indices stay inside the buffer.
RingTypeOK ==
    /\ log_buffer \in [Slots -> Char \cup {NUL}]
    /\ rb_head \in Slots /\ rb_tail \in Slots

\* The ring keeps the most recent LOG_BUF_SIZE - 1 bytes: a full message of
\* my_vsnprintf, which leaves a byte for its terminator, just fits.
BL == INSTANCE BoundedLog WITH Capacity <- LOG_BUF_SIZE - 1, kept <- Contents
ImplementsBoundedLog == BL!Spec

=============================================================================
