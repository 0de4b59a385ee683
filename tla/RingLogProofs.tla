--------------------------- MODULE RingLogProofs ---------------------------
(***************************************************************************)
(* The ring buffer implements the bounded log, for every buffer size.      *)
(***************************************************************************)
EXTENDS RingLog, TLAPS

\* One modulo is one conditional subtraction: makes the rest linear.
LEMMA WrapOnce ==
    ASSUME NEW n \in Nat, n >= 1, NEW a \in 0 .. 2 * n - 1
    PROVE  a % n = IF a < n THEN a ELSE a - n
  OBVIOUS

\* The same below zero.
LEMMA WrapNegative ==
    ASSUME NEW n \in Nat, n >= 1, NEW a \in -n .. -1
    PROVE  a % n = a + n
  OBVIOUS

\* Incrementing an index of the buffer.
LEMMA Advance ==
    ASSUME NEW i \in Slots
    PROVE  (i + 1) % LOG_BUF_SIZE = IF i + 1 = LOG_BUF_SIZE THEN 0 ELSE i + 1
  <1>. DEFINE a == i + 1
  <1>1. LOG_BUF_SIZE \in Nat /\ LOG_BUF_SIZE >= 1 /\ i \in 0 .. LOG_BUF_SIZE - 1
    BY RingAssumption DEF Slots
  <1>2. a \in 0 .. 2 * LOG_BUF_SIZE - 1
    BY <1>1
  <1>3. a % LOG_BUF_SIZE = IF a < LOG_BUF_SIZE THEN a ELSE a - LOG_BUF_SIZE
    <2>. HIDE DEF a
    <2>. QED  BY <1>1, <1>2, WrapOnce
  <1>. QED  BY <1>1, <1>3

\* The distance from the tail to the head, without modulo.
LEMMA Distance ==
    ASSUME NEW h \in Slots, NEW t \in Slots
    PROVE  (h - t) % LOG_BUF_SIZE = IF h >= t THEN h - t ELSE h - t + LOG_BUF_SIZE
  <1>. DEFINE a == h - t
  <1>1. /\ LOG_BUF_SIZE \in Nat /\ LOG_BUF_SIZE >= 1
        /\ h \in 0 .. LOG_BUF_SIZE - 1 /\ t \in 0 .. LOG_BUF_SIZE - 1
    BY RingAssumption DEF Slots
  <1>2. CASE h >= t
    <2>1. a \in 0 .. 2 * LOG_BUF_SIZE - 1 /\ a < LOG_BUF_SIZE
      BY <1>1, <1>2
    <2>2. a % LOG_BUF_SIZE = a
      <3>. HIDE DEF a
      <3>. QED  BY <1>1, <2>1, WrapOnce
    <2>. QED  BY <1>2, <2>2
  <1>3. CASE h < t
    <2>1. a \in -LOG_BUF_SIZE .. -1
      BY <1>1, <1>3
    <2>2. a % LOG_BUF_SIZE = a + LOG_BUF_SIZE
      <3>. HIDE DEF a
      <3>. QED  BY <1>1, <2>1, WrapNegative
    <2>. QED  BY <1>1, <1>3, <2>2
  <1>. QED  BY <1>1, <1>2, <1>3

\* The slot of the i-th byte, without modulo.
LEMMA SlotValue ==
    ASSUME NEW t \in Slots, NEW i \in 1 .. LOG_BUF_SIZE
    PROVE  (t + i - 1) % LOG_BUF_SIZE =
             IF t + i - 1 < LOG_BUF_SIZE THEN t + i - 1 ELSE t + i - 1 - LOG_BUF_SIZE
  <1>. DEFINE a == t + i - 1
  <1>1. LOG_BUF_SIZE \in Nat /\ LOG_BUF_SIZE >= 1
    BY RingAssumption
  <1>2. a \in 0 .. 2 * LOG_BUF_SIZE - 1
    BY <1>1 DEF Slots
  <1>3. a % LOG_BUF_SIZE = IF a < LOG_BUF_SIZE THEN a ELSE a - LOG_BUF_SIZE
    <2>. HIDE DEF a
    <2>. QED  BY <1>1, <1>2, WrapOnce
  <1>. QED  BY <1>1, <1>2, <1>3 DEF Slots

\* Reading a ring gives a sequence of fewer than LOG_BUF_SIZE bytes.
LEMMA ReadType ==
    ASSUME NEW buf \in [Slots -> Char \cup {NUL}], NEW t \in Slots,
           NEW n \in 0 .. LOG_BUF_SIZE - 1
    PROVE  LET c == [i \in 1 .. n |-> buf[(t + i - 1) % LOG_BUF_SIZE]]
           IN  c \in Seq(Char \cup {NUL}) /\ Len(c) = n
  <1>1. ASSUME NEW i \in 1 .. n
        PROVE  buf[(t + i - 1) % LOG_BUF_SIZE] \in Char \cup {NUL}
    <2>1. i \in 1 .. LOG_BUF_SIZE
      BY RingAssumption
    <2>2. (t + i - 1) % LOG_BUF_SIZE \in Slots
      BY <2>1, SlotValue, RingAssumption DEF Slots
    <2>. QED  BY <2>2
  <1>2. n \in Nat
    BY RingAssumption
  <1>. QED  BY <1>1, <1>2

\* The number of bytes held.
LEMMA HeldValue ==
    RingTypeOK =>
      Held = IF rb_head >= rb_tail THEN rb_head - rb_tail
             ELSE rb_head - rb_tail + LOG_BUF_SIZE
  BY Distance DEF RingTypeOK, Held

\* The number of bytes held after a step.
LEMMA HeldValueNext ==
    RingTypeOK' =>
      Held' = IF rb_head' >= rb_tail' THEN rb_head' - rb_tail'
              ELSE rb_head' - rb_tail' + LOG_BUF_SIZE
  BY Distance DEF RingTypeOK, Held

\* The contents are a sequence of Held < LOG_BUF_SIZE bytes.
LEMMA ContentsType ==
    RingTypeOK => /\ Held \in 0 .. LOG_BUF_SIZE - 1
                  /\ Contents \in Seq(Char \cup {NUL})
                  /\ Len(Contents) = Held
  <1>. SUFFICES ASSUME RingTypeOK
                PROVE  /\ Held \in 0 .. LOG_BUF_SIZE - 1
                       /\ Contents \in Seq(Char \cup {NUL})
                       /\ Len(Contents) = Held
    OBVIOUS
  <1>1. Held \in 0 .. LOG_BUF_SIZE - 1
    BY HeldValue, RingAssumption DEF RingTypeOK, Slots
  <1>. QED  BY <1>1, ReadType DEF RingTypeOK, Contents

\* The same after a step.
LEMMA ContentsTypeNext ==
    RingTypeOK' => /\ Held' \in 0 .. LOG_BUF_SIZE - 1
                   /\ Contents' \in Seq(Char \cup {NUL})
                   /\ Len(Contents') = Held'
  <1>. SUFFICES ASSUME RingTypeOK'
                PROVE  /\ Held' \in 0 .. LOG_BUF_SIZE - 1
                       /\ Contents' \in Seq(Char \cup {NUL})
                       /\ Len(Contents') = Held'
    OBVIOUS
  <1>1. Held' \in 0 .. LOG_BUF_SIZE - 1
    BY HeldValueNext, RingAssumption DEF RingTypeOK, Slots
  <1>. QED  BY <1>1, ReadType DEF RingTypeOK, Contents

\* The indices stay in the buffer whatever is written.
LEMMA RingTypeStep ==
    ASSUME RingTypeOK, [RingNext]_ringVars
    PROVE  RingTypeOK'
  <1>. USE RingAssumption DEF RingTypeOK
  <1>1. ASSUME NEW ch \in Char, ringbuf_putc(ch)
        PROVE  RingTypeOK'
    <2>1. (rb_head + 1) % LOG_BUF_SIZE \in Slots /\ (rb_tail + 1) % LOG_BUF_SIZE \in Slots
      BY Advance DEF Slots
    <2>. QED  BY <1>1, <2>1 DEF ringbuf_putc
  <1>2. CASE UNCHANGED ringVars
    BY <1>2 DEF ringVars
  <1>. QED  BY <1>1, <1>2 DEF RingNext

\* A byte written when there is room is appended.
LEMMA PutWithRoom ==
    ASSUME RingTypeOK, RingTypeOK', NEW ch \in Char, ringbuf_putc(ch),
           rb_head' # rb_tail
    PROVE  Len(Contents) < LOG_BUF_SIZE - 1 /\ Contents' = Append(Contents, ch)
  <1>. DEFINE N == LOG_BUF_SIZE  h == rb_head  t == rb_tail
  <1>1. /\ N \in Nat /\ N >= 2 /\ h \in 0 .. N - 1 /\ t \in 0 .. N - 1
        /\ h' = IF h + 1 = N THEN 0 ELSE h + 1
        /\ t' = t /\ h' # t
        /\ log_buffer' = [log_buffer EXCEPT ![h] = ch]
    BY RingAssumption, Advance DEF RingTypeOK, ringbuf_putc, Slots
  <1>2. Held = IF h >= t THEN h - t ELSE h - t + N
    BY HeldValue
  <1>3. Held' = IF h' >= t THEN h' - t ELSE h' - t + N
    BY HeldValueNext, <1>1
  <1>4. Held < N - 1 /\ Held' = Held + 1 /\ Held \in Nat
    BY <1>1, <1>2, <1>3
  <1>5. ASSUME NEW i \in 1 .. Held'
        PROVE  Contents'[i] = Append(Contents, ch)[i]
    <2>0. i \in 1 .. N /\ (i \in 1 .. Held \/ i = Held + 1)
      BY <1>1, <1>4
    <2>1. Contents'[i] = log_buffer'[(t + i - 1) % N]
      BY <1>1 DEF Contents
    <2>2. (t + i - 1) % N = IF t + i - 1 < N THEN t + i - 1 ELSE t + i - 1 - N
      BY <1>1, <2>0, SlotValue DEF Slots
    <2>3. CASE i = Held + 1
      <3>1. (t + i - 1) % N = h
        BY <1>1, <1>2, <2>2, <2>3
      <3>2. log_buffer'[h] = ch
        BY <1>1 DEF RingTypeOK, Slots
      <3>3. Append(Contents, ch)[i] = ch
        BY <2>3, ContentsType
      <3>. QED  BY <2>1, <3>1, <3>2, <3>3
    <2>4. CASE i \in 1 .. Held
      <3>1. (t + i - 1) % N # h /\ (t + i - 1) % N \in 0 .. N - 1
        BY <1>1, <1>2, <2>2, <2>4
      <3>2. log_buffer'[(t + i - 1) % N] = log_buffer[(t + i - 1) % N]
        BY <1>1, <3>1 DEF RingTypeOK, Slots
      <3>3. Append(Contents, ch)[i] = Contents[i]
        BY <2>4, ContentsType
      <3>4. Contents[i] = log_buffer[(t + i - 1) % N]
        BY <2>4 DEF Contents
      <3>. QED  BY <2>1, <3>2, <3>3, <3>4
    <2>. QED  BY <2>0, <2>3, <2>4
  <1>6. /\ Contents' \in Seq(Char \cup {NUL}) /\ Len(Contents') = Held'
        /\ Contents \in Seq(Char \cup {NUL}) /\ Len(Contents) = Held
    BY ContentsType, ContentsTypeNext
  <1>7. Append(Contents, ch) \in Seq(Char \cup {NUL}) /\ Len(Append(Contents, ch)) = Held'
    BY <1>4, <1>6
  <1>. QED  BY <1>1, <1>4, <1>5, <1>6, <1>7

\* A byte written to a full ring displaces the oldest.
LEMMA PutWhenFull ==
    ASSUME RingTypeOK, RingTypeOK', NEW ch \in Char, ringbuf_putc(ch),
           rb_head' = rb_tail
    PROVE  /\ Len(Contents) = LOG_BUF_SIZE - 1
           /\ Contents' = Append(Tail(Contents), ch)
  <1>. DEFINE N == LOG_BUF_SIZE  h == rb_head  t == rb_tail
  <1>1. /\ N \in Nat /\ N >= 2 /\ h \in 0 .. N - 1 /\ t \in 0 .. N - 1
        /\ t = IF h + 1 = N THEN 0 ELSE h + 1
        /\ t' = IF t + 1 = N THEN 0 ELSE t + 1
        /\ h' = t
        /\ log_buffer' = [log_buffer EXCEPT ![h] = ch]
    BY RingAssumption, Advance DEF RingTypeOK, ringbuf_putc, Slots
  <1>2. Held = IF h >= t THEN h - t ELSE h - t + N
    BY HeldValue
  <1>3. Held' = IF h' >= t' THEN h' - t' ELSE h' - t' + N
    BY HeldValueNext
  <1>a. /\ N \in Int /\ N >= 2 /\ h \in Int /\ t \in Int /\ h' \in Int /\ t' \in Int
        /\ 0 <= h /\ h < N /\ 0 <= t /\ t < N
        /\ \/ h = N - 1 /\ t = 0 /\ t' = 1
           \/ h < N - 1 /\ t = h + 1 /\ t = N - 1 /\ t' = 0
           \/ h < N - 1 /\ t = h + 1 /\ t < N - 1 /\ t' = t + 1
    BY <1>1
  <1>4. Held = N - 1 /\ Held' = N - 1
    <2>. HIDE DEF N, h, t
    <2>. QED  BY <1>1, <1>2, <1>3, <1>a
  <1>5. /\ Contents' \in Seq(Char \cup {NUL}) /\ Len(Contents') = Held'
        /\ Contents \in Seq(Char \cup {NUL}) /\ Len(Contents) = Held
    BY ContentsType, ContentsTypeNext
  <1>6. /\ Tail(Contents) \in Seq(Char \cup {NUL}) /\ Len(Tail(Contents)) = N - 2
        /\ \A i \in 1 .. N - 2 : Tail(Contents)[i] = Contents[i + 1]
    BY <1>1, <1>4, <1>5
  <1>7. ASSUME NEW i \in 1 .. N - 1
        PROVE  Contents'[i] = Append(Tail(Contents), ch)[i]
    <2>0. i \in 1 .. N /\ i + 1 \in 1 .. N /\ (i \in 1 .. N - 2 \/ i = N - 1)
      BY <1>1
    <2>1. Contents'[i] = log_buffer'[(t' + i - 1) % N]
      BY <1>4 DEF Contents
    <2>2. (t' + i - 1) % N = IF t' + i - 1 < N THEN t' + i - 1 ELSE t' + i - 1 - N
      <3>1. t' \in Slots
        BY DEF RingTypeOK
      <3>. QED  BY <2>0, <3>1, SlotValue
    <2>3. CASE i = N - 1
      <3>1. (t' + i - 1) % N = h
        BY <1>1, <1>a, <2>2, <2>3
      <3>2. log_buffer'[h] = ch
        BY <1>1 DEF RingTypeOK, Slots
      <3>3. Append(Tail(Contents), ch)[i] = ch
        BY <1>1, <1>6, <2>3
      <3>. QED  BY <2>1, <3>1, <3>2, <3>3
    <2>4. CASE i \in 1 .. N - 2
      <3>1. (t + (i + 1) - 1) % N =
              IF t + (i + 1) - 1 < N THEN t + (i + 1) - 1 ELSE t + (i + 1) - 1 - N
        BY <1>1, <2>0, SlotValue DEF Slots
      <3>2. /\ (t' + i - 1) % N = (t + (i + 1) - 1) % N
            /\ (t' + i - 1) % N # h /\ (t' + i - 1) % N \in 0 .. N - 1
        BY <1>1, <1>a, <2>2, <2>4, <3>1
      <3>3. log_buffer'[(t' + i - 1) % N] = log_buffer[(t' + i - 1) % N]
        BY <1>1, <3>2 DEF RingTypeOK, Slots
      <3>4. i + 1 \in 1 .. Held
        BY <1>1, <1>4, <2>4
      <3>5. Contents[i + 1] = log_buffer[(t + (i + 1) - 1) % N]
        BY <3>4 DEF Contents
      <3>6. Append(Tail(Contents), ch)[i] = Contents[i + 1]
        BY <1>1, <1>6, <2>4
      <3>. QED  BY <2>1, <3>2, <3>3, <3>5, <3>6
    <2>. QED  BY <2>0, <2>3, <2>4
  <1>8. /\ Append(Tail(Contents), ch) \in Seq(Char \cup {NUL})
        /\ Len(Append(Tail(Contents), ch)) = N - 1
    BY <1>1, <1>6
  <1>. QED  BY <1>1, <1>4, <1>5, <1>7, <1>8

\* Every byte written is one write to the bounded log.
LEMMA RingRefines ==
    ASSUME RingTypeOK, RingTypeOK', [RingNext]_ringVars
    PROVE  [BL!Next]_Contents
  <1>1. ASSUME NEW ch \in Char, ringbuf_putc(ch)
        PROVE  [BL!Next]_Contents
    <2>1. CASE rb_head' # rb_tail
      <3>1. BL!Write(ch)
        BY <1>1, <2>1, PutWithRoom DEF BL!Write
      <3>. QED  BY <3>1 DEF BL!Next
    <2>2. CASE rb_head' = rb_tail
      <3>1. BL!Write(ch)
        BY <1>1, <2>2, PutWhenFull, RingAssumption DEF BL!Write
      <3>. QED  BY <3>1 DEF BL!Next
    <2>. QED  BY <2>1, <2>2
  <1>2. CASE UNCHANGED ringVars
    BY <1>2 DEF ringVars, Contents, Held
  <1>. QED  BY <1>1, <1>2 DEF RingNext

\* An empty ring is an empty log.
LEMMA RingStartsEmpty ==
    ASSUME RingInit
    PROVE  RingTypeOK /\ Contents = << >>
  <1>1. RingTypeOK
    BY RingAssumption DEF RingInit, RingTypeOK, Slots
  <1>2. Held = 0
    BY <1>1, HeldValue DEF RingInit
  <1>. QED  BY <1>1, <1>2, ContentsType

\* The head and the tail never leave the buffer.
THEOREM RingTypeCorrect == RingSpec => []RingTypeOK
  BY RingStartsEmpty, RingTypeStep, PTL DEF RingSpec

\* printk.c's ring buffer keeps exactly the most recent LOG_BUF_SIZE - 1 bytes.
THEOREM RingImplementsBoundedLog == RingSpec => ImplementsBoundedLog
  <1>1. RingInit => BL!Init
    BY RingStartsEmpty DEF BL!Init
  <1>2. RingTypeOK /\ RingTypeOK' /\ [RingNext]_ringVars => [BL!Next]_Contents
    BY RingRefines
  <1>. QED  BY <1>1, <1>2, RingTypeCorrect, PTL
            DEF RingSpec, ImplementsBoundedLog, BL!Spec

=============================================================================
