------------------------------ MODULE Console ------------------------------
(***************************************************************************)
(* printk, vprintk and panik on top of the ring log and the VGA driver.    *)
(* A call becomes the sequence of byte strings it writes to the log and to *)
(* the screen, in the order of the code, and each byte is a step of its    *)
(* own.  Formatting is an input: a text is what the format string expands  *)
(* to, before my_vsnprintf cuts it to the size of its buffer.              *)
(***************************************************************************)
EXTENDS RingLog, Vga

CONSTANTS
    Texts,              \* expanded texts: sequences of characters
    Levels,             \* log levels
    Prefix,             \* level -> "[LEVEL] "
    LevelColor,         \* level -> attribute
    EMERG,              \* the level of panik's message in test mode
    PANIK_MSG_SIZE,     \* sizeof panik_state.last_panik_msg
    PanikTag,           \* "[PANIK] ", as logged
    PanicTag,           \* "[PANIC] ", as shown
    TestTag,            \* "[TEST PANIK] "
    HaltedText,         \* "System halted. Press reset to restart.\n"
    PANIC_COLOR, MSG_COLOR, HALT_COLOR

\* No prefix; printk finds one of these in the first two bytes of its format.
NoLevel == "none"

ASSUME ConsoleAssumption ==
    /\ Texts \subseteq Seq(Char) /\ PANIK_MSG_SIZE \in Nat \ {0}
    \* every byte but these two has a glyph
    /\ NL \in Char /\ Char \subseteq Glyph \cup {NL, NUL}
    /\ {PANIC_COLOR, MSG_COLOR, HALT_COLOR} \subseteq Color
    /\ EMERG \in Levels /\ LevelColor \in [Levels -> Color]
    \* the fixed strings are short
    /\ Prefix \in [Levels -> Seq(Char)]
    /\ \A level \in Levels : Len(Prefix[level]) < LOG_BUF_SIZE
    /\ {PanikTag, PanicTag, TestTag, HaltedText} \subseteq Seq(Char)
    /\ Len(PanicTag) < LOG_BUF_SIZE /\ Len(HaltedText) < LOG_BUF_SIZE
    \* a panik record fits the log: 8 + 255 + 1 < 1024
    /\ Len(PanikTag) + PANIK_MSG_SIZE < LOG_BUF_SIZE
    \* the last message of panik is one line, and fits one
    /\ HaltedText # << >> /\ Len(HaltedText) <= VGA_WIDTH
    /\ \A k \in 1 .. Len(HaltedText) - 1 : HaltedText[k] \notin {NL, NUL}
    /\ HaltedText[Len(HaltedText)] = NL
    /\ VGA_HEIGHT >= 2

VARIABLES
    todo,               \* what the running call still has to write
    panik_mode, panik_called, last_panik_msg,
    calling,            \* the function that is running
    logged, shown       \* history: what the latest call logged and showed so far

panikVars == <<panik_mode, panik_called, last_panik_msg>>
consoleVars == <<todo, panikVars, calling, logged, shown>>
allVars == <<ringVars, vgaVars, consoleVars>>

-----------------------------------------------------------------------------
Log(text) == [to |-> "log", text |-> text, color |-> WHITE_ON_BLACK]

\* vga_print_string stops at a NUL, which %c can put into a text.
CString(text) ==
    LET ends == {i \in 1 .. Len(text) : text[i] = NUL} IN
    IF ends = {} THEN text
    ELSE SubSeq(text, 1, (CHOOSE i \in ends : \A j \in ends : i <= j) - 1)

Show(text, color) == [to |-> "screen", text |-> CString(text), color |-> color]
Halt == [to |-> "halt", text |-> << >>, color |-> WHITE_ON_BLACK]

\* Mutant: no room is left for the terminator.
MutantFormatted(text, size) ==
    SubSeq(text, 1, IF Len(text) < size THEN Len(text) ELSE size)

\* my_vsnprintf leaves room for the terminator.
Formatted(text, size) ==
    SubSeq(text, 1, IF Len(text) < size THEN Len(text) ELSE size - 1)

\* Mutant: vprintk shows the text before it logs it.
MutantVprintk(text) ==
    LET tmp == Formatted(text, LOG_BUF_SIZE)
    IN  <<Show(tmp, WHITE_ON_BLACK), Log(tmp)>>

VprintkWrites(text) ==
    LET tmp == Formatted(text, LOG_BUF_SIZE)
    IN  <<Log(tmp), Show(tmp, WHITE_ON_BLACK)>>

PrintkWrites(level, text) ==
    (IF level = NoLevel THEN << >>
     ELSE <<Log(Prefix[level]), Show(Prefix[level], LevelColor[level])>>)
    \o VprintkWrites(text)

\* Mutant: the line break after the message is forgotten.
MutantPanikOneLine(msg) ==
    <<Log(PanikTag), Log(msg), Log(<<NL>>),
      Show(PanicTag, PANIC_COLOR), Show(msg, MSG_COLOR),
      Show(HaltedText, HALT_COLOR), Halt>>

\* Mutant: panik returns in every mode.
MutantPanikWrites(msg) ==
    <<Log(PanikTag), Log(msg), Log(<<NL>>),
      Show(PanicTag, PANIC_COLOR), Show(msg, MSG_COLOR), Show(<<NL>>, WHITE_ON_BLACK),
      Show(HaltedText, HALT_COLOR)>>

\* panik in normal mode: the log first, then the screen, then hlt for ever.
PanikWrites(msg) ==
    <<Log(PanikTag), Log(msg), Log(<<NL>>),
      Show(PanicTag, PANIC_COLOR), Show(msg, MSG_COLOR), Show(<<NL>>, WHITE_ON_BLACK),
      Show(HaltedText, HALT_COLOR), Halt>>

Begin(function, writes) ==
    /\ todo' = writes /\ calling' = function
    /\ logged' = << >> /\ shown' = << >>

Idle == todo = << >>
Halted == ~Idle /\ Head(todo).to = "halt"

-----------------------------------------------------------------------------
\* The state printk_init leaves; panik.c's variables are initialised statics.
ConsoleInit ==
    /\ RingInit /\ VgaInit
    /\ todo = << >> /\ calling = "none" /\ logged = << >> /\ shown = << >>
    /\ panik_mode = "NORMAL" /\ panik_called = FALSE /\ last_panik_msg = << >>

printk(level, text) ==
    /\ Idle
    /\ Begin("printk", PrintkWrites(level, text))
    /\ UNCHANGED <<ringVars, vgaVars, panikVars>>

\* In test mode panik is one more message and returns.
panik(text) ==
    LET msg == Formatted(text, PANIK_MSG_SIZE) IN
    /\ Idle
    /\ panik_called' = TRUE /\ last_panik_msg' = msg
    /\ IF panik_mode = "TEST"
       THEN Begin("panik", PrintkWrites(EMERG, TestTag \o CString(msg) \o <<NL>>))
       ELSE Begin("panik", PanikWrites(msg))
    /\ UNCHANGED <<ringVars, vgaVars, panik_mode>>

set_panik_mode(mode) ==
    /\ Idle
    /\ panik_mode' = mode
    /\ UNCHANGED <<ringVars, vgaVars, todo, panik_called, last_panik_msg,
                   calling, logged, shown>>

reset_panik_state ==
    /\ Idle
    /\ panik_called' = FALSE /\ last_panik_msg' = << >>
    /\ UNCHANGED <<ringVars, vgaVars, todo, panik_mode, calling, logged, shown>>

\* ringbuf_write and vga_print_string, one byte.
LogByte ==
    LET text == Head(todo).text IN
    /\ ~Idle /\ Head(todo).to = "log" /\ text # << >>
    /\ ringbuf_putc(Head(text))
    /\ logged' = Append(logged, Head(text))
    /\ todo' = [todo EXCEPT ![1].text = Tail(text)]
    /\ UNCHANGED <<vgaVars, panikVars, calling, shown>>

ShowByte ==
    LET text == Head(todo).text IN
    /\ ~Idle /\ Head(todo).to = "screen" /\ text # << >>
    /\ vga_print_char(Head(text), Head(todo).color)
    /\ shown' = Append(shown, Head(text))
    /\ todo' = [todo EXCEPT ![1].text = Tail(text)]
    /\ UNCHANGED <<ringVars, panikVars, calling, logged>>

\* The loop over a string ends; after the last string the call returns.
StringDone ==
    /\ ~Idle /\ ~Halted /\ Head(todo).text = << >>
    /\ todo' = Tail(todo)
    /\ calling' = IF Tail(todo) = << >> THEN "none" ELSE calling
    /\ UNCHANGED <<ringVars, vgaVars, panikVars, logged, shown>>

HaltLoop == Halted /\ UNCHANGED allVars

Write == LogByte \/ ShowByte \/ StringDone

ConsoleNext ==
    \/ \E text \in Texts :
         panik(text) \/ \E level \in Levels \cup {NoLevel} : printk(level, text)
    \/ \E mode \in {"NORMAL", "TEST"} : set_panik_mode(mode)
    \/ reset_panik_state
    \/ Write \/ HaltLoop

\* A call, once made, runs on: nothing preempts it.
ConsoleSpec == ConsoleInit /\ [][ConsoleNext]_allVars /\ WF_allVars(Write)

-----------------------------------------------------------------------------
\* The last n bytes of s.
LastBytes(s, n) == IF Len(s) <= n THEN s ELSE SubSeq(s, Len(s) - n + 1, Len(s))

\* Every variable above the ring stays in its domain, and no text fills the buffer it was
\* formatted into: its terminator always has a place.
ConsoleTypeOK ==
    /\ VgaTypeOK
    /\ panik_mode \in {"NORMAL", "TEST"} /\ panik_called \in BOOLEAN
    /\ last_panik_msg \in Seq(Char) /\ Len(last_panik_msg) < PANIK_MSG_SIZE
    /\ \A i \in 1 .. Len(todo) : Len(todo[i].text) < LOG_BUF_SIZE

\* At every moment the log ends with all that the running call has logged, its
\* level prefix and its text in one piece, or with as many of the last of
\* these bytes as the log holds.
CallIsLogged ==
    LET recent == LastBytes(logged, LOG_BUF_SIZE - 1)
    IN  LastBytes(Contents, Len(recent)) = recent

\* The screen is never ahead of the log: at every moment what printk has
\* shown of a text without NULs it has logged before, so that a kernel that
\* dies while it prints leaves no less in its log than on its screen.
LogAheadOfScreen ==
    calling = "printk" /\ (\A i \in 1 .. Len(logged) : logged[i] # NUL) =>
      /\ Len(shown) <= Len(logged)
      /\ shown = SubSeq(logged, 1, Len(shown))

\* A halted kernel has the whole panik record at the end of its log, and
\* the line above the cursor says that it has halted, whatever was in the log
\* and on the screen before.
PanikRecorded ==
    Halted =>
      LET record == PanikTag \o last_panik_msg \o <<NL>> IN
      /\ LastBytes(Contents, Len(record)) = record
      /\ cursor_row >= 1
      /\ \A i \in 1 .. Len(HaltedText) - 1 :
           vga[Offset(cursor_row - 1, i - 1)] =
             [ch |-> HaltedText[i], color |-> HALT_COLOR]

\* In normal mode panik halts for ever; in test mode it returns, as printk
\* always does.
CallsEnd ==
    /\ (calling = "panik" /\ panik_mode = "NORMAL") ~> []Halted
    /\ (calling = "printk" \/ (calling = "panik" /\ panik_mode = "TEST")) ~> Idle

=============================================================================
