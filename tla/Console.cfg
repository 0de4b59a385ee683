SPECIFICATION ConsoleSpec
CONSTANTS
    LOG_BUF_SIZE = 7
    Char <- Chars
    VGA_WIDTH = 2
    VGA_HEIGHT = 2
    BYTE = 4
    Glyph <- Glyphs
    Color <- Colors
    WHITE_ON_BLACK = "white"
    Texts <- MsgTexts
    Levels = {"EMERG"}
    Prefix <- Prefixes
    LevelColor <- PrefixColor
    EMERG = "EMERG"
    PANIK_MSG_SIZE = 3
    PanikTag <- Tag
    PanicTag <- OtherTag
    TestTag <- Tag
    HaltedText <- HaltLine
    PANIC_COLOR = "red"
    MSG_COLOR = "white"
    HALT_COLOR = "red"
INVARIANT RingTypeOK
INVARIANT ConsoleTypeOK
INVARIANT CallIsLogged
INVARIANT LogAheadOfScreen
INVARIANT PanikRecorded
PROPERTY ImplementsBoundedLog
PROPERTY CallsEnd
