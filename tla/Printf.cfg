SPECIFICATION Spec
CONSTANTS
    SIZE = 6
    INT_LIMIT = 128
    TMP_SIZE = 4
    PTR_TMP_SIZE = 3
    Char <- AllChars
    Formats <- AllFormats
    Strings <- SomeStrings
    Chars <- SomeChars
    Ints <- SomeInts
INVARIANTS
    PrintfTypeOK
    FormattedText
    ScanStaysInFormat
