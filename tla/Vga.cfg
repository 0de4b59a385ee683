SPECIFICATION VgaSpec
CONSTANTS
    VGA_WIDTH = 3
    VGA_HEIGHT = 3
    BYTE = 4
    Glyph <- Glyphs
    Color <- Colors
    WHITE_ON_BLACK = "white"
INVARIANT VgaTypeOK
INVARIANT NothingOverprinted
PROPERTY ImplementsTerminal
