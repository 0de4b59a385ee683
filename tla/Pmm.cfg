SPECIFICATION Spec
CONSTANTS
    PAGE_SIZE = 16
    WORD = 4096
    MAX_MEMORY_REGIONS = 3
    E820Maps <- AllMaps
    StaleBitmaps <- Stale
    FreeArgs <- Args
    LOW_MEMORY_END = 96
    kernel_start = 16
    kernel_end = 30
    BITMAP_ADDR = 64
    PAGE_DIR_START_ADDR = 32
    PAGE_TABLE_START_ADDR = 48
    TABLE_BYTES = 16
    BOOT_STACK_LOW = 74
    BOOT_STACK_TOP = 76
INVARIANT TypeOK
INVARIANT ParseKeepsAvailable
INVARIANT OwnedIsPrivate
INVARIANT AccountingExact
INVARIANT SearchStaysInBitmap
INVARIANT OwnedIsRam
PROPERTY OnlyOwnersFree
PROPERTY BootCompletes
PROPERTY ImplementsFrameAllocator
