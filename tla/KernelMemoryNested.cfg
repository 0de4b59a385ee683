SPECIFICATION KSpec
CONSTANTS
    PAGE_SIZE = 16
    WORD = 4096
    MAX_MEMORY_REGIONS = 3
    E820Maps <- PlentyOfRam
    StaleBitmaps = {{}}
    FreeArgs = {}
    LOW_MEMORY_END = 96
    kernel_start = 16
    kernel_end = 30
    BITMAP_ADDR = 64
    PAGE_DIR_START_ADDR = 32
    PAGE_TABLE_START_ADDR = 48
    TABLE_BYTES = 16
    BOOT_STACK_LOW = 74
    BOOT_STACK_TOP = 76
    PAGE_ENTRIES = 16
    KERNEL_HEAP_START = 160
    KERNEL_HEAP_END = 192
    KERNEL_STACK_TOP_VIRT = 208
    KERNEL_STACK_BOTTOM_VIRT = 204
    TouchedPages <- HeapOnly
INVARIANT NoNestedFault
