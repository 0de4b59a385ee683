SPECIFICATION Spec
CONSTANTS
    LOAD_SECTORS = 5
    IMAGE_SECTORS = 3
    KERNEL_SECTORS = 7
    ZeroStatics = {3, 4}
    MapSlots = 3
    FirmwareMaps <- Maps
INVARIANTS
    BootTypeOK
    KernelStartsClean
    MapHandedOver
PROPERTY LoaderEnds
