SPECIFICATION Spec
CONSTANTS
    STACK_WORDS = 60
    HANDLER_WORDS = 6
    Frames = {3, 7}
    HeapPages <- TwoPages
INVARIANTS
    FaultsTypeOK
    NoInterruptWindow
    DoubleFaultTaskReady
PROPERTIES
    ResumesExactly
    ResumesOnlyServed
