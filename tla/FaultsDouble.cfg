SPECIFICATION Spec
CONSTANTS
    STACK_WORDS = 60
    HANDLER_WORDS = 6
    Frames = {3, 7}
    HeapPages = {}
INVARIANT DoubleFaultHandled
