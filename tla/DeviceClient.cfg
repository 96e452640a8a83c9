SPECIFICATION FairSpec
CONSTANTS
    Files = {f1, f2}
    BUFFER_SIZE = 3
    LLONG_MAX = 31
    FAULTS = 1
    Junk = Junk
    NULL = NULL
    READ_BUF_SIZE = 3
    INPUT_BUF_SIZE = 2
    INT_MAX = 7
    Numbers <- Typed
INVARIANTS ClientTypeOK CopiesInBounds NoHoles
PROPERTIES WriteComplete LoopsReturn
