SPECIFICATION FairTest
CONSTANTS
    ARRAY_SIZE = 2
    NUM_THREADS = 4
    NUM_ITEMS = 2
    Threads <- MCThreads
    Hostnames = {facebook}
    LongNames = {}
    Targets = {BUFFER}
    BUFFER = BUFFER
    NULL = NULL
    EMPTY = EMPTY
    MayFail <- AnyFailure
    LiteralStore <- Either
INVARIANTS NoUseAfterFree Drained
PROPERTY CleansUp
CHECK_DEADLOCK FALSE
