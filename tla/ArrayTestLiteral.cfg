SPECIFICATION FairTest
CONSTANTS
    ARRAY_SIZE = 2
    NUM_THREADS = 2
    NUM_ITEMS = 1
    Threads <- MCThreads
    Hostnames = {facebook}
    LongNames = {}
    Targets = {BUFFER}
    BUFFER = BUFFER
    NULL = NULL
    EMPTY = EMPTY
    MayFail <- None
    LiteralStore <- Faults
PROPERTY TestReturns
CHECK_DEADLOCK FALSE
