SPECIFICATION FairSpec
CONSTANTS
    Threads = {t1, t2, t3}
    ITERATIONS = 2
    LENGTH = 1
    Producers = {p1, p2}
    Consumers = {c1, c2}
    QSIZE = 2
    PRODUCE_COUNT = 2
    SPURIOUS = 1
    NULL = NULL
INVARIANTS ThreadTypeOK CounterBounds Results NoLostWakeup
PROPERTIES ImplementsFIFO AllPartsEnd
CHECK_DEADLOCK FALSE
