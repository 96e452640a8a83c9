SPECIFICATION Spec
CONSTANTS
    Procs = 2
    QUEUESIZE = 4
    MAXPROCPAGES = 2
    PAGESIZE = 2
    PAGEWAIT = 2
    PHYSICALPAGES = 3
    programs <- OverPrograms
    PROGRAMS = 3
    NULL = NULL
INVARIANTS TypeOK FramesConserved NoFrameLeaked LoadedOnce PagesInRange AllReturned
PROPERTY TransitCompletes
CHECK_DEADLOCK FALSE
