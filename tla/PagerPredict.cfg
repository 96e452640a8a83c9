SPECIFICATION FairPredict
CONSTANTS
    Procs = 3
    QUEUESIZE = 5
    MAXPROCPAGES = 3
    PAGESIZE = 2
    PAGEWAIT = 4
    PHYSICALPAGES = 3
    programs <- PredictPrograms
    PROGRAMS = 4
    NULL = NULL
    MAXBRINGS = 2
    FOREVER = 2147483647
    IFRUN = 2
    FREEBUF = 1
    WINDOWSIZE = 2
    DECAY_INTERVAL = 7
INVARIANTS PredictTypeOK TracksTransfers
PROPERTIES LapsInRange ImplementsPageSim PredictEnds
CHECK_DEADLOCK FALSE
