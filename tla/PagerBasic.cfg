SPECIFICATION FairBasic
CONSTANTS
    Procs = 3
    QUEUESIZE = 6
    MAXPROCPAGES = 3
    PAGESIZE = 2
    PAGEWAIT = 3
    PHYSICALPAGES = 3
    programs <- ThreePrograms
    PROGRAMS = 3
    NULL = NULL
INVARIANT OneProcess
PROPERTIES NeverAllBlocked SimulationEnds
CHECK_DEADLOCK FALSE
