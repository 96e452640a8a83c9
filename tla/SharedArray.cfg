SPECIFICATION Spec
CONSTANTS
  ARRAY_SIZE = 3
  Threads = {t1, t2, t3}
  a = a
  b = b
  long = long
  Hostnames <- OneName
  LongNames <- MCLongNames
  BUFFER = BUFFER
  NULL = NULL
  EMPTY = EMPTY
  Targets = {BUFFER, NULL}
SYMMETRY Symmetry
INVARIANTS TypeOK MutualExclusion SlotsAccountedFor NoGap
PROPERTY CountsItems
CHECK_DEADLOCK FALSE
