SPECIFICATION PhasedSpec
CONSTANTS
  ARRAY_SIZE = 2
  Threads = {t1, t2, t3}
  a = a
  b = b
  long = long
  Hostnames <- MCHostnames
  LongNames <- MCLongNames
  BUFFER = BUFFER
  NULL = NULL
  EMPTY = EMPTY
  Targets = {BUFFER, NULL}
PROPERTY IsFIFO
CHECK_DEADLOCK FALSE
