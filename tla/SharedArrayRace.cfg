SPECIFICATION Spec
CONSTANTS
  ARRAY_SIZE = 2
  Threads = {t1, t2}
  a = a
  b = b
  long = long
  Hostnames <- MCHostnames
  LongNames <- MCLongNames
  BUFFER = BUFFER
  NULL = NULL
  EMPTY = EMPTY
  Targets = {BUFFER}
PROPERTY IsFIFO
CHECK_DEADLOCK FALSE
