SPECIFICATION Spec
CONSTANTS
    NumRequesters = 1
    NumResolvers = 1
    MAX_INPUT_FILES = 2
    Capacity = 3
    Commands <- MissingOne
    Contents <- MCContents
    Unstorable = {long_name}
    MayFail <- None
    Hosts <- MCHosts
    Addresses <- MCAddresses
    POISON = POISON
    one = one
    pill = pill
    bad = bad
    missing = missing
    long_name = long_name
    x = x
    y = y
INVARIANT EveryLineResolved
CHECK_DEADLOCK FALSE
