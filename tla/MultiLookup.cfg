SPECIFICATION FairSpec
CONSTANTS
    NumRequesters = 2
    NumResolvers = 3
    MAX_INPUT_FILES = 3
    Capacity = 2
    Commands <- AnyCommand
    Contents <- MCContents
    Unstorable = {long_name}
    MayFail <- AnyFailure
    Hosts <- MCHosts
    Addresses <- MCAddresses
    POISON = POISON
    one = one
    pill = pill
    bad = bad
    missing = missing
    long_name = long_name
    x = x
    y = y
INVARIANTS TypeOK NoHostLost AllServed JoinedBeforeFree
PROPERTY Terminates
CHECK_DEADLOCK FALSE
