CONSTANTS
    j1 = j1  j2 = j2
    Jobs = {j1, j2}
    KeepLastKeys = {0, 2}
    None = None
    MaxKeys = 8
    MaxEdits = 2
    MaxFailures = 1
SPECIFICATION FairSpec
INVARIANTS NoKeyComesBack ReplacedKeysAccepted QuietIsConsistent
PROPERTIES EventuallyAtRest
CHECK_DEADLOCK FALSE
