CONSTANTS
    DataSize = 14
    HeaderSize = 4
    Alignment = 2
    WordSize = 32
    Ids = {1, 2}
    Sizes = {0, 1, 3}
    Builds = {TRUE}
SPECIFICATION Spec
CHECK_DEADLOCK FALSE
INVARIANTS
    CheckStillHolds
    NothingHalfDone
PROPERTIES
    CallsAtomic
