CONSTANTS
    Creators = {s, d}
    Openers = {c, d}
    AllClosers = {s}
    Mortal = {c, d}
    Orderly = TRUE
    Faults = {"CreateFileMapping", "MapViewOfFile"}
    HeaderBytes = 16
    Sizes = {32, 48}
    MaxLost = 1
SPECIFICATION FairSpec
INVARIANTS
    TypeOK
    RefCountCounts
    OpenedWhole
    HandlesReturned
PROPERTIES
    LockReleased
