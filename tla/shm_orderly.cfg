CONSTANTS
    Creators = {s}
    Openers = {c, d}
    AllClosers = {s}
    Mortal = {c, d}
    Orderly = TRUE
    Faults = {"shm_open", "ftruncate", "mmap", "munmap", "shm_unlink"}
    HeaderBytes = 17
    Sizes = {32}
    MaxSegments = 2
    MaxLost = 1
    Bystanders = {d}
SPECIFICATION MCFairSpec
INVARIANTS
    TypeOK
    RefCountCounts
    OpenedWhole
    NamedWhileHeld
PROPERTIES
    LockReleased
