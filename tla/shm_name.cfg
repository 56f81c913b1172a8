CONSTANTS
    Creators = {s}
    Openers = {c}
    AllClosers = {}
    Mortal = {}
    Orderly = TRUE
    Faults = {}
    HeaderBytes = 17
    Sizes = {32}
    MaxSegments = 1
    MaxLost = 1
SPECIFICATION Spec
INVARIANTS
    OwnerKeepsName
