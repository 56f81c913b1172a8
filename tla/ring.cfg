CONSTANTS
    DataSize = 14
    HeaderSize = 4
    Alignment = 2
    WordSize = 32
    Ids = {1, 2}
    Sizes = {0, 1, 4}
    Builds = {TRUE, FALSE}
    Orderly = TRUE
SPECIFICATION Spec
INVARIANTS
    TypeOK
    HeaderDescribesRing
    PacketsIntact
    CopiesInBounds
    PulledWiped
PROPERTIES
    FifoSpec
