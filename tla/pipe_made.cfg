CONSTANTS
    Server = s
    Clients = {c, d}
    Mortal = {s, c, d}
    Orderly = TRUE
    Faults = {}
    DataOffset = 17
    Alignment = 4
    RingHeader = 20
    MaxRing = 64
    Sizes = {48}
    PacketRoom = 12
    MaxWrites = 3
    MaxLost = 2
SPECIFICATION Spec
INVARIANTS
    PipeMade
