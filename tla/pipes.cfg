CONSTANTS
    Server = s
    Clients = {c, d}
    Mortal = {s, c, d}
    Orderly = TRUE
    Faults = {"create", "open"}
    DataOffset = 16
    Alignment = 4
    RingHeader = 20
    MaxRing = 64
    Sizes = {48, 50}
    PacketRoom = 12
    MaxWrites = 3
    MaxLost = 1
SPECIFICATION Spec
INVARIANTS
    TypeOK
    RefCounts
    OpenFindsBoth
    RingsAgree
    Delivered
