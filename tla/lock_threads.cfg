CONSTANTS
    r1 = r1
    t1 = t1
    Threads <- Pair
    SideOf <- PairSides
    TryLockers <- Pair
    Mortal <- Pair
SPECIFICATION FairSpec
INVARIANTS
    TypeOK
    LockHoldersExclusive
PROPERTIES
    LockSettles
