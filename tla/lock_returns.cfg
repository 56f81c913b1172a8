CONSTANTS
    r1 = r1
    t1 = t1
    Threads <- Pair
    SideOf <- PairSides
    TryLockers <- Nobody
    Mortal <- Nobody
SPECIFICATION FairSpec
CHECK_DEADLOCK FALSE
PROPERTIES
    LockReturns
