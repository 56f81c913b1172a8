CONSTANTS
    Continuation = 4
    Groups = 2
    Shapes <- AllShapes
    Structs <- AllStructs
    Targets <- AllTargets
    Words = {0, 3, 4, 15, 16, 63, 64, 127}
    Seeds = {0, 5}
    Spans = {0, 8, 20}
SPECIFICATION Spec
CHECK_DEADLOCK FALSE
INVARIANTS
    TypeOK
    SizeIsExact
    MinimumHolds
    ReadBack
