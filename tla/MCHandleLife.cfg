SPECIFICATION Spec
CONSTANTS
    Item = {x, y}
    U32Max = 1
    MaxAccesses = 3
    MaxBorrows = 3
    Object = {o, p}
    Address = {a, b}
    Unknown = Unknown
    MaxDepth = 6
SYMMETRY LifeSymmetry
INVARIANTS
    HandlesResolve
    ClosesSucceed
    BoxesLive
    NothingLost
PROPERTIES
    UsesTableNested
CHECK_DEADLOCK FALSE
