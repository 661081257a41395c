SPECIFICATION Spec
CONSTANTS
    Lengths = {2}
    MaxLen = 2
    MaxBuffers = 2
    MaxDepth = 6
INVARIANTS
    TypeOK
    HandlesOwned
    FreeListsComplete
    RawInBounds
    ReadersBacked
    LenIsAvailable
    NeverPanics
