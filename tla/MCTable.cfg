SPECIFICATION Spec
CONSTANTS
    Item = {x, y, z}
    U32Max = 1
    MaxAccesses = 3
    MaxBorrows = 2
SYMMETRY ItemSymmetry
INVARIANTS
    TypeOK
    FreeListComplete
    UsesCounted
    AccessesStacked
    NestedBorrowsStay
PROPERTIES
    ImplementsHandleTable
