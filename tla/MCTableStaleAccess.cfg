SPECIFICATION Spec
CONSTANTS
    Item = {x, y}
    U32Max = 1
    MaxAccesses = 2
    MaxBorrows = 2
SYMMETRY ItemSymmetry
INVARIANTS
    BorrowedItemsStay
