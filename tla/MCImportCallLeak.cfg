SPECIFICATION Spec
CONSTANTS
    U32Max = 4
    UsizeMax = 3
    ItemSize = 2
    MaxSize = 5
    MaxBase = 1
    Ptrs <- MCPtrs
    Buffers <- MCBuffers
INVARIANTS
    BorrowsReturned
