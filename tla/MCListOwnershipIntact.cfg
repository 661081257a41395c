SPECIFICATION Spec
CONSTANTS
    Canonical = {"u8", "u32"}
    Nesting <- MCNesting
    size <- MCSize
    align <- MCAlign
    Value <- MCValue
    MaxParams = 1
    MaxResults = 2
INVARIANT
    ListsIntact
CHECK_DEADLOCK FALSE
