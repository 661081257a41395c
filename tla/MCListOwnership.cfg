SPECIFICATION Spec
CONSTANTS
    Canonical = {"u8", "u32"}
    Nesting <- MCNesting
    size <- MCSize
    align <- MCAlign
    Value <- MCValue
    MaxParams = 1
    MaxResults = 2
INVARIANTS
    FreesMatch
    ReadsLive
PROPERTY
    Freed
\* A call is over when its wrappers have returned.
CHECK_DEADLOCK FALSE
