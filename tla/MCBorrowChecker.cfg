SPECIFICATION Spec
CONSTANTS
    U32Max = 2
    UsizeMax = 3
INVARIANTS
    TypeOK
    NoAliasing
    GuardsTracked
    HandlesUnique
    RefusalsExact
PROPERTIES
    ImplementsByteLocks
