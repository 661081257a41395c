SPECIFICATION Spec
CONSTANTS
    HandleType = {"a", "b"}
    Dtors = {"a"}
    MaxInsts = 3
    MaxBlocks = 2
    MaxFuncs = 2
    MaxModules = 2
INVARIANTS
    NamesDeclared
    NothingLeftOver
    CleanupComplete
\* The modules come to an end.
CHECK_DEADLOCK FALSE
