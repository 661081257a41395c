SPECIFICATION Spec
CONSTANTS
    Module <- MCModule
    u8 = u8
    char = char
    all_bits_valid = {u8}
    Builtin = {u8, char}
    MaxModules = 2
    MaxRoots = 2
INVARIANTS
    MarksExact
    InfoExact
    NamesDefined
    GenericsMatch
