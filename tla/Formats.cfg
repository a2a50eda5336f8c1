SPECIFICATION Spec
CONSTANTS
    Radix = 3
    PrefixLength = 1
    Uint64Length = 2
    Keys = {1, 2}
    Atoms <- MCAtoms
    HalfByte = 4
    Char32 = 8
    BodyLength = 3
    Groups = 5
    Originals <- MCOriginals
    Own = {5}
    Reserved = 2
    RequestID = 4
CHECK_DEADLOCK FALSE
INVARIANTS WholeIsRead NeverMisread HashCovers OneHost
