SPECIFICATION MCFairSpec
CONSTANTS
    Boot = boot
    Lines = {boot, line}
    Ranges = 2
    RangeSize = 2
    Foreign = {4}
    Hashes = {1, 2}
    NoKey = noKey
    CommandLines <- MCCommandLines
    FileStates <- MCFileStates
    Before = {0, 2}
    Typed = {1, 4}
    MaxLines = 2
CHECK_DEADLOCK FALSE
INVARIANTS SelectionAgrees LoadCountsAll FailureIsLogged
PROPERTIES ServicesStopFirst NodeExits BootSettles
