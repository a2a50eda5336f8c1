SPECIFICATION FairSpec
CONSTANTS
    Prefix = 2
    Sizes <- MCSizes
    Capacity = 4
CHECK_DEADLOCK FALSE
INVARIANT InOrder
PROPERTY AllArrive
