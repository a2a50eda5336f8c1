SPECIFICATION FairSpec
CONSTANTS
    Faults = {"refused", "slow", "reset", "stop"}
CHECK_DEADLOCK FALSE
INVARIANT Trust
PROPERTIES GivenUp LeavesQueue Agree
