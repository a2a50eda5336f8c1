SPECIFICATION FairSpec
CONSTANTS
    Page = 2
    MaxLen = 5
    IgnoreNoPeers = TRUE
    Faults = {"nopeers", "unsynced", "early", "exec", "prompt"}
CHECK_DEADLOCK FALSE
INVARIANTS NothingMissed MintsOnTip
PROPERTY SyncEnds
