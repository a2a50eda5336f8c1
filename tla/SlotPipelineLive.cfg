SPECIFICATION FairSpec
CONSTANTS
    x = x
    y = y
    z = z
    past1 = past1
    past2 = past2
    Own = own
    NoBlock = noBlock
    MaxSlot = 2
    Keep = 3
    OwnSlots = {}
    NetBlocks = {z, past1, past2}
    Msgs = {z, past1, past2}
    SlotOf <- MCSlotOf
    ByMinter <- MCByMinter
    BlockOf <- MCBlockOf
    Faults = {"sigterm"}
CHECK_DEADLOCK FALSE
INVARIANT ArrivedBeforeDone
PROPERTIES SlotFinishes PastBlockSettles ShutdownEnds
