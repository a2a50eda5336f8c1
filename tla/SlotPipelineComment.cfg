SPECIFICATION Spec
CONSTANTS
    x = x
    y = y
    z = z
    past1 = past1
    past2 = past2
    Own = own
    NoBlock = noBlock
    MaxSlot = 2
    Keep = 3
    OwnSlots = {}
    NetBlocks = {x, past1}
    Msgs = {x, past1}
    SlotOf <- MCSlotOf
    ByMinter <- MCByMinter
    BlockOf <- MCBlockOf
    Faults = {}
CHECK_DEADLOCK FALSE
PROPERTY NoPastBlockInService
