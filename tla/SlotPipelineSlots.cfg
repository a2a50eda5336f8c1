SPECIFICATION Spec
CONSTANTS
    x = x
    y = y
    z = z
    past1 = past1
    past2 = past2
    Own = own
    NoBlock = noBlock
    MaxSlot = 3
    Keep = 2
    OwnSlots = {1, 3}
    NetBlocks = {x, y}
    Msgs = {x, y}
    SlotOf <- MCSlotOf
    ByMinter <- MCByMinter
    BlockOf <- MCBlockOf
    Faults = {"exec", "sigterm", "cron", "minters"}
CHECK_DEADLOCK FALSE
INVARIANTS InTurn EndsOnce
PROPERTY BlockKept
