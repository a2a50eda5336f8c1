SPECIFICATION HFairSpec
CONSTANTS
    g = g
    h = h
    a1 = a1
    b1 = b1
    a2 = a2
    b2 = b2
    w1 = w1
    w2 = w2
    Main = main
    NoBlock = noBlock
    Torn = torn
    MaxIndex = 2
    Blocks <- MidBlocks
    Index <- MidIndex
    Prev <- MidPrev
    Workers = {w1, w2}
    Faults = {"crash"}
    MaxFaults = 2
INVARIANTS ForksLinked StateBacked SerialHistory
PROPERTIES TreeGrows EveryBlockSettles
