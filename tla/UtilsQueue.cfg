CONSTANTS
    Producers = {p1, p2}
    Consumers = {c1}
    Data = {d1, d2}
    NoData = NoData
    NoThread = NoThread
    u32Capacity = 2
    u32WaitMs = 2500
SPECIFICATION FairSpec
INVARIANTS TypeOK NoLostWakeup
PROPERTIES ImplementsFifo QueueReturns
