CONSTANTS
    Pids = {11, 12, 13}
    MaxChildren = 2
    Rounds = 1
    Handlers = {"loop", "saver"}
    LoopThread = "loop"
SPECIFICATION FairSpec
INVARIANTS TypeOK RunningAreListed
PROPERTIES OnlyMissedEntriesStay ChildrenAreCollected ClientsAreAccepted
CHECK_DEADLOCK FALSE
