CONSTANTS
    Pids = {11, 12, 13}
    MaxChildren = 2
    Rounds = 1
    Handlers = {"loop", "saver"}
    LoopThread = "loop"
SPECIFICATION Spec
PROPERTIES OldestIsKilled
CHECK_DEADLOCK FALSE
