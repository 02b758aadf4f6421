CONSTANTS
    Clients = {cb, a, b}
    CbThread = cb
    MainThread = a
    Commands = {c1}
    Requests = {r1}
    NoWaits = {c2}
    Erases = {}
    Reports = {"EVENT", "LOG"}
    Listeners <- NoListeners
    NSlots = 3
    QueueCapacity = 1
    LineLength = 2
    MaxEvents = 0
    Faults = {"loss", "nomem"}
    Nobody = Nobody
    None = None
SPECIFICATION Spec
INVARIANTS StatusMatchesCommand StatusIsForThisMessage StatusArrives WaitReturnsMessage
CHECK_DEADLOCK FALSE
