CONSTANTS
    Clients = {cb, a}
    CbThread = cb
    MainThread = a
    Commands = {c1}
    Requests = {r1}
    NoWaits = {}
    Erases = {e1}
    Reports = {"EVENT"}
    Listeners <- EventListener
    NSlots = 1
    QueueCapacity = 1
    LineLength = 1
    MaxEvents = 3
    Faults = {"prompt"}
    Nobody = Nobody
    None = None
SPECIFICATION Spec
INVARIANTS EventsInOrder SlotOwnership
