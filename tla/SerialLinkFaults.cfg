CONSTANTS
    Clients = {cb, a}
    CbThread = cb
    MainThread = a
    Commands = {c1}
    Requests = {}
    NoWaits = {}
    Erases = {}
    Reports = {"EVENT", "LOG"}
    Listeners <- EventListener
    NSlots = 1
    QueueCapacity = 1
    LineLength = 1
    MaxEvents = 1
    Faults = {"spurious", "stop", "impatient", "loss", "prompt", "deadline"}
    Nobody = Nobody
    None = None
SPECIFICATION FairSpec
INVARIANTS TypeOK SlotOwnership
 
