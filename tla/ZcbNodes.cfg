CONSTANTS
    Devices = {d1, d2}
    Coordinator = gw
    Addrs = {s1, s2}
    NRows = 2
    InboxMax = 1
    MaxChanges = 3
    Faults = {"reset"}
    NoMac = NoMac
SPECIFICATION Spec
INVARIANTS TypeOK JoinedPairWasTrue   
SYMMETRY Symmetry
CHECK_DEADLOCK FALSE
