CONSTANTS
    m = m
    u = u
    l = l
    Devices = {m, u, l}
    Edited = {u}
    Kind <- MCKind
    Roles <- MCRoles
    Planners = {"p"}
    Editors = {"e"}
    NRows = 2
    Parents = {0}
    MaxJobs = 2
    MaxLost = 0
    NoMac = NoMac
SPECIFICATION Spec
INVARIANTS TypeOK 
 
