CONSTANTS
    Procs = {p1, p2, p3, p4}
    AutoProcs = {p1, p2}
    MaxCrashes = 2
SPECIFICATION FairSemSpec
 
PROPERTY WaitersEnter
