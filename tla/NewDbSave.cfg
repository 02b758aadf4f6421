CONSTANTS
    MaxUpdates = 3
    MaxTime = 4
    MaxFaults = 2
    Faults = {"power", "io"}
SPECIFICATION FairSpec
INVARIANT SomeCopyIsComplete
PROPERTIES ShutdownKeepsData 
