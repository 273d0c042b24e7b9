SPECIFICATION FairSpec
CONSTANTS
    MaxEvents = 3
    MaxDeltas = 1
    Capacity = 2
    MaxReplay = 2
    MaxDisconnects = 1
INVARIANTS NoGap 
 
CHECK_DEADLOCK FALSE
