CONSTANTS
    Lanes = {l1}
    Admins = {a1}
    MaxEvents = 1
    MaxGeneration = 1
    MaxRevision = 1
    MaxCrashes = 1
    MaxQuiesces = 1
    QuarantineAfter = 1
    Resets = {"Beginning", "StreamHead"}
    PowerLoss = TRUE
SPECIFICATION FairSpec
INVARIANTS ResetExclusive 
 
CHECK_DEADLOCK FALSE
