CONSTANTS
    Lanes = {l1, l2}
    Admins = {}
    MaxEvents = 2
    MaxGeneration = 2
    MaxRevision = 0
    MaxCrashes = 1
    MaxQuiesces = 1
    QuarantineAfter = 2
    Resets = {}
    PowerLoss = FALSE
SPECIFICATION Spec
SYMMETRY LaneSymmetry
INVARIANTS NothingSkipped QuiescedMeansStopped
PROPERTIES CheckpointMonotone
CHECK_DEADLOCK FALSE
