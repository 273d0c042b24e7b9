SPECIFICATION Spec
CONSTANTS
    Callers = {c1, c2}
    Inputs = {i1, i2, i3}
    Kinds = {"QueueElseStart", "InjectElseStart", "Abort", "Repair", "Close"}
    MaxTurns = 2
    MaxPending = 2
    MaxGates = 2
    MaxFailures = 2
    Stops = {"crash"}
    MaxStops = 0
    MaxControls = 2
    MaxMishaps = 3
    Retry = retry
    Server = server
    Nobody = nobody
SYMMETRY Symmetry
INVARIANTS OneTurnRuns EveryTurnIsWatched  StoppedIsQuiet
PROPERTIES CompletedStaysCompleted StartsInOrder
CHECK_DEADLOCK FALSE
