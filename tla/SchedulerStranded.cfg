SPECIFICATION FairSpec
CONSTANTS
    Callers = {c1, c2}
    Inputs = {i1, i2, i3}
    Kinds = {"QueueElseStart"}
    MaxTurns = 4
    MaxPending = 1
    MaxGates = 1
    MaxFailures = 0
    Stops = {}
    MaxStops = 0
    MaxControls = 0
    MaxMishaps = 0
    Retry = retry
    Server = server
    Nobody = nobody
PROPERTIES PendingIsStarted
CHECK_DEADLOCK FALSE
