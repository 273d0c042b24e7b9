SPECIFICATION FairSpec
CONSTANTS
    Callers = {c1, c2}
    Inputs = {i1, i2}
    Kinds = {"StartNew", "InjectOnly", "InjectElseStart", "QueueElseStart", "InterruptAndStart"}
    MaxTurns = 2
    MaxPending = 2
    MaxGates = 1
    MaxFailures = 0
    Stops = {"shutdown"}
    MaxStops = 1
    MaxControls = 0
    MaxMishaps = 0
    Retry = retry
    Server = server
    Nobody = nobody
PROPERTIES PendingIsStarted 
CHECK_DEADLOCK FALSE
