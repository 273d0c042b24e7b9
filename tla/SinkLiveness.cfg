SPECIFICATION Spec
CONSTANTS
    Callers = {c1, c2}
    Ops = {"create", "append", "append_and_sync", "sync", "retry", "live_required"}
    Manager = manager
    Sink = sink
    Nobody = nobody
    MaxEvents = 2
    MaxLanes = 2
    MaxBatch = 2
    Capacity = 2
    MaxDefers = 0
PROPERTIES EveryoneIsAnswered
CHECK_DEADLOCK FALSE
