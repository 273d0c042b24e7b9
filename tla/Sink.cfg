SPECIFICATION Spec
CONSTANTS
    Callers = {c1, c2}
    Ops = {"create", "append", "append_and_sync", "live"}
    Manager = manager
    Sink = sink
    Nobody = nobody
    MaxEvents = 3
    MaxLanes = 2
    MaxBatch = 2
    Capacity = 2
    MaxDefers = 1
INVARIANTS
    PublishedInLogOrder
    CommittedIsOnTheWay
    ReleasedIsDurable
    DurableBeforeLater
SYMMETRY CallerSymmetry
CHECK_DEADLOCK FALSE
