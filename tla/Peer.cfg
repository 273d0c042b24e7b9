SPECIFICATION FairSpec
CONSTANTS
    HostCalls = {h1, h2}
    NestedCalls = {n1}
    Streams = {h2}
    NoParent = none
    MaxInFlight = 1
    Tombstones = 1
    WriteCapacity = 1
    PipeCapacity = 1
    ForwardCapacity = 1
    MaxEvents = 2
    Shutdowns = {"host"}
INVARIANTS LateAnswersAbsorbed
PROPERTIES CancelReaches CallsReturn
CHECK_DEADLOCK FALSE
