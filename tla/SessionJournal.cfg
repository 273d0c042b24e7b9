SPECIFICATION Spec
CONSTANTS
    Tasks = {t1, t2}
    NoTask = NoTask
    MaxEvents = 3
    MaxBatch = 2
INVARIANTS
    LogStaysValid
    ProjectionFollowsLog
    ConfirmedSurvives
    VisibleOnlyWhenDurable
    RolledBackNeverLogged
PROPERTIES
    StickyUntilConfirmed
    CommitLaneReleased
    
