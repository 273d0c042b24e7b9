SPECIFICATION FairSpec
CONSTANTS
    Openers = {o1, o2}
    Closers = {k1, k2}
    Creator = creator
    Nobody = nobody
    MaxRuntimes = 3
INVARIANTS  OpenTakesEvents
PROPERTIES GuardsReleased
CHECK_DEADLOCK FALSE
