SPECIFICATION FairSpec
CONSTANTS
    Extensions = {"base", "client", "tools"}
    Requires <- MCRequires
    Uses <- MCUses
    Desired <- MCDesired
    Turns = {t1}
    MaxInstances = 4
    MaxConfigs = 2
    MaxFailures = 1
INVARIANTS PinnedIsConsistent ReloadsInterruptNobody
PROPERTIES ProviderOutlivesDependents RetiredIsStopped
CHECK_DEADLOCK FALSE
