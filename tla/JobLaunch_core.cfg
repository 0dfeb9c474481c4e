CONSTANTS
    h1 = h1  h2 = h2
    Job <- Jobs2
    Handler <- Handlers2
    Limits = {1}
    Coalesce = FALSE
    PauseOnFailedJob = FALSE
    Events = {"report", "restart", "cancel", "error"}
    MaxUnawaited = 1
    MaxCrashes = 0
SPECIFICATION Spec
SYMMETRY Symmetry2
INVARIANTS TypeOK LaunchExclusion
PROPERTIES InstancesWithinLimit
CHECK_DEADLOCK FALSE
