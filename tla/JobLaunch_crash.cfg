CONSTANTS
    h1 = h1  h2 = h2
    Job <- Jobs1
    Handler <- Handlers2
    Limits = {0, 1}
    Coalesce = TRUE
    PauseOnFailedJob = TRUE
    Events = {"report", "pause", "interrupt", "limit", "createfails", "misfire", "error"}
    MaxUnawaited = 1
    MaxCrashes = 1
SPECIFICATION FairSpec
PROPERTIES LockReleased
CHECK_DEADLOCK FALSE
