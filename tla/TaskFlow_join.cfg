CONSTANTS
    h1 = h1  h2 = h2
    Task <- Tasks3
    FromRoutes <- Join
    ToRoutes <- None
    AutoRestart = {}
    Handler <- Handlers2
    Outcome <- Outcomes3
    UserRoutes = {""}
    Events = {"fail"}
SPECIFICATION FairSpec
INVARIANTS TypeOK
PROPERTIES RunsAll JobEnds
CHECK_DEADLOCK FALSE
