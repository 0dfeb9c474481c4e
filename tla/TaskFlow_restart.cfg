CONSTANTS
    h1 = h1  h2 = h2
    Task <- Tasks3
    FromRoutes <- Join
    ToRoutes <- None
    AutoRestart = {}
    Handler <- Handlers2
    Outcome <- Outcomes6
    UserRoutes = {""}
    Events = {"fail", "restart", "restartoutcome"}
SPECIFICATION Spec
SYMMETRY Symmetry2
INVARIANTS JoinComplete NoLostJoin
PROPERTIES SuccessIsFinal
CHECK_DEADLOCK FALSE
