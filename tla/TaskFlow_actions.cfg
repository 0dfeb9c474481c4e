CONSTANTS
    h1 = h1  h2 = h2
    Task <- Tasks3
    FromRoutes <- Fork
    ToRoutes <- ToThree
    AutoRestart = {1}
    Handler <- Handlers2
    Outcome <- Outcomes3
    UserRoutes = {"ok", "no"}
    Events = {"stopoutcome", "noagent", "cancel", "interrupt"}
SPECIFICATION Spec
SYMMETRY Symmetry2
INVARIANTS OneLiveOutcome
PROPERTIES SuccessIsFinal
CHECK_DEADLOCK FALSE
