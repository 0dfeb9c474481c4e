CONSTANTS
    a1 = a1  a2 = a2  h1 = h1  h2 = h2  NoAgent = NoAgent
    Agent <- Agents2
    Task <- Tasks2
    Target <- BothSingle
    Specific <- NoTargets
    AutoRestart = {2}
    LaunchErrors = {}
    Handler <- Handlers2
    Outcome <- Outcomes3
    Returns = {"old"}
    MaxLapses = 1
SPECIFICATION Spec
SYMMETRY HandlersOnly
INVARIANT OrphanRestarted
CHECK_DEADLOCK FALSE
