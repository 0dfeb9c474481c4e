CONSTANTS
    a1 = a1  a2 = a2  h1 = h1  h2 = h2  NoAgent = NoAgent
    Agent <- Agents2
    Task <- Tasks2
    Target <- SingleSpecific
    Specific <- OnA1
    AutoRestart = {}
    LaunchErrors = {2}
    Handler <- Handlers2
    Outcome <- Outcomes3
    Returns = {"old"}
    MaxLapses = 1
SPECIFICATION Spec
SYMMETRY HandlersOnly
INVARIANTS TypeOK OneRunner WaitingJustified
CHECK_DEADLOCK FALSE
