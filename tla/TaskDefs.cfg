CONSTANTS
    h1 = h1  h2 = h2
    Def <- Defs3
    Name <- Names4
    Handler <- Handlers2
    Requests = {"create", "inbound", "outbound", "routeall", "rename", "reuse", "delete", "job"}
    MaxRequests = 2
SPECIFICATION Spec
SYMMETRY Symmetry2
INVARIANTS TypeOK EditsKeepOrder JobGraphAcyclic DesignerRuleExact
CHECK_DEADLOCK FALSE
