CONSTANTS
    h1 = h1  h2 = h2
    Schedule <- Schedules2
    Recurring = {"daily"}
    Once = {"once"}
    Unreadable = {"unreadable"}
    Handler <- Handlers2
    MaxRequests = 2
    MaxQueue = 2
    MaxCrashes = 1
SPECIFICATION Spec
INVARIANTS TypeOK SchedulerAgrees
PROPERTIES OrphansStop
CHECK_DEADLOCK FALSE
