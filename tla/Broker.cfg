CONSTANTS
    m1 = m1  q1 = q1
    Msg = {m1}
    Queue = {q1}
    Conn = {1, 2, 3, 4, 5, 6, 7}
    MaxFaults = 1
SPECIFICATION FairSpec
INVARIANTS TypeOK ChannelsLive PublishedOnce
PROPERTIES OfflineDrains
CHECK_DEADLOCK FALSE
