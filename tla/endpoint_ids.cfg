CONSTANTS
    MaxId = 2
    MaxMsgs = 3
    MaxIncoming = 2
    MaxTraffic = 3
    MaxSubs = 1
    MaxBreaks = 2
    MaxForks = 1
    SubscribesFrom = 2
    Qos = {1, 2}
    CleanSessions = {TRUE, FALSE}
    WaitsForConnack = TRUE
SPECIFICATION FairSpec
INVARIANTS TypeOK IdsAreUnique NothingForgotten DeliveredOnce DeliveredInOrder NothingMissed
PROPERTY IdsComeBack
CHECK_DEADLOCK FALSE
