CONSTANTS
    MaxId = 2
    MaxMsgs = 1
    MaxIncoming = 0
    MaxTraffic = 0
    MaxSubs = 1
    MaxBreaks = 0
    MaxForks = 1
    SubscribesFrom = 0
    Qos = {1}
    CleanSessions = {TRUE}
    WaitsForConnack = TRUE
SPECIFICATION Spec
INVARIANT ForksShareNoIds
CHECK_DEADLOCK FALSE
