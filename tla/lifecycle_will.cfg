CONSTANTS
    MaxRuns = 1
    MaxRequests = 1
    MaxSignals = 0
    MayBreak = TRUE
    Menu = {"finite","endless","unparsable","anonymous"}
SPECIFICATION Spec
INVARIANT WillSaysOffline
CHECK_DEADLOCK FALSE
