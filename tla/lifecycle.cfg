CONSTANTS
    MaxRuns = 2
    MaxRequests = 1
    MaxSignals = 1
    MayBreak = TRUE
    Menu = {"finite","endless","unparsable","anonymous"}
SPECIFICATION FairSpec
INVARIANT TypeOK
PROPERTIES LeavesOffline NewRunSpeaks InterruptedEnds InterruptedIsTold LossEndsAgent GoneIsNoticed
CHECK_DEADLOCK FALSE
