CONSTANTS
    c1 = c1  x = x
    Clients = {c1}
    Instances = {x}
    Functions <- MCFunctions
    RFunctions = {"f", "d", "e"}
    Fatal = {"d"}
    Endless = {"e"}
    Menu <- MixedMenu
    MaxCalls = 3
SPECIFICATION FairSpec
INVARIANTS TypeOK OneReplyPerCall
PROPERTY CallsAreAnswered
CHECK_DEADLOCK FALSE
