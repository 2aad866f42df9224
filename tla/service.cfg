CONSTANTS
    c1 = c1
    Clients = {c1}
    Instances = {"x"}
    Functions <- MCFunctions
    RFunctions = {"set", "draw"}
    Fatal = {"set", "draw"}
    Endless = {}
    Menu <- MCMenu
    MaxCalls = 5
    MaxOpen = 2
    MaxStatic = 1
    Slots <- MCSlots
    Ops <- MCOps
    OpOf <- MCOpOf
SPECIFICATION FairService
PROPERTIES ImplementsRpc ServiceAnswers
CHECK_DEADLOCK FALSE
