CONSTANTS
    MaxCalls = 3
    Instances = {"x", "y"}
    Slots <- MCSlots
    Ops <- AllOps
    Sequential = TRUE
SPECIFICATION FairSpec
INVARIANT TypeOK
PROPERTIES ImplementsService CallsAreAnswered
CHECK_DEADLOCK FALSE
