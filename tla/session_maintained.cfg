CONSTANTS
    MaxCalls = 2
    Instances = {"x"}
    Slots <- MCSlots
    Ops <- SetLook
    Sequential = FALSE
SPECIFICATION Spec
INVARIANT StateMaintained
CHECK_DEADLOCK FALSE
