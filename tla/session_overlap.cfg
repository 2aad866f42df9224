CONSTANTS
    MaxCalls = 3
    Instances = {"x", "y"}
    Slots <- MCSlots
    Ops <- AllOps
    Sequential = FALSE
SPECIFICATION Spec
INVARIANTS LostOnlyToOverlap UnreadableOnlyByOverlap SessionsSeparate
CHECK_DEADLOCK FALSE
