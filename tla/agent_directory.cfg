CONSTANTS
    c1 = c1  c2 = c2  x = x
    Clients = {c1, c2}
    Instances = {x}
    Functions <- MCFunctions
    RFunctions = {"f"}
    Fatal = {}
    Endless = {}
    Menu <- DirectoryMenu
    MaxCalls = 4
SPECIFICATION Spec
INVARIANTS RepliesAnswerTheirCalls ReachableIsListed DirectoryFollowsAgent CreatedIsUsable DeletedIsUnreachable OneDeletionPerCreation
CHECK_DEADLOCK FALSE
SYMMETRY Symmetry
