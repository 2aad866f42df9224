CONSTANTS
    Lowest = 1
    Highest = 7
SPECIFICATION Spec
INVARIANTS TypeOK Separated
PROPERTY ImplementsPool
