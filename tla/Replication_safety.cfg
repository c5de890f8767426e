SPECIFICATION Spec
CONSTANTS
    n1 = n1
    n2 = n2
    w1 = w1
    w2 = w2
    e1 = e1
    e2 = e2
    Nodes = {n1, n2}
    Workers = {w1, w2}
    Events = {e1, e2}
    MaxStarts <- N2Restarts
    MaxRows = 2
    MaxForeign = 1
    Faults <- AllFaults
    ForeignValues <- Foreigners
    Invalid = Invalid
    None = None
INVARIANTS
    TypeOK
    NoDuplicateRows
    StoreBeforeShare
    TrueOrigin
    OwnEventOnce
PROPERTIES
    ImplementsPool
CHECK_DEADLOCK FALSE
