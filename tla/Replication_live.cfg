SPECIFICATION FairSpec
CONSTANTS
    n1 = n1
    n2 = n2
    w1 = w1
    w2 = w2
    e1 = e1
    e2 = e2
    Nodes = {n1, n2}
    Workers = {w1, w2}
    Events = {e1, e2}
    MaxStarts <- NoRestarts
    MaxRows = 2
    MaxForeign = 0
    Faults <- NoFaults
    ForeignValues = {}
    Invalid = Invalid
    None = None
PROPERTIES
    Converges
CHECK_DEADLOCK FALSE
