SPECIFICATION Spec
CONSTANTS
    w1 = w1
    w2 = w2
    Workers = {w1}
    Modes <- CMode
INVARIANTS
    DhtNodeThere
CHECK_DEADLOCK FALSE
