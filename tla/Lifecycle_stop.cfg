SPECIFICATION FairSpec
CONSTANTS
    w1 = w1
    w2 = w2
    Workers = {w1, w2}
    Modes <- AllModes
INVARIANTS
    TypeOK
    ConfigOutlivesThreads
    NoPutAfterDelete
PROPERTIES
    SignalEndsProcess
CHECK_DEADLOCK FALSE
