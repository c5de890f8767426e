SPECIFICATION FairSpec
CONSTANTS
    m1 = m1
    m2 = m2
    f1 = f1
    Messages = {m1, m2}
    Foreign = {f1}
    Long = {m2, f1}
    Variants <- AllVariants
    Modes <- MCModes
    Faults <- FaultKinds
    Transports <- MCTransports
    WorkerThreads = 1
INVARIANTS
    TypeOK
    LogCoversTable
    PostedIsStored
    AnsweredIsStored
PROPERTIES
    SentIsHandled
CHECK_DEADLOCK FALSE
