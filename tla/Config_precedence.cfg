SPECIFICATION Spec
CONSTANTS
    Builds <- AllBuilds
    Inputs <- MCInputs
INVARIANTS
    TypeOK
    TextsByPrecedence
    ModesAsAsked
    TlsTogether
CHECK_DEADLOCK FALSE
