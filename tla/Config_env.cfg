SPECIFICATION Spec
CONSTANTS
    Builds = {"rust"}
    Inputs <- MCEnvInputs
INVARIANT EnvironmentEnables
CHECK_DEADLOCK FALSE
