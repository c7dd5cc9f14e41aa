CONSTANTS
    NULL = NULL
    Calls <- MCCallsNoChild
    Envs <- MCEnvsNoChild
    PipeSize = 2
SPECIFICATION Spec
CHECK_DEADLOCK FALSE
INVARIANTS SuccessAsDocumented
