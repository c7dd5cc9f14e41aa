CONSTANTS
    NULL = NULL
    Calls <- MCCalls
    Envs <- MCEnvs
    PipeSize = 2
SPECIFICATION FairSpec
CHECK_DEADLOCK FALSE
INVARIANTS IndInv OutputExact HonestEnd NothingLeft
PROPERTIES CallEnds
