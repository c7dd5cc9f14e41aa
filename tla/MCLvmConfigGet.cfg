CONSTANTS
    t1 = t1
    t2 = t2
    Threads = {t1}
    NoThread = NoThread
    Configs = {c1}
    Devices = {d1}
    Policies = {sync}
    Calls <- MCCalls
    NULL = NULL
SPECIFICATION Spec
CHECK_DEADLOCK FALSE
PROPERTIES ConfigGetIncludesConfig
