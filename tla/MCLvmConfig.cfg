CONSTANTS
    t1 = t1
    t2 = t2
    Threads = {t1, t2}
    NoThread = NoThread
    Configs = {c1}
    Devices = {d1}
    Policies = {sync}
    Calls <- MCCalls
    NULL = NULL
SPECIFICATION FairSpec
CHECK_DEADLOCK FALSE
INVARIANTS ConfigKept
PROPERTIES CallsReturn
