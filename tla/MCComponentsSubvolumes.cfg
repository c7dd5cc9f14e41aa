SPECIFICATION Spec
CONSTANTS
    NoVersion = NoVersion
    MaxUint64 = 1000
    NFiles = 3
    Numerals <- Printed
    MaxFields = 2
    MaxLines = 5
    MaxSize = 31
    DEFAULT_PE_SIZE = 4
    LoopUsers = {t1, t2}
    Devices = {0}
    Offsets = {1}
    Tries = 2
    MaxLoopCalls = 2
    MaxUdev = 1
    NoDev = NoDev
    NoCall = NoCall
    MaxStops = 2
    MaxCrashes = 2
    LockTries = 6
    MaxEvents = 4
    ZfsUsers = {z1, z2}
    MaxZfsCalls = 3
    MaxFailures = 1
    Nobody = Nobody
    NoZfs = NoZfs
INVARIANT ParentsFirst
CHECK_DEADLOCK FALSE
