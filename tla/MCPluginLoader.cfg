SPECIFICATION FairSpec
CONSTANTS
    Threads = {t1, t2}
    NoThread = NoThread
    la = la
    lb = lb
    zz = zz
    UNDEF <- MCUNDEF
    NotBuilt <- MCNotBuilt
    SoNames <- MCSoNames
    NFuncs = 2
    Provides <- MCProvides
    Configs <- MCConfigs
    Requests <- MCRequests
    Kinds = {"init", "ensure", "reinit"}
    NULL = NULL
    Stub = Stub
    Freed = Freed
    Quiesced = TRUE
INVARIANTS IndInv QuiescentDispatch NothingDangles
PROPERTIES SuccessMeansLoaded RegistrySpec LockReleased
