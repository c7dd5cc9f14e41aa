----------------------------- MODULE UtilsPaths -----------------------------
(***************************************************************************)
(* Kernel modules, devices and D-Bus services (src/src/utils/module.c,     *)
(* dev_utils.c, dbus.c).                                                   *)
(***************************************************************************)
EXTENDS CallPaths

LOCAL C == {"c_locale"}
LOCAL CC == C \cup {"ctx"}
LOCAL Kmod == Take("c_locale") ## Open("ctx", C)
\* A module that is not known is not there, and no error.
bd_utils_have_kernel_module ==
    LET L == CC \cup {"list"} IN
    Kmod ## Open("list", CC) ## Opt(Free({"list"}) ## Ask(CC) ## Fail(CC))
    ## Take("mod") ## Free({"mod"}) ## Ask(L) ## Free(L)
bd_utils_load_kernel_module ==
    LET M == CC \cup {"mod"} IN Kmod ## Open("mod", CC) ## Try(M) ## Do("loaded", M) ## Free(M)
\* The loaded modules are gone through one by one up to the one wanted.
bd_utils_unload_kernel_module ==
    LET M == CC \cup {"mod"} IN
    Kmod ## Open("list", CC) ## Loop(Take("mod") ## Free({"mod"}))
    ## ((Free({"list"}) ## Fail(CC))
        \cup (Take("mod") ## Free({"list"}) ## Do("unloaded", M) ## Free(M)))
\* The version is remembered, under a lock that the caller may hold.
_get_linux_version(lock) ==
    LET L == IF lock THEN {"lock"} ELSE {} IN
    (IF lock THEN Take("lock") ELSE Nothing)
    ## Opt(Enough(L) ## Try(L) ## Try(L) ## Try(L)) ## Free(L)
bd_utils_get_linux_version == _get_linux_version(TRUE)
\* Without a version, the one compared with is 0.0.0.
bd_utils_check_linux_version == Take("lock") ## Free({"lock"})

_is_block_device(R) == Try(R) ## Try(R)
\* What is no link has to be a device, and so has what a link names.
bd_utils_resolve_device == Opt(Try({})) ## _is_block_device({})
bd_utils_get_device_symlinks ==
    LET F == {"dev_path", "context"}
        D == {"device", "context"}
    IN
    Open("dev_path", {}) ## Take("context") ## Open("device", F)
    ## Try(D \cup F) ## Free({"dev_path"}) ## Free(D)

\* The service runs or can be started, and its object answers.
bd_utils_dbus_service_available ==
    LET B == {"bus"} IN
    (Take("bus") \cup Open("bus", {})) ## Try(B) ## Try(B) ## Ask(B) ## Try(B) ## Free(B)

\* The functions by name.
UtilsFunctions ==
    [bd_utils_have_kernel_module |-> bd_utils_have_kernel_module,
     bd_utils_load_kernel_module |-> bd_utils_load_kernel_module,
     bd_utils_unload_kernel_module |-> bd_utils_unload_kernel_module,
     bd_utils_get_linux_version |-> bd_utils_get_linux_version,
     bd_utils_check_linux_version |-> bd_utils_check_linux_version,
     bd_utils_resolve_device |-> bd_utils_resolve_device,
     bd_utils_get_device_symlinks |-> bd_utils_get_device_symlinks,
     bd_utils_dbus_service_available |-> bd_utils_dbus_service_available]
=============================================================================
