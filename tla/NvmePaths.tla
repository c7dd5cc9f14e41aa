----------------------------- MODULE NvmePaths -----------------------------
(***************************************************************************)
(* The nvme plugin (src/src/plugins/nvme/nvme-info.c, nvme-op.c,           *)
(* nvme-fabrics.c): admin commands on an open device, and NVMe over        *)
(* fabrics.  What the commands return is copied field by field, which      *)
(* cannot fail, and is left out.                                           *)
(***************************************************************************)
EXTENDS CallPaths

LOCAL FD == {"fd"}
_open_dev(R) == Open("fd", R)
_nvme_alloc(p, R) == Open(p, R)
\* A command of the device into a buffer for its answer.
LOCAL Command(p, R) == _nvme_alloc(p, R) ## Try(R \cup {p})

bd_nvme_self_test_result_to_string == Check({})
bd_nvme_get_controller_info ==
    _open_dev({}) ## Command("ctrl_id", FD) ## Free(FD) ## Free({"ctrl_id"})
\* The descriptors and the independent data are looked for only if the
\* version of the controller has them; without them the answer has less in it.
namespace_identify ==
    LET N == FD \cup {"ns_info"} IN
    _open_dev({}) ## Try(FD) ## Command("ns_info", FD) ## _nvme_alloc("ctrl_id", N)
    ## Opt(Take("descs")) ## Opt(Take("ns_info_ind")) ## Free(FD)
namespace_fill == Free({"ctrl_id", "ns_info", "ns_info_ind", "descs"})
bd_nvme_get_namespace_info == namespace_identify ## namespace_fill
bd_nvme_get_smart_log ==
    LET C == FD \cup {"ctrl_id"} IN
    _open_dev({}) ## Command("ctrl_id", FD) ## Command("smart_log", C)
    ## Free(FD) ## Free({"ctrl_id", "smart_log"})
bd_nvme_get_error_log_entries ==
    _open_dev({}) ## Command("ctrl_id", FD) ## Free({"ctrl_id"})
    ## Command("err_log", FD) ## Free(FD) ## Free({"err_log"})
bd_nvme_get_self_test_log ==
    _open_dev({}) ## Command("self_test_log", FD) ## Free(FD) ## Free({"self_test_log"})
bd_nvme_get_sanitize_log ==
    _open_dev({}) ## Command("sanitize_log", FD) ## Free(FD) ## Free({"sanitize_log"})

-----------------------------------------------------------------------------
bd_nvme_device_self_test ==
    Check({}) ## _open_dev({}) ## Try(FD) ## Do("self test", FD) ## Free(FD)
\* The format with the sizes wanted, or the one in use; there may be none.
find_lbaf_for_size(R) ==
    LET N == {"ns_info"} IN
    _nvme_alloc("ns_info", R) ## Try(R \cup N) ## Opt(Check(R \cup N)) ## Free(N)
\* A namespace is not formatted when the controller would format them all.
\* After the command the kernel has to read the device again.
bd_nvme_format ==
    LET C == FD \cup {"ctrl_id"}
        ThisOnly == Command("ctrl_id", FD) ## Check(C) ## Free({"ctrl_id"})
        Format == find_lbaf_for_size(FD) ## Do("formatted", FD)
    IN
    _open_dev({}) ## Try(FD)
    ## ((Format ## Try(FD)) \cup (ThisOnly ## Format ## Opt(Try(FD) ## Try(FD))))
    ## Free(FD)
bd_nvme_sanitize == Check({}) ## _open_dev({}) ## Do("sanitize", FD) ## Free(FD)

-----------------------------------------------------------------------------
\* Options that are not known, or that are no numbers, are passed over.
parse_extra_args == Opt(Just("keyring"))
\* The identity of the host is the caller's, or the one in a file, or made;
\* an identifier may also be part of the name.
connect_host ==
    LET H == {"host_nqn_val", "host_id_val"}
        Nqn == Check(H) ## Take("host_nqn_val")
    IN
    Check({}) ## Check({}) ## Check({})
    ## ((Take("host_id_val") ## Nqn) \cup (Nqn ## Check(H) ## Take("host_id_val")))
connect_ctrl ==
    LET H == {"host_nqn_val", "host_id_val"} IN
    parse_extra_args ## Take("root") ## Try(H \cup {"root"}) ## Free(H)
    ## Open("ctrl", {"root"}) ## Do("connected", {"ctrl", "root"}) ## Free({"ctrl", "root"})
bd_nvme_connect == connect_host ## connect_ctrl
\* Every controller that matches; one that fails ends it.
_disconnect(found) ==
    LET R == {"root"}
        One == Do("disconnected", R)
    IN
    Open("root", {}) ## Try(R) ## (IF found THEN One ## Opt(One) ELSE Nothing) ## Free(R)
bd_nvme_disconnect == _disconnect(TRUE) \cup (_disconnect(FALSE) ## Fail({}))
bd_nvme_disconnect_by_path == bd_nvme_disconnect
bd_nvme_find_ctrls_for_ns ==
    LET F == {"subsysnqn_p", "root"} IN Take("subsysnqn_p") ## Take("root") ## Free(F)
bd_nvme_find_namespaces_for_ctrl ==
    LET F == {"subsysnqn_p", "root"} IN Take("subsysnqn_p") ## Take("root") ## Free(F)
bd_nvme_get_host_nqn == Nothing                      \* empty without the file
bd_nvme_generate_host_nqn == Try({})
bd_nvme_get_host_id == Nothing
\* The directory may have to be made first, and stays.
LOCAL WriteFile(a) ==
    LET P == {"path"} IN Take("path") ## Opt(Do("directory", P)) ## Do(a, P) ## Free(P)
bd_nvme_set_host_nqn == WriteFile("hostnqn")
bd_nvme_set_host_id == WriteFile("hostid")

\* The functions by name.
NvmeFunctions ==
    [bd_nvme_self_test_result_to_string |-> bd_nvme_self_test_result_to_string,
     bd_nvme_get_controller_info |-> bd_nvme_get_controller_info,
     bd_nvme_get_namespace_info |-> bd_nvme_get_namespace_info,
     bd_nvme_get_smart_log |-> bd_nvme_get_smart_log,
     bd_nvme_get_error_log_entries |-> bd_nvme_get_error_log_entries,
     bd_nvme_get_self_test_log |-> bd_nvme_get_self_test_log,
     bd_nvme_get_sanitize_log |-> bd_nvme_get_sanitize_log,
     bd_nvme_device_self_test |-> bd_nvme_device_self_test,
     bd_nvme_format |-> bd_nvme_format,
     bd_nvme_sanitize |-> bd_nvme_sanitize,
     bd_nvme_connect |-> bd_nvme_connect,
     bd_nvme_disconnect |-> bd_nvme_disconnect,
     bd_nvme_disconnect_by_path |-> bd_nvme_disconnect_by_path,
     bd_nvme_find_ctrls_for_ns |-> bd_nvme_find_ctrls_for_ns,
     bd_nvme_find_namespaces_for_ctrl |-> bd_nvme_find_namespaces_for_ctrl,
     bd_nvme_get_host_nqn |-> bd_nvme_get_host_nqn,
     bd_nvme_generate_host_nqn |-> bd_nvme_generate_host_nqn,
     bd_nvme_get_host_id |-> bd_nvme_get_host_id,
     bd_nvme_set_host_nqn |-> bd_nvme_set_host_nqn,
     bd_nvme_set_host_id |-> bd_nvme_set_host_id]
=============================================================================
