---------------------------- MODULE DevicePaths ----------------------------
(***************************************************************************)
(* The loop, swap, dm, mpath, nvdimm and s390 plugins (src/src/plugins/    *)
(* loop.c, swap.c, dm.c, mpath.c, nvdimm.c, s390.c).                       *)
(***************************************************************************)
EXTENDS CallPaths

LOCAL T == {"task"}
LOCAL Started == Take("task")
LOCAL Run(a) == Try({}) ## Do(a, {})                 \* check_deps, then the program

-----------------------------------------------------------------------------
\* A missing file of sysfs is no error, one that cannot be read is.
_loop_get_backing_file(R) == Try(R)
bd_loop_info ==
    Open("fd", {}) ## Try({"fd"}) ## Free({"fd"}) ## Take("info")
    ## _loop_get_backing_file({"info"}) ## Free({"info"})
bd_loop_get_loop_name ==
    Ask({}) ## Take("globbuf") ## Ask({"globbuf"}) ## Free({"globbuf"})

\* The free device is found under a lock and associated without it.
loop_associate(R) ==
    LET F == R \cup {"task", "loop_fd"} IN
    Started ## Open("loop_control_fd", R \cup T) ## Free({"loop_control_fd"}) ## Try(R \cup T)
    ## Open("loop_fd", R \cup T) ## Do("associated", F)
\* LOOP_SET_STATUS64 and LOOP_SET_BLOCK_SIZE are tried ten times; when they
\* fail the association is given up, if the kernel lets go.
loop_configure(R) ==
    LET F == R \cup {"task", "loop_fd"}
        GiveUp == (Undo("associated") \cup Nothing) ## Fail(F)
    IN
    (GiveUp \cup Just("status")) ## (GiveUp \cup Nothing) ## Free({"loop_fd", "task"})
loop_setup_from_fd(R) == loop_associate(R) ## loop_configure(R)
bd_loop_setup_from_fd == loop_setup_from_fd({})
bd_loop_setup == Open("fd", {}) ## loop_setup_from_fd({"fd"}) ## Free({"fd"})

bd_loop_teardown ==
    LET F == {"loop_fd", "task"} IN Started ## Open("loop_fd", T) ## Do("cleared", F) ## Free(F)
bd_loop_set_autoclear ==
    LET F == {"fd", "task"} IN
    Started ## Open("fd", T) ## Try(F) ## Do("autoclear", F) ## Free(F)
bd_loop_set_capacity ==
    LET F == {"fd", "task"} IN Started ## Open("fd", T) ## Do("capacity", F) ## Free(F)

-----------------------------------------------------------------------------
bd_swap_mkswap == Run("mkswap")
\* bd_swap_swapon up to the system call: the kind of signature and the size
\* of a page decide whether the device can be used.
swapon_analyse ==
    LET F == {"probe", "fd", "task"} IN
    Open("probe", T) ## Open("fd", {"probe", "task"}) ## Try(F)
    ## Try(F) ## Try(F) ## Try(F) ## Try(F) ## Try(F) ## Try(F) ## Try(F)
    ## Free({"probe", "fd"}) ## Try(T)
swapon_enable == Do("active", T) ## Free(T)
bd_swap_swapon == Started ## swapon_analyse ## swapon_enable
bd_swap_swapoff == Started ## Do("inactive", T) ## Free(T)
bd_swap_swapstatus ==
    Open("file_content", {}) ## Opt(Ask({"file_content"}) ## Take("real_device"))
    ## Ask({"real_device", "file_content"}) ## Free({"real_device", "file_content"})
bd_swap_check_label == Check({})
bd_swap_set_label == Run("label")
bd_swap_check_uuid == Check({}) ## Check({})
bd_swap_set_uuid == Run("uuid")

-----------------------------------------------------------------------------
bd_dm_create_linear == Run("created")
bd_dm_remove == Run("removed")
bd_dm_name_from_node == Check({}) ## Try({}) ## Try({})
bd_dm_node_from_name == Check({}) ## Try({})
LOCAL DT == {"dm_task"}
\* A map without a UUID has no subsystem.
bd_dm_get_subsystem_from_name ==
    Open("dm_task", {}) ## Try(DT) ## Try(DT) ## Try(DT) ## Try(DT) ## Enough(DT) ## Free(DT)
\* A map whose task cannot be set up is passed over.
bd_dm_map_exists ==
    LET L == {"task_list"}
        Map == Open("task_info", L) ## Free({"task_info"})
    IN
    Try({}) ## Open("task_list", {}) ## Ask(L) ## Loop(Map) ## Ask(L) ## Free(L)

-----------------------------------------------------------------------------
bd_mpath_flush_mpaths == Run("flushed") ## Try({})
get_device_name(R) == Try(R) ## Try(R)
map_is_multipath(R) ==
    LET D == R \cup DT IN Open("dm_task", R) ## Try(D) ## Try(D) ## Try(D) ## Free(DT)
\* The task outlives a device without a name.
get_map_deps(R) ==
    LET D == R \cup DT IN
    Open("dm_task", R) ## Try(D) ## Try(D) ## Try(D) ## Take("deps")
    ## Loop(get_device_name(R \cup {"deps"})) ## Free(DT)
bd_mpath_is_mpath_member ==
    LET N == {"task_names"}  All == N \cup {"dev_path"} IN
    Open("task_names", {}) ## Ask(N) ## Opt(Ask(N) ## Take("dev_path"))
    ## map_is_multipath(All) ## Opt(get_map_deps(All) ## Free({"deps"}))
    ## Ask(All) ## Free(All)
\* Maps that are not multipath, or cannot be read, are passed over; the list
\* of names is kept.  The members move from deps to ret; when a later map fails,
\* the array is freed and the members in it are not.
bd_mpath_get_mpath_members ==
    LET N == {"task_names", "task"} IN
    Started ## Open("task_names", T) ## Ask(N) ## Take("ret")
    ## Loop(get_map_deps(N \cup {"ret"}) ## Opt(Take("ret members")) ## Free({"deps"}))
    ## Free({"task", "ret", "ret members"})
bd_mpath_set_friendly_names == Run("friendly names")

-----------------------------------------------------------------------------
LOCAL C == {"ctx"}
bd_nvdimm_namespace_get_mode_from_str == Check({})
bd_nvdimm_namespace_get_mode_str == Check({})
get_namespace_by_name == Try(C)
\* Namespaces that are not active or have no block device are passed over.
bd_nvdimm_namespace_get_devname == Open("ctx", {}) ## Ask(C) ## Free(C)
bd_nvdimm_namespace_enable == Open("ctx", {}) ## get_namespace_by_name ## Do("enabled", C) ## Free(C)
bd_nvdimm_namespace_disable == Open("ctx", {}) ## get_namespace_by_name ## Do("disabled", C) ## Free(C)
\* A mode without the device that it needs is an error.
get_nvdimm_namespace_info(R) == Take("info") ## Try(R \cup {"info"})
bd_nvdimm_namespace_info ==
    Open("ctx", {}) ## Ask(C) ## get_nvdimm_namespace_info(C) ## Free(C \cup {"info"})
\* The list is made before the context, and forgotten when it stays empty.
bd_nvdimm_list_namespaces ==
    LET N == C \cup {"namespaces"} IN
    Take("namespaces") ## Open("ctx", {}) ## Ask(C)
    ## Loop(get_nvdimm_namespace_info(N) ## Free({"info"})) ## Free(N)
bd_nvdimm_namespace_reconfigure == Try({}) ## Check({}) ## Do("reconfigured", {})
bd_nvdimm_namespace_get_supported_sector_sizes == Check({})

-----------------------------------------------------------------------------
LOCAL F == {"fd", "task"}
bd_s390_dasd_format == Run("format")
bd_s390_dasd_needs_format == Open("fd", {}) ## Free({"fd"}) ## Try({}) ## Ask({})
\* A device that is ignored is freed first.
bd_s390_dasd_online ==
    Started ## (Take("fd") \cup Do("freed", T) ## Open("fd", T))
    ## Try(F) ## Try(F) ## Free({"fd"}) ## Do("online", T) ## Free(T)
bd_s390_dasd_is_ldl == Open("f", {}) ## Ask({"f"}) ## Ask({"f"}) ## Free({"f"}) ## Ask({})
bd_s390_dasd_is_fba == Open("f", {}) ## Ask({"f"}) ## Ask({"f"}) ## Free({"f"}) ## Ask({})
bd_s390_sanitize_dev_input == Check({})
bd_s390_zfcp_sanitize_wwpn_input == Check({})
bd_s390_zfcp_sanitize_lun_input == Check({})
\* bd_s390_zfcp_online: the adapter, the port and the LUN.
zfcp_adapter_online ==
    Started ## (Take("fd") \cup Do("freed", T) ## Open("fd", T))
    ## Try(F) ## Free({"fd"}) ## Opt(Do("online", T))
zfcp_lun_add ==
    Open("pdfd", T) ## Free({"pdfd"}) ## Open("fd", T) ## Do("lun", F) ## Free({"fd"})
    ## Open("fd", T) ## Try(F) ## Try(F) ## Free(F)
bd_s390_zfcp_online == zfcp_adapter_online ## zfcp_lun_add
\* One line of /proc/scsi/scsi: the adapter, the port and the LUN are read
\* from sysfs, and the device deleted when all three are the caller's.
LOCAL ReadId(R) == Open("fd", R) ## Try(R \cup {"fd"}) ## Free({"fd"})
scsi_offline_line(R) ==
    LET S == R \cup {"scsifd", "scsidev"}
        H == S \cup {"fcphbasysfs"}
        W == H \cup {"fcpwwpnsysfs"}
        L == W \cup {"fcplunsysfs"}
    IN
    Take("scsidev") ## ReadId(S) ## Take("fcphbasysfs")
    ## ReadId(H) ## Take("fcpwwpnsysfs")
    ## ReadId(W) ## Take("fcplunsysfs")
    ## Opt(Open("fd", L) ## Do("scsi device deleted", L \cup {"fd"}) ## Free({"fd"}))
    ## Free({"scsidev", "fcphbasysfs", "fcpwwpnsysfs", "fcplunsysfs"})
zfcp_scsi_offline(R) == Open("scsifd", R) ## Loop(scsi_offline_line(R)) ## Free({"scsifd"})
bd_s390_zfcp_scsi_offline == Started ## zfcp_scsi_offline(T) ## Free(T)
\* The LUN is removed from the kernel, from the port, and the adapter is
\* taken offline.  The call of the first has a task of its own.
bd_s390_zfcp_offline ==
    Started ## zfcp_scsi_offline(T) ## Open("fd", T) ## Do("lun", F) ## Free({"fd"})
    ## Take("luns") ## Try({"luns", "task"}) ## Free({"luns"}) ## Do("offline", T) ## Free(T)

\* The functions by name.
DeviceFunctions ==
    [bd_loop_info |-> bd_loop_info,
     bd_loop_get_loop_name |-> bd_loop_get_loop_name,
     bd_loop_setup_from_fd |-> bd_loop_setup_from_fd,
     bd_loop_setup |-> bd_loop_setup,
     bd_loop_teardown |-> bd_loop_teardown,
     bd_loop_set_autoclear |-> bd_loop_set_autoclear,
     bd_loop_set_capacity |-> bd_loop_set_capacity,
     bd_swap_mkswap |-> bd_swap_mkswap,
     bd_swap_swapon |-> bd_swap_swapon,
     bd_swap_swapoff |-> bd_swap_swapoff,
     bd_swap_swapstatus |-> bd_swap_swapstatus,
     bd_swap_check_label |-> bd_swap_check_label,
     bd_swap_set_label |-> bd_swap_set_label,
     bd_swap_check_uuid |-> bd_swap_check_uuid,
     bd_swap_set_uuid |-> bd_swap_set_uuid,
     bd_dm_create_linear |-> bd_dm_create_linear,
     bd_dm_remove |-> bd_dm_remove,
     bd_dm_name_from_node |-> bd_dm_name_from_node,
     bd_dm_node_from_name |-> bd_dm_node_from_name,
     bd_dm_get_subsystem_from_name |-> bd_dm_get_subsystem_from_name,
     bd_dm_map_exists |-> bd_dm_map_exists,
     bd_mpath_flush_mpaths |-> bd_mpath_flush_mpaths,
     bd_mpath_is_mpath_member |-> bd_mpath_is_mpath_member,
     bd_mpath_get_mpath_members |-> bd_mpath_get_mpath_members,
     bd_mpath_set_friendly_names |-> bd_mpath_set_friendly_names,
     bd_nvdimm_namespace_get_mode_from_str |-> bd_nvdimm_namespace_get_mode_from_str,
     bd_nvdimm_namespace_get_mode_str |-> bd_nvdimm_namespace_get_mode_str,
     bd_nvdimm_namespace_get_devname |-> bd_nvdimm_namespace_get_devname,
     bd_nvdimm_namespace_enable |-> bd_nvdimm_namespace_enable,
     bd_nvdimm_namespace_disable |-> bd_nvdimm_namespace_disable,
     bd_nvdimm_namespace_info |-> bd_nvdimm_namespace_info,
     bd_nvdimm_list_namespaces |-> bd_nvdimm_list_namespaces,
     bd_nvdimm_namespace_reconfigure |-> bd_nvdimm_namespace_reconfigure,
     bd_nvdimm_namespace_get_supported_sector_sizes |-> bd_nvdimm_namespace_get_supported_sector_sizes,
     bd_s390_dasd_format |-> bd_s390_dasd_format,
     bd_s390_dasd_needs_format |-> bd_s390_dasd_needs_format,
     bd_s390_dasd_online |-> bd_s390_dasd_online,
     bd_s390_dasd_is_ldl |-> bd_s390_dasd_is_ldl,
     bd_s390_dasd_is_fba |-> bd_s390_dasd_is_fba,
     bd_s390_sanitize_dev_input |-> bd_s390_sanitize_dev_input,
     bd_s390_zfcp_sanitize_wwpn_input |-> bd_s390_zfcp_sanitize_wwpn_input,
     bd_s390_zfcp_sanitize_lun_input |-> bd_s390_zfcp_sanitize_lun_input,
     bd_s390_zfcp_online |-> bd_s390_zfcp_online,
     bd_s390_zfcp_scsi_offline |-> bd_s390_zfcp_scsi_offline,
     bd_s390_zfcp_offline |-> bd_s390_zfcp_offline]
=============================================================================
