---------------------------- MODULE FsTypePaths ----------------------------
(***************************************************************************)
(* The file systems one by one (src/src/plugins/fs/{ext,xfs,vfat,ntfs,     *)
(* f2fs,nilfs,exfat,btrfs,udf,zfs,common}.c): programs run on a device.    *)
(* "info" is the record a get_info function fills, "lines" and "output"    *)
(* what it parses.  R is what the caller gives back when a function that   *)
(* it calls fails.                                                         *)
(***************************************************************************)
EXTENDS CallPaths

LOCAL Deps(R) == Try(R)                              \* check_deps
LOCAL Run(a, R) == Deps(R) ## Do(a, R)               \* bd_utils_exec_and_report_error
LOCAL Capture(R) == Try(R)                           \* bd_utils_exec_and_capture_output
\* A checking program; one exit status says that errors were found.
LOCAL RunCheck == Deps({}) ## Try({}) ## Ask({})
\* The output is parsed with n places where it may turn out to be unusable.
LOCAL Parse(n, R) ==
    Take("lines") ## (IF n = 3 THEN Try(R \cup {"lines"}) ELSE Nothing)
    ## (IF n \in {2, 3} THEN Try(R \cup {"lines"}) ELSE Nothing)
    ## Try(R \cup {"lines"}) ## Free({"lines"})

check_uuid == Check({}) ## Check({})

get_uuid_label(R) ==
    LET PF == R \cup {"probe", "fd"} IN
    Open("probe", R) ## Open("fd", R \cup {"probe"}) ## Try(PF) ## Try(PF)
    ## Opt(Try(PF)) ## Opt(Try(PF)) ## Free({"probe", "fd"})

\* common.c and then the parsing: the shape of most get_info functions.
LOCAL InfoOf(n, R) ==
    LET I == R \cup {"info"} IN
    Deps(R) ## Take("info") ## get_uuid_label(I) ## Capture(I) ## Parse(n, I)

-----------------------------------------------------------------------------
ext_mkfs == Run("mkfs", {})
ext_check == RunCheck
\* e2fsck says with its exit status that errors were corrected.
ext_repair == Run("repair", {})
ext_set_label == Run("label", {})
bd_fs_ext2_check_label == Check({})
ext_set_uuid == Run("uuid", {})
ext_get_info(R) == Open("fs", R) ## Take("info") ## Free({"fs"})
bd_fs_ext4_get_info == ext_get_info({}) ## Free({"info"})
ext_resize == Run("size", {})
bd_fs_ext2_get_min_size ==
    Deps({}) ## ext_get_info({}) ## Capture({"info"}) ## Take("lines")
    ## Try({"lines", "info"}) ## Free({"lines", "info"})

bd_fs_xfs_mkfs == Run("mkfs", {})
bd_fs_xfs_check == RunCheck
bd_fs_xfs_repair == Run("repair", {})
bd_fs_xfs_set_label == Run("label", {})
bd_fs_xfs_check_label == Check({}) ## Check({})
bd_fs_xfs_set_uuid == Run("uuid", {})
\* xfs_spaceman for a mounted file system, xfs_db for another one.
xfs_get_info(R) == InfoOf(3, R)
bd_fs_xfs_resize(R) == Run("size", R)

bd_fs_vfat_mkfs == Run("mkfs", {})
bd_fs_vfat_check == RunCheck
\* fsck.vfat runs again to see whether the errors it met are gone.
bd_fs_vfat_repair == Run("repair", {}) ## Opt(Try({}))
bd_fs_vfat_set_label == Run("label", {})
bd_fs_vfat_check_label == Check({}) ## Check({})
bd_fs_vfat_set_uuid == Run("uuid", {})
bd_fs_vfat_check_uuid == Check({}) ## Check({})
\* key_val is one of the lines.
bd_fs_vfat_get_info ==
    LET I == {"info"}  L == {"info", "lines", "key_val"} IN
    Deps({}) ## Take("info") ## get_uuid_label(I) ## Capture(I) ## Take("lines")
    ## Opt(Take("key_val") ## Try(L) ## Free({"key_val"})) ## Free({"lines", "info"})
bd_fs_vfat_resize == Run("size", {})

bd_fs_ntfs_mkfs == Run("mkfs", {})
bd_fs_ntfs_check == RunCheck
bd_fs_ntfs_repair == Run("repair", {})
bd_fs_ntfs_set_label == Run("label", {})
bd_fs_ntfs_check_label == Check({})
bd_fs_ntfs_set_uuid == Deps({}) ## Check({}) ## Do("uuid", {})
bd_fs_ntfs_check_uuid == Check({}) ## Check({})
bd_fs_ntfs_resize == Run("size", {})
\* ntfsinfo cannot read a mounted file system.
bd_fs_ntfs_get_info ==
    LET I == {"info"} IN
    Deps({}) ## Try({}) ## Try({}) ## Take("info") ## get_uuid_label(I) ## Capture(I)
    ## Parse(3, I) ## Free(I)
bd_fs_ntfs_get_min_size ==
    Deps({}) ## Capture({}) ## Take("lines") ## Try({"lines"}) ## Free({"lines"})

\* The old versions that cannot tell their version have no --dry-run.  Any
\* other error is kept, and the answer is yes.
can_check_f2fs_version(R) == Nothing \cup Take("loc_error") \cup Fail(R)
bd_fs_f2fs_mkfs == Run("mkfs", {})
\* The version is looked at by bd_fs_f2fs_is_tech_avail.
bd_fs_f2fs_check == can_check_f2fs_version({}) ## RunCheck
bd_fs_f2fs_repair == Run("repair", {})
f2fs_get_info(R) ==
    LET I == R \cup {"info"} IN
    Deps(R) ## Capture(R) ## Take("output") ## Take("info")
    ## get_uuid_label(I \cup {"output"}) ## Free({"output"}) ## Parse(2, I)
\* Shrinking is for safe resizes only.
bd_fs_f2fs_resize ==
    Deps({}) ## Opt(can_check_f2fs_version({}) ## Deps({}))
    ## f2fs_get_info({}) ## Check({"info"}) ## Free({"info"}) ## Do("size", {})
bd_fs_f2fs_check_label == Check({})

bd_fs_nilfs2_mkfs == Run("mkfs", {})
bd_fs_nilfs2_set_label == Run("label", {})
bd_fs_nilfs2_check_label == Check({})
bd_fs_nilfs2_set_uuid == Run("uuid", {})
bd_fs_nilfs2_get_info == InfoOf(3, {}) ## Free({"info"})
bd_fs_nilfs2_resize(R) == Run("size", R)

bd_fs_exfat_mkfs == Run("mkfs", {})
bd_fs_exfat_check == RunCheck
bd_fs_exfat_repair == Run("repair", {})
bd_fs_exfat_set_label == Run("label", {})
bd_fs_exfat_check_label == Check({}) ## Check({})
bd_fs_exfat_set_uuid == Run("uuid", {})
bd_fs_exfat_check_uuid == Check({}) ## Check({})
bd_fs_exfat_get_info == InfoOf(1, {}) ## Free({"info"})

bd_fs_btrfs_mkfs == Run("mkfs", {})
bd_fs_btrfs_check == Deps({}) ## Try({})
bd_fs_btrfs_repair == Run("repair", {})
bd_fs_btrfs_set_label(R) == Run("label", R)
bd_fs_btrfs_check_label == Check({}) ## Check({})
bd_fs_btrfs_set_uuid == Run("uuid", {})
\* output is freed at every return, but the second program's output replaces
\* the first one's.
bd_fs_btrfs_get_info(R) ==
    LET X == R \cup {"regex"}
        M == X \cup {"match_info", "output"}
        I == R \cup {"info", "output", "output 2"}
    IN
    Deps(R) ## Open("regex", R) ## Capture(X) ## Take("output")
    ## Take("match_info") ## Try(M) ## Take("info") ## Try(M \cup {"info"})
    ## Free({"match_info", "regex"}) ## Try(I) ## Take("output 2") ## Try(I \ {"output"})
    ## Free({"output 2"})
bd_fs_btrfs_resize(R) == Deps(R) ## bd_fs_btrfs_get_info(R) ## Free({"info"}) ## Do("size", R)

get_blocksize(R) == Open("fd", R) ## Try(R \cup {"fd"}) ## Free({"fd"})
bd_fs_udf_mkfs == Deps({}) ## Opt(get_blocksize({})) ## Do("mkfs", {})
bd_fs_udf_check_label == Check({})
bd_fs_udf_set_label == Deps({}) ## bd_fs_udf_check_label ## Do("label", {})
bd_fs_udf_set_uuid == Run("uuid", {})
bd_fs_udf_check_uuid == Check({}) ## Check({})
\* A table without a single item is of no use.
parse_udf_vars(R) == Take("table") ## Try(R \cup {"table"})
get_udf_data_from_table == Take("info") ## Free({"table"})
bd_fs_udf_get_info ==
    Deps({}) ## Capture({}) ## parse_udf_vars({}) ## get_udf_data_from_table
    ## get_uuid_label({"info"}) ## Free({"info"})

\* Renaming a pool is left to the zfs plugin.
bd_fs_zfs_set_label == Fail({})
zfs_check_label(R) == Check(R)
bd_fs_zfs_check_label == zfs_check_label({})
bd_fs_zfs_check_uuid == Check({}) ## Check({})
\* zdb reads the name of the pool from the device.  The name is checked like
\* the label of a caller.
resolve_pool_name_from_device ==
    Check({}) ## Try({}) ## Take("pool_name") ## Try({"pool_name"}) ## Try({"pool_name"})
bd_fs_zfs_get_info ==
    Deps({}) ## resolve_pool_name_from_device ## Try({"pool_name"}) ## Free({"pool_name"})
    ## Try({}) ## Take("lines") ## Try({"lines"}) ## Free({"lines"})
    ## Take("fields") ## Try({"fields"}) ## Free({"fields"})
=============================================================================
