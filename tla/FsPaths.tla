------------------------------ MODULE FsPaths ------------------------------
(***************************************************************************)
(* The operations of the fs plugin on any file system and the mounting     *)
(* (src/src/plugins/fs/generic.c, mount.c).  "mount" and "mountpoint" are  *)
(* the temporary mount and its directory: some file systems can only be    *)
(* resized, labelled or looked at while they are mounted.                  *)
(***************************************************************************)
EXTENDS FsTypePaths

LOCAL T == {"task"}
LOCAL PF == {"probe", "fd"}

\* set_device and the probing are tried five times.  A first signature that
\* is gone does not come back when a later one cannot be wiped.
wipe_signatures(nothing) ==
    LET All == {"probe", "fd", "task"} IN
    Take("task") ## Open("probe", T) ## Open("fd", {"probe", "task"}) ## Try(All)
    ## nothing ## Try(All) ## Do("signature", All) ## Loop(Do("signature", All)) ## Free(All)
bd_fs_wipe == wipe_signatures(Try({"probe", "fd", "task"}))
\* Nothing to wipe is not an error here.
bd_fs_clean == wipe_signatures(Enough({"probe", "fd", "task"}))

get_fstype(nothing) ==
    Open("probe", {}) ## Open("fd", {"probe"}) ## Try(PF) ## Try(PF) ## nothing
    ## Try(PF) ## Try(PF) ## Try(PF) ## Free(PF)
bd_fs_get_fstype == get_fstype(Ask(PF))
\* The caller names the file system or it is detected; none is an error then.
LOCAL Detect == Opt(get_fstype(Try(PF)))

-----------------------------------------------------------------------------
LOCAL TC == {"table", "cache"}
\* No mount point, or one without a target: no error.
bd_fs_get_mountpoint == Take("table") ## Take("cache") ## Try(TC) ## Ask(TC) ## Free(TC)
bd_fs_is_mountpoint == Take("table") ## Take("cache") ## Try(TC) ## Ask(TC) ## Free(TC)

\* The libmount context of do_unmount and do_mount; when the kernel answers
\* EROFS or EACCES do_mount starts again with ",ro" in a context of its own.
do_unmount(R) == Take("cxt") ## Try(R \cup {"cxt"}) ## Do("unmounted", R \cup {"cxt"}) ## Free({"cxt"})
get_mount_error_old(R) == Take("cxt 2") ## Try(R \cup {"cxt", "cxt 2"}) ## Free({"cxt 2"})
do_mount(R) ==
    Take("cxt") ## Check(R \cup {"cxt"}) ## Try(R \cup {"cxt"})
    ## Opt(get_mount_error_old(R)) ## Do("mounted", R \cup {"cxt"}) ## Free({"cxt"})

\* The parent's side; the exchange with the child is in MountAsUser.
run_as_user(a) ==
    LET R == {"pipefd"} IN
    Try({}) ## Open("pipefd", {}) ## Try(R) ## Try(R)
    ## (Fail(R) \cup Take("channel") ## Fail(R \cup {"channel"}) \cup Just(a) ## Free(R))

\* The extra arguments name a user and a group; any other is refused.
bd_fs_unmount == Loop(Check({})) ## (do_unmount({}) \cup run_as_user("unmounted"))
bd_fs_mount == Loop(Check({})) ## (do_mount({}) \cup run_as_user("mounted"))

-----------------------------------------------------------------------------
xfs_quota_mount_options == Nothing              \* read with xfs_db; failure is ignored
\* A device that is mounted already stays mounted.
fs_mount(R) ==
    Try(R)
    ## (Nothing \cup Open("mountpoint", R) ## xfs_quota_mount_options
                     ## Open("mount", R \cup {"mountpoint"}))
\* Only what fs_mount has mounted is unmounted (held or not: see Operations).
\* When that fails the operation has been done and is reported as failed.
fs_unmount == Free({"mount", "mountpoint"}) \cup Left({"mount", "mountpoint"}) ## Fail({})
LOCAL M == {"mount", "mountpoint"}

xfs_resize_device ==
    xfs_get_info({}) ## Try({"info"}) ## fs_mount({"info"}) ## Free({"info"})
    ## bd_fs_xfs_resize(M) ## fs_unmount
f2fs_resize_device == f2fs_get_info({}) ## Try({"info"}) ## Free({"info"}) ## bd_fs_f2fs_resize
nilfs2_resize_device == fs_mount({}) ## bd_fs_nilfs2_resize(M) ## fs_unmount
btrfs_get_info ==
    fs_mount({}) ## bd_fs_btrfs_get_info(M)
    ## (Free(M) \cup Left(M) ## Fail({"info"})) ## Free({"info"})
btrfs_resize_device == fs_mount({}) ## bd_fs_btrfs_resize(M) ## fs_unmount
btrfs_set_label == fs_mount({}) ## bd_fs_btrfs_set_label(M) ## fs_unmount

\* device_operation: the function for a file system and an operation; no
\* function is NOT_SUPPORTED.  The ext family uses the functions of ext4.
device_operation_ext ==
    [resize |-> ext_resize, repair |-> ext_repair, check |-> ext_check,
     label |-> ext_set_label, label_check |-> bd_fs_ext2_check_label,
     uuid |-> ext_set_uuid, uuid_check |-> check_uuid]
device_operation_xfs ==
    [resize |-> xfs_resize_device, repair |-> bd_fs_xfs_repair, check |-> bd_fs_xfs_check,
     label |-> bd_fs_xfs_set_label, label_check |-> bd_fs_xfs_check_label,
     uuid |-> bd_fs_xfs_set_uuid, uuid_check |-> check_uuid]
device_operation_vfat ==
    [resize |-> bd_fs_vfat_resize, repair |-> bd_fs_vfat_repair, check |-> bd_fs_vfat_check,
     label |-> bd_fs_vfat_set_label, label_check |-> bd_fs_vfat_check_label,
     uuid |-> bd_fs_vfat_set_uuid, uuid_check |-> bd_fs_vfat_check_uuid]
device_operation_ntfs ==
    [resize |-> bd_fs_ntfs_resize, repair |-> bd_fs_ntfs_repair, check |-> bd_fs_ntfs_check,
     label |-> bd_fs_ntfs_set_label, label_check |-> bd_fs_ntfs_check_label,
     uuid |-> bd_fs_ntfs_set_uuid, uuid_check |-> bd_fs_ntfs_check_uuid]
device_operation_f2fs ==
    [resize |-> f2fs_resize_device, repair |-> bd_fs_f2fs_repair, check |-> bd_fs_f2fs_check,
     label_check |-> bd_fs_f2fs_check_label]
device_operation_nilfs2 ==
    [resize |-> nilfs2_resize_device, label |-> bd_fs_nilfs2_set_label,
     label_check |-> bd_fs_nilfs2_check_label, uuid |-> bd_fs_nilfs2_set_uuid,
     uuid_check |-> check_uuid]
device_operation_exfat ==
    [repair |-> bd_fs_exfat_repair, check |-> bd_fs_exfat_check,
     label |-> bd_fs_exfat_set_label, label_check |-> bd_fs_exfat_check_label,
     uuid |-> bd_fs_exfat_set_uuid, uuid_check |-> bd_fs_exfat_check_uuid]
device_operation_btrfs ==
    [resize |-> btrfs_resize_device, repair |-> bd_fs_btrfs_repair, check |-> bd_fs_btrfs_check,
     label |-> btrfs_set_label, label_check |-> bd_fs_btrfs_check_label,
     uuid |-> bd_fs_btrfs_set_uuid, uuid_check |-> check_uuid]
device_operation_udf ==
    [label |-> bd_fs_udf_set_label, label_check |-> bd_fs_udf_check_label,
     uuid |-> bd_fs_udf_set_uuid, uuid_check |-> bd_fs_udf_check_uuid]
device_operation_zfs ==
    [label |-> bd_fs_zfs_set_label, label_check |-> bd_fs_zfs_check_label,
     uuid_check |-> bd_fs_zfs_check_uuid]

Dispatch ==
    [ext2 |-> device_operation_ext, ext3 |-> device_operation_ext,
     ext4 |-> device_operation_ext, xfs |-> device_operation_xfs,
     vfat |-> device_operation_vfat, ntfs |-> device_operation_ntfs,
     f2fs |-> device_operation_f2fs, nilfs2 |-> device_operation_nilfs2,
     exfat |-> device_operation_exfat, btrfs |-> device_operation_btrfs,
     udf |-> device_operation_udf, zfs |-> device_operation_zfs]

device_operation(op) ==
    Detect ## (Fail({})
               \cup UNION {Dispatch[t][op] : t \in {t \in DOMAIN Dispatch : op \in DOMAIN Dispatch[t]}})

bd_fs_resize == device_operation("resize")
bd_fs_repair == device_operation("repair")
bd_fs_check == device_operation("check")
bd_fs_set_label == device_operation("label")
bd_fs_set_uuid == device_operation("uuid")
bd_fs_check_label == Check({}) ## device_operation("label_check")
bd_fs_check_uuid == Check({}) ## device_operation("uuid_check")

\* The get_info function behind the size, the free space, the minimum size.
SizeFrom ==
    [ext4 |-> bd_fs_ext4_get_info, xfs |-> xfs_get_info({}) ## Free({"info"}),
     vfat |-> bd_fs_vfat_get_info, ntfs |-> bd_fs_ntfs_get_info,
     f2fs |-> f2fs_get_info({}) ## Free({"info"}), nilfs2 |-> bd_fs_nilfs2_get_info,
     exfat |-> bd_fs_exfat_get_info, btrfs |-> btrfs_get_info, udf |-> bd_fs_udf_get_info,
     zfs |-> bd_fs_zfs_get_info]
FreeSpaceFrom == {"ext4", "vfat", "ntfs", "nilfs2", "btrfs", "zfs"}
MinSizeFrom == [ext4 |-> bd_fs_ext2_get_min_size, ntfs |-> bd_fs_ntfs_get_min_size]

bd_fs_get_size == Detect ## (Fail({}) \cup UNION {SizeFrom[t] : t \in DOMAIN SizeFrom})
bd_fs_get_free_space == Detect ## (Fail({}) \cup UNION {SizeFrom[t] : t \in FreeSpaceFrom})
bd_fs_get_min_size == Detect ## (Fail({}) \cup UNION {MinSizeFrom[t] : t \in DOMAIN MinSizeFrom})

\* Here not to be a mount point is an error.
fs_freeze(a) ==
    Take("table") ## Take("cache") ## Try(TC) ## Try(TC) ## Free(TC)
    ## Open("fd", {}) ## Do(a, {"fd"}) ## Free({"fd"})
bd_fs_freeze == fs_freeze("frozen")
bd_fs_unfreeze == fs_freeze("thawed")

\* extra_args are the options of the file system with the caller's arguments.
bd_fs_mkfs ==
    LET E == {"extra_args"} IN
    Fail({}) \cup Take("extra_args") ## Try(E) ## Opt(get_blocksize(E)) ## Do("mkfs", E) ## Free(E)

\* The functions by name.
FsFunctions ==
    [bd_fs_wipe |-> bd_fs_wipe,
     bd_fs_clean |-> bd_fs_clean,
     bd_fs_get_fstype |-> bd_fs_get_fstype,
     bd_fs_get_mountpoint |-> bd_fs_get_mountpoint,
     bd_fs_is_mountpoint |-> bd_fs_is_mountpoint,
     bd_fs_unmount |-> bd_fs_unmount,
     bd_fs_mount |-> bd_fs_mount,
     bd_fs_resize |-> bd_fs_resize,
     bd_fs_repair |-> bd_fs_repair,
     bd_fs_check |-> bd_fs_check,
     bd_fs_set_label |-> bd_fs_set_label,
     bd_fs_set_uuid |-> bd_fs_set_uuid,
     bd_fs_check_label |-> bd_fs_check_label,
     bd_fs_check_uuid |-> bd_fs_check_uuid,
     bd_fs_get_size |-> bd_fs_get_size,
     bd_fs_get_free_space |-> bd_fs_get_free_space,
     bd_fs_get_min_size |-> bd_fs_get_min_size,
     bd_fs_freeze |-> bd_fs_freeze,
     bd_fs_unfreeze |-> bd_fs_unfreeze,
     bd_fs_mkfs |-> bd_fs_mkfs,
     bd_fs_zfs_get_info |-> bd_fs_zfs_get_info,
     bd_fs_f2fs_resize |-> bd_fs_f2fs_resize]
=============================================================================
