---------------------------- MODULE MCOperations ----------------------------
(***************************************************************************)
(* The functions of the plugins, and what is known of them that a caller   *)
(* would rather have otherwise.  The sets below are exact and name what is *)
(* excepted pair by pair: every other resource and every other change of   *)
(* the same function counts.                                               *)
(***************************************************************************)
EXTENDS Operations, CryptoPaths, PartPaths, FsPaths, DevicePaths, VolumePaths,
        UtilsPaths, NvmePaths, SmartPaths, ZfsPaths, LvmCliPaths, TLC

\* The two LVM plugins have functions of the same names.
Dbus == INSTANCE LvmDbusPaths

MCPaths ==
    CryptoFunctions @@ PartFunctions @@ FsFunctions @@ DeviceFunctions
    @@ VolumeFunctions @@ UtilsFunctions @@ NvmeFunctions @@ SmartFunctions
    @@ ZfsFunctions @@ LvmCliFunctions @@ Dbus!LvmDbusFunctions

\* Returns that keep something.
MCLeaks ==
    {<<"bd_crypto_escrow_device", "label">>, <<"bd_crypto_integrity_format", "tmp_dev">>,
     <<"bd_fs_check", "loc_error">>, <<"bd_fs_f2fs_resize", "loc_error">>,
     <<"bd_mpath_is_mpath_member", "dm_task">>, <<"bd_nvdimm_list_namespaces", "namespaces">>,
     <<"bd_part_resize_part", "pa">>, <<"get_disk_parts", "table">>,
     <<"libatasmart_ata_get_info", "drivedb_attrs">>,
     <<"libatasmart_ata_get_info_from_data", "d">>,
     <<"libatasmart_ata_get_info_from_data", "drivedb_attrs">>,
     <<"bd_mpath_get_mpath_members", "dm_task">>, <<"bd_mpath_get_mpath_members", "task_names">>,
     <<"bd_mpath_get_mpath_members", "ret members">>,
     <<"dbus_bd_lvm_pvresize", "obj_path">>, <<"dbus_bd_lvm_lvorigin", "obj_path">>,
     <<"dbus_bd_lvm_pvs", "data">>, <<"dbus_bd_lvm_vgs", "data">>}
    \cup {"bd_part_create_part"} \X {"npa", "ptype", "table", "iter", "n_epa"}
    \cup {"bd_fs_get_size", "bd_fs_get_free_space", "bd_fs_resize"} \X {"output"}
    \cup {"bd_fs_resize"} \X {"loc_error"}
    \cup {"dbus_bd_lvm_pvmove"} \X {"src_path", "dest_path", "prop"}
    \cup {"dbus_bd_lvm_lvinfo", "dbus_bd_lvm_lvinfo_tree"} \X {"obj_path"}
    \cup {"dbus_bd_lvm_lvs", "dbus_bd_lvm_lvs_tree"} \X {"data", "obj_path"}
    \cup {"dbus_bd_lvm_cache_create_pool", "dbus_bd_lvm_cache_create_cached_lv"}
         \X {"meta_name", "meta_path", "pool_path"}

\* What is freed twice.
MCTwiceFreed ==
    {"bd_crypto_luks_info", "bd_crypto_luks_token_info", "bd_crypto_integrity_info"} \X {"cd"}
    \cup {"bd_zfs_pool_list_importable"} \X {"cur_id", "cur_state"}

\* The type of a context is looked at when the header is written, the mode of
\* a cache when its LVs exist, the PVs of a volume when its cache exists.
MCLateRefusal ==
    {"bd_crypto_luks_format", "bd_crypto_opal_format"} \X {"header"}
    \cup {"bd_lvm_cache_create_pool", "dbus_bd_lvm_cache_create_pool",
          "bd_lvm_cache_create_cached_lv", "dbus_bd_lvm_cache_create_cached_lv"}
         \X {"data lv created", "meta lv created"}
    \cup {<<"dbus_bd_lvm_cache_create_cached_lv", "lv created">>,
          <<"dbus_bd_lvm_writecache_create_cached_lv", "cache lv created">>}

\* Changes that stay when a later step of the same function fails.
MCPartial ==
    {"bd_crypto_luks_format", "bd_crypto_integrity_format", "bd_crypto_opal_format"} \X {"header"}
    \cup {"bd_crypto_escrow_device"} \X {"packet", "passphrase"}
    \cup {"bd_part_create_part", "bd_part_delete_part", "bd_part_resize_part"} \X {"label"}
    \cup {<<"bd_part_create_part", "kernel">>}
    \cup {"bd_fs_wipe", "bd_fs_clean"} \X {"signature"}
    \cup {"bd_fs_resize", "bd_fs_set_label", "bd_fs_get_size", "bd_fs_get_free_space"}
         \X {"left behind"}
    \cup {<<"bd_fs_resize", "size">>, <<"bd_fs_repair", "repair">>, <<"bd_fs_set_label", "label">>}
    \cup {"bd_loop_setup", "bd_loop_setup_from_fd"} \X {"associated", "status"}
    \cup {<<"bd_mpath_flush_mpaths", "flushed">>, <<"bd_s390_dasd_online", "freed">>}
    \cup {"bd_s390_zfcp_online"} \X {"freed", "online", "lun"}
    \cup {"bd_s390_zfcp_scsi_offline", "bd_s390_zfcp_offline"} \X {"scsi device deleted"}
    \cup {<<"bd_s390_zfcp_offline", "lun">>}
    \cup {<<"bd_nvme_format", "formatted">>, <<"bd_nvme_connect", "keyring">>}
    \cup {"bd_nvme_disconnect", "bd_nvme_disconnect_by_path"} \X {"disconnected"}
    \cup {"bd_nvme_set_host_nqn", "bd_nvme_set_host_id"} \X {"directory"}
    \cup {<<"bd_smart_set_enabled", "enabled">>, <<"bd_smart_device_self_test", "self test">>}
    \cup {"bd_lvm_thpool_convert", "bd_lvm_cache_pool_convert"} \X {"converted"}
    \cup {<<"dbus_bd_lvm_cache_pool_convert", "pool renamed">>}
    \cup {"bd_lvm_cache_create_pool", "dbus_bd_lvm_cache_create_pool",
          "bd_lvm_cache_create_cached_lv", "dbus_bd_lvm_cache_create_cached_lv"}
         \X {"data lv created", "meta lv created"}
    \cup {"bd_lvm_cache_create_cached_lv", "dbus_bd_lvm_cache_create_cached_lv"}
         \X {"lv created", "converted"}
    \cup {"bd_lvm_writecache_attach", "dbus_bd_lvm_writecache_attach",
          "bd_lvm_writecache_create_cached_lv", "dbus_bd_lvm_writecache_create_cached_lv"}
         \X {"data lv deactivated", "cache lv deactivated"}
    \cup {"bd_lvm_writecache_create_cached_lv", "dbus_bd_lvm_writecache_create_cached_lv"}
         \X {"lv created", "cache lv created"}
=============================================================================
