---------------------------- MODULE VolumePaths ----------------------------
(***************************************************************************)
(* The MD RAID and btrfs plugins (src/src/plugins/mdraid.c, btrfs.c): most *)
(* functions run one program; the ones that ask parse what it printed.     *)
(***************************************************************************)
EXTENDS CallPaths

LOCAL Deps == Try({})                                \* check_deps: mdadm
LOCAL Capture(R) == Open("output", R)                \* bd_utils_exec_and_capture_output

\* Always a table; of an item that is there twice the first value stays.
parse_mdadm_vars == Take("table")
\* Both take over the table of values and give data that may lack any of
\* them; sizes that make no sense are passed over.
get_examine_data_from_table == Free({"table"}) ## Take("ret")
get_detail_data_from_table == Free({"table"}) ## Take("ret")
\* An array is named by its node, its name or its path; the first needs sysfs
\* only, a name is resolved.
get_sysfs_name_from_input(R) == Opt(Try(R))
\* A path has to exist; anything else is passed on.
get_mdadm_spec_from_input == Opt(Check({})) ## Take("mdadm_spec")
bd_md_canonicalize_uuid ==
    Take("dest") ## Open("regex", {"dest"}) ## Check({"regex", "dest"})
    ## Free({"regex"}) ## Free({"dest"})
bd_md_get_md_uuid ==
    Take("dest") ## Open("regex", {"dest"}) ## Check({"regex", "dest"})
    ## Free({"regex"}) ## Free({"dest"})

LOCAL S == {"mdadm_spec"}
LOCAL OnArray(a) == Deps ## get_mdadm_spec_from_input ## Do(a, S) ## Free(S)
bd_md_create == Deps ## Do("created", {})
bd_md_destroy == Deps ## Do("superblock zeroed", {})
bd_md_deactivate == OnArray("stopped")
bd_md_run == OnArray("running")
bd_md_nominate == Deps ## Do("nominated", {})
bd_md_denominate == Do("denominated", {})            \* without a check for mdadm
bd_md_add == OnArray("added")
bd_md_remove ==
    LET F == S \cup {"dev_path"} IN
    Deps ## get_mdadm_spec_from_input ## Open("dev_path", S) ## Do("removed", F) ## Free(F)
\* A device is examined three times, in three formats; the two UUIDs of the
\* first and the one of the second may be no UUIDs.
examine_full ==
    LET F == {"ret", "orig_data"} IN
    Capture({}) ## parse_mdadm_vars ## Free({"output"}) ## Try({"table"})
    ## get_examine_data_from_table
    ## Loop(Take("orig_data") ## Try(F) ## Free({"orig_data"}))
examine_export_brief ==
    LET E == {"ret", "output_fields"} IN
    Capture({"ret"}) ## Free({"output"}) ## Take("output_fields") ## Opt(Try(E))
    ## Free({"output_fields"})
    ## Capture({"ret"}) ## parse_mdadm_vars ## Free({"output"}) ## Free({"table"})
bd_md_examine == Deps ## examine_full ## examine_export_brief ## Free({"ret"})
bd_md_detail ==
    LET F == {"ret", "orig_uuid"}
        E == {"ret", "output_fields"}
    IN
    Deps ## get_mdadm_spec_from_input ## Free(S)     \* g_autofree
    ## Capture({}) ## parse_mdadm_vars ## Free({"output"}) ## Try({"table"})
    ## get_detail_data_from_table ## Opt(Take("orig_uuid") ## Try(F) ## Free({"orig_uuid"}))
    ## Capture({"ret"}) ## Free({"output"}) ## Take("output_fields") ## Opt(Try(E))
    ## Free(E)
\* An array that is already there needs nothing.
bd_md_activate == Deps ## Opt(Enough({})) ## Do("assembled", {})
bd_md_node_from_name == Try({})
bd_md_name_from_node == Open("glob_buf", {}) ## Free({"glob_buf"}) ## Try({})
bd_md_get_status == get_sysfs_name_from_input({}) ## Try({})
bd_md_set_bitmap_location ==
    Deps ## get_mdadm_spec_from_input ## Check(S) ## Do("bitmap", S) ## Free(S)
\* An array without the file has no bitmap.
bd_md_get_bitmap_location == get_sysfs_name_from_input({}) ## Enough({}) ## Try({})
bd_md_request_sync_action == Check({}) ## get_sysfs_name_from_input({}) ## Do("action", {})

-----------------------------------------------------------------------------
LOCAL Ready == Try({}) ## Try({})                    \* btrfs, and its kernel module
LOCAL Btrfs(a) == Ready ## Do(a, {})
LOCAL Regex == Open("regex", {})
LOCAL RM == {"regex", "match_info"}

\* Sizes that make no sense are passed over.
get_device_info_from_match == Free({"match_info"})
get_subvolume_info_from_match == Free({"match_info"})
get_filesystem_info_from_match == Take("ret")

bd_btrfs_create_volume ==
    Ready ## Check({}) ## Loop(Check({})) ## Do("volume", {})
bd_btrfs_mkfs == bd_btrfs_create_volume
bd_btrfs_add_device == Btrfs("device added")
bd_btrfs_remove_device == Btrfs("device removed")
bd_btrfs_create_subvolume == Btrfs("subvolume")
bd_btrfs_delete_subvolume == Btrfs("subvolume deleted")
bd_btrfs_set_default_subvolume == Btrfs("default")
bd_btrfs_create_snapshot == Btrfs("snapshot")
bd_btrfs_resize == Btrfs("resized")
bd_btrfs_check == Btrfs("checked")
bd_btrfs_repair == Btrfs("repaired")
bd_btrfs_change_label == Btrfs("label")
bd_btrfs_get_default_subvolume_id ==
    LET F == RM \cup {"output"} IN
    Ready ## Regex ## Capture({"regex"}) ## Take("match_info") ## Try(F) ## Free(F)
\* Lines that do not match are passed over; none may be left.
bd_btrfs_list_devices ==
    LET Line == Take("match_info") ## get_device_info_from_match
        I == {"dev_infos"}
    IN
    Ready ## Regex ## Capture({"regex"}) ## Take("lines") ## Free({"output"}) ## Take("dev_infos")
    ## Loop(Line) ## Free({"lines", "regex"}) ## Try(I) ## Free(I)
\* No output is an empty list.
bd_btrfs_list_subvolumes ==
    LET Line == Take("match_info") ## get_subvolume_info_from_match
        I == {"subvol_infos"}
    IN
    Ready ## Regex ## Enough({"regex"}) ## Capture({"regex"}) ## Take("lines") ## Free({"output"})
    ## Take("subvol_infos") ## Loop(Line) ## Free({"lines", "regex"}) ## Try(I) ## Free(I)
\* Output of another form is no answer, and no error either.
bd_btrfs_filesystem_info ==
    LET F == RM \cup {"output"} IN
    Ready ## Regex ## Capture({"regex"}) ## Take("match_info") ## Ask(F)
    ## get_filesystem_info_from_match ## Free(F) ## Free({"ret"})

\* The functions by name.
VolumeFunctions ==
    [bd_md_canonicalize_uuid |-> bd_md_canonicalize_uuid,
     bd_md_get_md_uuid |-> bd_md_get_md_uuid,
     bd_md_create |-> bd_md_create,
     bd_md_destroy |-> bd_md_destroy,
     bd_md_deactivate |-> bd_md_deactivate,
     bd_md_run |-> bd_md_run,
     bd_md_nominate |-> bd_md_nominate,
     bd_md_denominate |-> bd_md_denominate,
     bd_md_add |-> bd_md_add,
     bd_md_remove |-> bd_md_remove,
     bd_md_examine |-> bd_md_examine,
     bd_md_detail |-> bd_md_detail,
     bd_md_activate |-> bd_md_activate,
     bd_md_node_from_name |-> bd_md_node_from_name,
     bd_md_name_from_node |-> bd_md_name_from_node,
     bd_md_get_status |-> bd_md_get_status,
     bd_md_set_bitmap_location |-> bd_md_set_bitmap_location,
     bd_md_get_bitmap_location |-> bd_md_get_bitmap_location,
     bd_md_request_sync_action |-> bd_md_request_sync_action,
     bd_btrfs_create_volume |-> bd_btrfs_create_volume,
     bd_btrfs_mkfs |-> bd_btrfs_mkfs,
     bd_btrfs_add_device |-> bd_btrfs_add_device,
     bd_btrfs_remove_device |-> bd_btrfs_remove_device,
     bd_btrfs_create_subvolume |-> bd_btrfs_create_subvolume,
     bd_btrfs_delete_subvolume |-> bd_btrfs_delete_subvolume,
     bd_btrfs_set_default_subvolume |-> bd_btrfs_set_default_subvolume,
     bd_btrfs_create_snapshot |-> bd_btrfs_create_snapshot,
     bd_btrfs_resize |-> bd_btrfs_resize,
     bd_btrfs_check |-> bd_btrfs_check,
     bd_btrfs_repair |-> bd_btrfs_repair,
     bd_btrfs_change_label |-> bd_btrfs_change_label,
     bd_btrfs_get_default_subvolume_id |-> bd_btrfs_get_default_subvolume_id,
     bd_btrfs_list_devices |-> bd_btrfs_list_devices,
     bd_btrfs_list_subvolumes |-> bd_btrfs_list_subvolumes,
     bd_btrfs_filesystem_info |-> bd_btrfs_filesystem_info]
=============================================================================
