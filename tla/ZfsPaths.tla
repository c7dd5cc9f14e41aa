------------------------------ MODULE ZfsPaths ------------------------------
(***************************************************************************)
(* The ZFS plugin (src/src/plugins/zfs.c): names are looked at before      *)
(* anything else, a function that changes something runs zpool or zfs      *)
(* once, one that asks takes apart what they print.  How the capabilities  *)
(* are found out, and the tree of vdevs, have modules of their own         *)
(* (ZfsCaps, Listings).                                                    *)
(***************************************************************************)
EXTENDS Naturals, CallPaths

LOCAL Deps == Try({})                           \* check_deps: zpool, zfs
LOCAL Capture == Open("output", {})             \* bd_utils_exec_and_capture_output
LOCAL Lines == Take("lines") ## Free({"output"})
\* probe_runtime_caps, which never fails, and ensure_cap.
LOCAL Capable == Try({})

\* Neither empty nor an option.
validate_name_not_option == Check({}) ## Check({})
\* Empty, too long, no letter first, a character, a reserved word.
bd_zfs_validate_pool_name == Check({}) ## Check({}) ## Check({}) ## Check({}) ## Check({})
LOCAL Name == validate_name_not_option
LOCAL Name2 == Name ## Name
\* The list of vdevs may be empty; each of them is looked at.
LOCAL Vdevs == Check({}) ## Name ## Opt(Name)

\* The program is run with an array of arguments that is freed either way.
LOCAL WithArgv(a, R) == Take("argv") ## Do(a, {"argv"} \cup R) ## Free({"argv"} \cup R)

bd_zfs_is_tech_avail == Deps ## (Nothing \cup Try({}) \cup Refuse({}))

-----------------------------------------------------------------------------
(* Lines that are printed.  A line with too few fields gives no record:    *)
(* none is what happens then, some what is done with a record.             *)

LOCAL Record(none, some) ==
    Take("fields") ## (Free({"fields"}) ## none \cup Take("info") ## Free({"fields"}) ## some)
parse_pool_info_line(none, some) == none \cup Record(none, some)
parse_property_line(none, some) == none \cup Record(none, some)
parse_dataset_info_line(none, some) == none \cup Record(none, some)
parse_snapshot_info_line(none, some) == none \cup Record(none, some)

\* The first line that is not empty has to give a record, which the caller gets.
LOCAL First(parse(_, _)) ==
    Lines ## parse(Free({"lines"}) ## Fail({}), Free({"lines"}) ## Free({"info"}))
\* Lines that give no record are passed over.
LOCAL All(parse(_, _)) == Lines ## Loop(parse(Nothing, Free({"info"}))) ## Free({"lines"})

-----------------------------------------------------------------------------
(* Pools.                                                                  *)

bd_zfs_pool_create == bd_zfs_validate_pool_name ## Opt(Name) ## Vdevs ## Deps ## WithArgv("created", {})
bd_zfs_pool_destroy == Name ## Deps ## Do("destroyed", {})
bd_zfs_pool_export == Name ## Deps ## Do("exported", {})
bd_zfs_pool_import == Name ## Opt(bd_zfs_validate_pool_name) ## Deps ## WithArgv("imported", {})
bd_zfs_pool_list == Deps ## Capture ## All(parse_pool_info_line)
bd_zfs_pool_get_info == Name ## Deps ## Capture ## First(parse_pool_info_line)

\* No pools is no error, but only for a caller that wants errors.  Lines begin
\* with "pool:", "id:" or "state:", in any order.  A block that has no name or
\* no id when the next one begins is dropped, and what it had is freed but its
\* pointers are kept, to be freed again or handed out.  set is the set of the
\* pointers that are not NULL; MaxImportLines bounds the lines.
MaxImportLines == 5
bd_zfs_pool_list_importable ==
    LET Anew(v, set) == Free({v} \cap set) ## Take(v)
        blocks[n \in 0 .. MaxImportLines, set \in SUBSET {"cur_name", "cur_id", "cur_state"}] ==
            LET kept == IF {"cur_name", "cur_id"} \subseteq set THEN {} ELSE set IN
            IF n = 0 THEN Free(set) ELSE
            Free(set)
            \cup Free(set) ## Take("cur_name") ## blocks[n - 1, kept \cup {"cur_name"}]
            \cup Anew("cur_id", set) ## blocks[n - 1, set \cup {"cur_id"}]
            \cup Anew("cur_state", set) ## blocks[n - 1, set \cup {"cur_state"}]
    IN
    Deps ## Enough({}) ## Capture ## Enough({"output"}) ## Lines
    ## blocks[MaxImportLines, {}] ## Free({"lines"})

\* A tree that is deeper than the stack is an error, as is one of no vdevs.
bd_zfs_pool_get_vdevs ==
    LET F == {"top_vdevs", "lines", "ws_regex"}
        Vdev == Take("fields") ## (Free({"fields"}) \cup
                  Take("vdev") ## Free({"fields"}) ## Try(F \cup {"vdev"}) ## Free({"vdev"}))
    IN
    Name ## Deps ## Capture ## Lines ## Take("top_vdevs") ## Open("ws_regex", {"top_vdevs", "lines"})
    ## Loop(Vdev) ## Free({"lines", "ws_regex"}) ## Try({"top_vdevs"}) ## Free({"top_vdevs"})

bd_zfs_pool_add_vdev == Name ## Opt(Name) ## Vdevs ## Deps ## WithArgv("added", {})
bd_zfs_pool_remove_vdev == Name2 ## Deps ## Do("removed", {})
bd_zfs_pool_attach == Name2 ## Name ## Deps ## Do("attached", {})
bd_zfs_pool_detach == Name2 ## Deps ## Do("detached", {})
bd_zfs_pool_replace == Name2 ## Name ## Deps ## Do("replaced", {})
bd_zfs_pool_online == Name2 ## Deps ## Do("online", {})
bd_zfs_pool_offline == Name2 ## Deps ## Do("offline", {})
bd_zfs_pool_scrub_start == Name ## Deps ## Do("scrub", {})
bd_zfs_pool_scrub_stop == Name ## Deps ## Do("no scrub", {})
bd_zfs_pool_scrub_pause == Name ## Deps ## Capable ## Do("paused", {})
bd_zfs_pool_trim_start == Name ## Opt(Name) ## Deps ## Capable ## Do("trim", {})
bd_zfs_pool_trim_stop == Name ## Opt(Name) ## Deps ## Capable ## Do("no trim", {})
bd_zfs_pool_clear == Name ## Opt(Name) ## Deps ## Do("cleared", {})
bd_zfs_pool_upgrade == Name ## Deps ## Do("upgraded", {})
bd_zfs_pool_history == Name ## Deps ## Capture ## Free({"output"})

\* The progress is on the line after "scan:" and below it.
parse_scan_progress ==
    Opt(Take("tokens") ## Free({"tokens"}) ## Opt(Take("parts") ## Free({"parts"}))
        ## Opt(Take("parts") ## Free({"parts"})))
bd_zfs_pool_scrub_status ==
    LET S == {"scan_line", "next_line"} IN
    Name ## Deps ## Capture ## Lines
    ## Opt(Take("stripped") ## Free({"stripped"}))
    ## (Fail({"lines"}) \cup
        Take("scan_line") ## Opt(Take("next_line")) ## Take("info")
        ## Opt(parse_scan_progress) ## Free(S \cup {"lines"}) ## Free({"info"}))

bd_zfs_pool_get_property == Name2 ## Deps ## Capture ## First(parse_property_line)
bd_zfs_pool_get_properties == Name ## Deps ## Capture ## All(parse_property_line)
bd_zfs_pool_set_property ==
    Name2 ## Check({}) ## Deps ## Take("prop_val") ## Do("property", {"prop_val"}) ## Free({"prop_val"})

-----------------------------------------------------------------------------
(* Datasets and volumes.  Which fields there are depends on the version,   *)
(* an unknown one counts as old.                                           *)

bd_zfs_dataset_create == Name ## Deps ## WithArgv("created", {})
bd_zfs_dataset_destroy == Name ## Deps ## Do("destroyed", {})
bd_zfs_dataset_list ==
    LET F == {"fields_str", "argv"} IN
    Opt(Name) ## Deps ## Take("fields_str") ## Take("argv")
    ## Open("output", F) ## Free(F) ## All(parse_dataset_info_line)
bd_zfs_dataset_get_info ==
    Name ## Deps ## Take("fields_str") ## Open("output", {"fields_str"}) ## Free({"fields_str"})
    ## First(parse_dataset_info_line)
bd_zfs_dataset_rename == Name2 ## Deps ## Do("renamed", {})
bd_zfs_dataset_mount ==
    Name ## Opt(Check({}) ## Check({})) ## Deps
    ## (WithArgv("mounted", {}) \cup Take("mp_opt") ## WithArgv("mounted", {"mp_opt"}))
bd_zfs_dataset_unmount == Name ## Deps ## Do("unmounted", {})
bd_zfs_dataset_get_property == Name2 ## Deps ## Capture ## First(parse_property_line)
bd_zfs_dataset_get_properties == Name ## Deps ## Capture ## All(parse_property_line)
bd_zfs_dataset_set_property ==
    Name2 ## Check({}) ## Deps ## Take("prop_val") ## Do("property", {"prop_val"}) ## Free({"prop_val"})
bd_zfs_dataset_inherit_property == Name2 ## Deps ## Do("inherited", {})
bd_zfs_zvol_create == Name ## Deps ## Take("size_str") ## WithArgv("created", {"size_str"})
bd_zfs_zvol_destroy == Name ## Deps ## Do("destroyed", {})
bd_zfs_zvol_resize ==
    Name ## Deps ## Take("volsize_str") ## Do("resized", {"volsize_str"}) ## Free({"volsize_str"})

-----------------------------------------------------------------------------
(* Snapshots, bookmarks, encryption.                                       *)

bd_zfs_snapshot_create == Name ## Deps ## WithArgv("created", {})
bd_zfs_snapshot_destroy == Name ## Deps ## Do("destroyed", {})
bd_zfs_snapshot_list ==
    Opt(Name) ## Deps ## Take("argv") ## Open("output", {"argv"}) ## Free({"argv"})
    ## All(parse_snapshot_info_line)
bd_zfs_snapshot_rollback == Name ## Deps ## Do("rolled back", {})
\* A clone without a path is put into the pool of the snapshot.
bd_zfs_snapshot_clone ==
    Name2 ## Deps ## (WithArgv("cloned", {}) \cup
                      Take("effective_clone") ## WithArgv("cloned", {"effective_clone"}))
bd_zfs_snapshot_promote == Name ## Deps ## Do("promoted", {})
bd_zfs_snapshot_hold == Name2 ## Deps ## Do("held", {})
bd_zfs_snapshot_release == Name2 ## Deps ## Do("not held", {})
bd_zfs_bookmark_create == Name2 ## Deps ## Capable ## Do("created", {})
bd_zfs_bookmark_destroy == Name ## Deps ## Capable ## Do("destroyed", {})
bd_zfs_bookmark_list ==
    Opt(Name) ## Deps ## Capable ## Take("argv") ## Open("output", {"argv"}) ## Free({"argv"})
    ## All(Record)
bd_zfs_encryption_load_key == Name ## Opt(Check({})) ## Deps ## Capable ## Do("key", {})
bd_zfs_encryption_unload_key == Name ## Deps ## Capable ## Do("no key", {})
\* Where the key is to be found is looked at last.
bd_zfs_encryption_change_key ==
    Name ## Deps ## Capable
    ## (WithArgv("key", {}) \cup Check({}) ## Take("opt") ## WithArgv("key", {"opt"}))
bd_zfs_encryption_key_status == Name ## Deps ## Capable ## Capture ## Free({"output"})
bd_zfs_get_zfs_version == Deps ## Try({})

\* The functions by name.
ZfsFunctions ==
    [bd_zfs_validate_pool_name |-> bd_zfs_validate_pool_name,
     bd_zfs_is_tech_avail |-> bd_zfs_is_tech_avail,
     bd_zfs_pool_create |-> bd_zfs_pool_create,
     bd_zfs_pool_destroy |-> bd_zfs_pool_destroy,
     bd_zfs_pool_export |-> bd_zfs_pool_export,
     bd_zfs_pool_import |-> bd_zfs_pool_import,
     bd_zfs_pool_list |-> bd_zfs_pool_list,
     bd_zfs_pool_get_info |-> bd_zfs_pool_get_info,
     bd_zfs_pool_list_importable |-> bd_zfs_pool_list_importable,
     bd_zfs_pool_get_vdevs |-> bd_zfs_pool_get_vdevs,
     bd_zfs_pool_add_vdev |-> bd_zfs_pool_add_vdev,
     bd_zfs_pool_remove_vdev |-> bd_zfs_pool_remove_vdev,
     bd_zfs_pool_attach |-> bd_zfs_pool_attach,
     bd_zfs_pool_detach |-> bd_zfs_pool_detach,
     bd_zfs_pool_replace |-> bd_zfs_pool_replace,
     bd_zfs_pool_online |-> bd_zfs_pool_online,
     bd_zfs_pool_offline |-> bd_zfs_pool_offline,
     bd_zfs_pool_scrub_start |-> bd_zfs_pool_scrub_start,
     bd_zfs_pool_scrub_stop |-> bd_zfs_pool_scrub_stop,
     bd_zfs_pool_scrub_pause |-> bd_zfs_pool_scrub_pause,
     bd_zfs_pool_trim_start |-> bd_zfs_pool_trim_start,
     bd_zfs_pool_trim_stop |-> bd_zfs_pool_trim_stop,
     bd_zfs_pool_clear |-> bd_zfs_pool_clear,
     bd_zfs_pool_upgrade |-> bd_zfs_pool_upgrade,
     bd_zfs_pool_history |-> bd_zfs_pool_history,
     bd_zfs_pool_scrub_status |-> bd_zfs_pool_scrub_status,
     bd_zfs_pool_get_property |-> bd_zfs_pool_get_property,
     bd_zfs_pool_get_properties |-> bd_zfs_pool_get_properties,
     bd_zfs_pool_set_property |-> bd_zfs_pool_set_property,
     bd_zfs_dataset_create |-> bd_zfs_dataset_create,
     bd_zfs_dataset_destroy |-> bd_zfs_dataset_destroy,
     bd_zfs_dataset_list |-> bd_zfs_dataset_list,
     bd_zfs_dataset_get_info |-> bd_zfs_dataset_get_info,
     bd_zfs_dataset_rename |-> bd_zfs_dataset_rename,
     bd_zfs_dataset_mount |-> bd_zfs_dataset_mount,
     bd_zfs_dataset_unmount |-> bd_zfs_dataset_unmount,
     bd_zfs_dataset_get_property |-> bd_zfs_dataset_get_property,
     bd_zfs_dataset_get_properties |-> bd_zfs_dataset_get_properties,
     bd_zfs_dataset_set_property |-> bd_zfs_dataset_set_property,
     bd_zfs_dataset_inherit_property |-> bd_zfs_dataset_inherit_property,
     bd_zfs_zvol_create |-> bd_zfs_zvol_create,
     bd_zfs_zvol_destroy |-> bd_zfs_zvol_destroy,
     bd_zfs_zvol_resize |-> bd_zfs_zvol_resize,
     bd_zfs_snapshot_create |-> bd_zfs_snapshot_create,
     bd_zfs_snapshot_destroy |-> bd_zfs_snapshot_destroy,
     bd_zfs_snapshot_list |-> bd_zfs_snapshot_list,
     bd_zfs_snapshot_rollback |-> bd_zfs_snapshot_rollback,
     bd_zfs_snapshot_clone |-> bd_zfs_snapshot_clone,
     bd_zfs_snapshot_promote |-> bd_zfs_snapshot_promote,
     bd_zfs_snapshot_hold |-> bd_zfs_snapshot_hold,
     bd_zfs_snapshot_release |-> bd_zfs_snapshot_release,
     bd_zfs_bookmark_create |-> bd_zfs_bookmark_create,
     bd_zfs_bookmark_destroy |-> bd_zfs_bookmark_destroy,
     bd_zfs_bookmark_list |-> bd_zfs_bookmark_list,
     bd_zfs_encryption_load_key |-> bd_zfs_encryption_load_key,
     bd_zfs_encryption_unload_key |-> bd_zfs_encryption_unload_key,
     bd_zfs_encryption_change_key |-> bd_zfs_encryption_change_key,
     bd_zfs_encryption_key_status |-> bd_zfs_encryption_key_status,
     bd_zfs_get_zfs_version |-> bd_zfs_get_zfs_version]
=============================================================================
