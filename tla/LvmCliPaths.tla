---------------------------- MODULE LvmCliPaths ----------------------------
(***************************************************************************)
(* The LVM plugin that runs the lvm program (src/src/plugins/lvm/lvm.c),   *)
(* and what it shares with the D-Bus plugin (lvm-common.c).  What the      *)
(* global configuration holds while a command runs is modelled in          *)
(* LvmConfig; here its lock is one more thing to give back.                *)
(***************************************************************************)
EXTENDS CallPaths

LOCAL Config == "global_config_lock"
LOCAL Deps(R) == Try(R)                         \* check_deps: lvm

\* The ways to run a command.  R is what the caller frees after it.
LOCAL Command(exec(_), R) ==
    LET F == {Config, "argv"} IN
    Deps(R) ## Take(Config) ## Take("argv") ## exec(F \cup R) ## Free(F)
call_lvm_and_report_error(a, R) == LET Exec(F) == Do(a, F) IN Command(Exec, R)
call_lvm_and_capture_output(R) == LET Exec(F) == Open("output", F) IN Command(Exec, R)
call_lvm_and_report_progress(a, R) == LET Exec(F) == Do(a, F) IN Command(Exec, R)
\* A command that prints nothing, for a function that takes this as an answer.
LOCAL NoOutput(R) == Deps(R) ## Take(Config) ## Take("argv") ## Free({Config, "argv"})

\* A command with strings made for it, freed either way.
LOCAL Run(a) == call_lvm_and_report_error(a, {})
LOCAL With(S, a, R) ==
    Take(S) ## call_lvm_and_report_error(a, {S} \cup R) ## Free({S})
LOCAL OptWith(S, a) == Run(a) \cup With(S, a, {})

-----------------------------------------------------------------------------
(* What lvm prints.  A line is taken apart into a table; one that has not  *)
(* as many items as were asked for is dropped.                             *)

parse_lvm_vars == Take("table") ## Take("items") ## Take("key_val") ## Free({"key_val", "items"})
LOCAL FromTable(data) == Take(data) ## Free({"table"})
get_pv_data_from_table(data) == FromTable(data)
get_vg_data_from_table(data) == FromTable(data)
get_vdo_data_from_table(data) == FromTable(data)
\* The names of the parts; the array is replaced by a longer one when the
\* part that is known by name is not among them.
prepare_sublvs == Take("values") ## Opt(Take("new_values") ## Free({"values"}) ## Take("values") ## Free({"new_values"}))
\* Segments on physical volumes, or parts, or neither.
get_lv_data_from_table(data) ==
    Take(data) ## Opt(Take("values") ## Free({"values"}) \cup prepare_sublvs ## Free({"values"}))
    ## Free({"table"})
\* The segment of a further line of the same LV moves over to the first.
merge_lv_data == Opt(Take("new_segs") ## Free({"new_segs"}))

LOCAL Lines == Take("lines") ## Free({"output"})
LOCAL Dropped == parse_lvm_vars ## Free({"table"})

\* The first good line is the answer.
LOCAL FirstRow(data(_)) ==
    Lines ## Opt(Dropped)
    ## (Fail({"lines"}) \cup parse_lvm_vars ## Free({"lines"}) ## data("data") ## Free({"data"}))
\* All good lines are; no output is no rows, output without rows is an error.
LOCAL AllRows(data(_), again) ==
    LET Row == parse_lvm_vars ## data("data") ## (again ## Free({"data"}) \cup Free({"data"})) IN
    Take("array")
    ## ( NoOutput({"array"}) ## Free({"array"}) \cup
         call_lvm_and_capture_output({"array"}) ## Lines
         ## ( (Nothing \cup Dropped) ## Free({"lines"}) ## Fail({"array"}) \cup
              Loop(Row) ## Free({"lines"}) ## Try({"array"}) ## Free({"array"}) ))
LOCAL Spec(rest) == Take("lvspec") ## call_lvm_and_capture_output({"lvspec"}) ## Free({"lvspec"}) ## rest

bd_lvm_pvinfo == call_lvm_and_capture_output({}) ## FirstRow(get_pv_data_from_table)
bd_lvm_pvs == AllRows(get_pv_data_from_table, Nothing)
bd_lvm_vginfo == call_lvm_and_capture_output({}) ## FirstRow(get_vg_data_from_table)
bd_lvm_vgs == AllRows(get_vg_data_from_table, Nothing)
bd_lvm_lvinfo == Spec(FirstRow(get_lv_data_from_table))
bd_lvm_lvinfo_tree ==
    LET More == parse_lvm_vars ## get_lv_data_from_table("lvdata") ## merge_lv_data ## Free({"lvdata"}) IN
    Spec(Lines ## Opt(Dropped)
         ## ( Free({"lines"}) ## Fail({}) \cup
              parse_lvm_vars ## get_lv_data_from_table("result") ## Opt(More)
              ## Free({"lines"}) ## Free({"result"}) ))
bd_lvm_lvs == AllRows(get_lv_data_from_table, Nothing)
bd_lvm_lvs_tree == AllRows(get_lv_data_from_table, merge_lv_data)
bd_lvm_vdo_info == Spec(FirstRow(get_vdo_data_from_table))
bd_lvm_lvorigin == Spec(Free({"output"}))
bd_lvm_thlvpoolname == Spec(Free({"output"}))
bd_lvm_vdolvpoolname == Spec(Free({"output"}))
\* The name of a cache pool is in brackets.
bd_lvm_cache_pool_name ==
    Spec(Take("ret") ## Free({"output"})) ## Try({"ret"}) ## Try({"ret"}) ## Free({"ret"})

-----------------------------------------------------------------------------
(* Physical volumes and volume groups.                                     *)

bd_lvm_pvcreate ==
    LET S == {"dataalign_str", "metadata_str"} IN
    Opt(Take("dataalign_str")) ## Opt(Take("metadata_str"))
    ## call_lvm_and_report_error("pv created", S) ## Free(S)
bd_lvm_pvresize == OptWith("size_str", "pv resized")
bd_lvm_pvremove == Run("pv removed")
bd_lvm_pvmove == call_lvm_and_report_progress("moved", {})
bd_lvm_pvscan == Run("cache updated")
_manage_lvm_tags == With("args", "tags", {})
bd_lvm_add_pv_tags == _manage_lvm_tags
bd_lvm_delete_pv_tags == _manage_lvm_tags
bd_lvm_vgcreate == Take("pe_size") ## With("args", "vg created", {"pe_size"}) ## Free({"pe_size"})
bd_lvm_vgremove == Run("vg removed")
bd_lvm_vgrename == Run("vg renamed")
bd_lvm_vgactivate == Run("activated")
bd_lvm_vgdeactivate == Run("deactivated")
bd_lvm_vgextend == Run("extended")
bd_lvm_vgreduce == Run("reduced")
bd_lvm_add_vg_tags == _manage_lvm_tags
bd_lvm_delete_vg_tags == _manage_lvm_tags
_vglock_start_stop == Run("lock space")
bd_lvm_vglock_start == _vglock_start_stop
bd_lvm_vglock_stop == _vglock_start_stop

-----------------------------------------------------------------------------
(* Logical volumes.  lvcreate(R) is the function for a caller that frees R *)
(* when it fails.                                                          *)

LOCAL lvcreate(a, R) ==
    LET Create(S) == call_lvm_and_report_error(a, S \cup R) ## Free(S)
        S == {"args", "size_str"}
    IN
    Take("args") ## Take("size_str") ## (Create(S) \cup Take("type_str") ## Create(S \cup {"type_str"}))
LOCAL lvdeactivate(a, R) == With("lvspec", a, R)
bd_lvm_lvcreate == lvcreate("lv created", {})
bd_lvm_lvremove == With("lvspec", "lv removed", {})
bd_lvm_lvrename == Run("renamed")
bd_lvm_lvresize == Take("size_str") ## With("lvspec", "lv resized", {"size_str"}) ## Free({"size_str"})
bd_lvm_lvrepair == Take("lvspec") ## With("args", "repaired", {"lvspec"}) ## Free({"lvspec"})
bd_lvm_lvactivate == With("lvspec", "activated", {})
bd_lvm_lvdeactivate == lvdeactivate("deactivated", {})
bd_lvm_lvsnapshotcreate == Take("size_str") ## With("origin", "lv created", {"size_str"}) ## Free({"size_str"})
bd_lvm_lvsnapshotmerge == With("lvspec", "merged", {})
bd_lvm_add_lv_tags == _manage_lvm_tags
bd_lvm_delete_lv_tags == _manage_lvm_tags
bd_lvm_thpoolcreate ==
    LET S == {"size_str", "md_str", "chunk_str", "profile_str"} IN
    Take("size_str") ## Opt(Take("md_str")) ## Opt(Take("chunk_str")) ## Opt(Take("profile_str"))
    ## With("lvspec", "lv created", S) ## Free(S)
bd_lvm_thlvcreate == Take("size_str") ## With("lvspec", "lv created", {"size_str"}) ## Free({"size_str"})
bd_lvm_thsnapshotcreate == With("lvspec", "lv created", {})

\* A conversion, and a new name only for what was converted.
LOCAL Convert == With("lvspec", "converted", {}) ## Opt(Run("pool renamed"))
bd_lvm_thpool_convert == Convert
bd_lvm_cache_pool_convert == Convert

-----------------------------------------------------------------------------
(* Caches.  Each is made in several steps; a later one that fails leaves   *)
(* the LVs of the earlier ones behind.                                     *)

\* The mode is looked at when both LVs exist.
LOCAL cache_create_pool(task, R) ==
    Take(task) ## lvcreate("data lv created", {task} \cup R) ## Opt(Try({task} \cup R))
    ## Take("meta_name") ## lvcreate("meta lv created", {task, "meta_name"} \cup R)
    ## Check({task, "meta_name"} \cup R)
    ## With("lvspec", "converted", {task, "meta_name"} \cup R)
    ## Free({"meta_name", task})
bd_lvm_cache_create_pool == cache_create_pool("task", {})
LOCAL cache_attach(R) ==
    Take("pool_spec") ## With("lvspec", "attached", {"pool_spec"} \cup R) ## Free({"pool_spec"})
bd_lvm_cache_attach == cache_attach({})
bd_lvm_cache_detach == With("lvspec", "detached", {})
bd_lvm_cache_create_cached_lv ==
    LET F == {"task", "name"} IN
    Take("task") ## Take("name") ## cache_create_pool("pool task", F)
    ## lvcreate("lv created", F) ## cache_attach(F) ## Free(F)
LOCAL writecache_attach(R) ==
    lvdeactivate("data lv deactivated", R) ## lvdeactivate("cache lv deactivated", R) ## cache_attach(R)
bd_lvm_writecache_attach == writecache_attach({})
bd_lvm_writecache_detach == bd_lvm_cache_detach
bd_lvm_writecache_create_cached_lv ==
    LET F == {"task", "name"} IN
    Take("task") ## Take("name") ## lvcreate("cache lv created", F)
    ## lvcreate("lv created", F) ## writecache_attach(F) ## Free(F)

-----------------------------------------------------------------------------
(* VDO.  The policy goes into the global configuration, which is changed   *)
(* for the one command, under its lock.                                    *)

LOCAL Overridden(a, S) ==
    LET F == {Config, "config override"} IN
    Check({}) ## S ## Take(Config) ## Take("config override")
    ## Deps(F \cup {"size_str", "vsize_str", "lv_spec"}) ## Take("argv")
    ## Do(a, F \cup {"argv", "size_str", "vsize_str", "lv_spec"})
    ## Free(F \cup {"argv", "size_str", "vsize_str", "lv_spec"})
bd_lvm_vdo_pool_create ==
    Overridden("lv created", Take("size_str") ## Take("vsize_str") ## Opt(Take("lv_spec")))
bd_lvm_vdo_pool_convert == Overridden("converted", Take("size_str") ## Take("lv_spec"))
_vdo_set_compression_deduplication == With("lvspec", "vdo changed", {})
bd_lvm_vdo_enable_compression == _vdo_set_compression_deduplication
bd_lvm_vdo_disable_compression == _vdo_set_compression_deduplication
bd_lvm_vdo_enable_deduplication == _vdo_set_compression_deduplication
bd_lvm_vdo_disable_deduplication == _vdo_set_compression_deduplication
bd_lvm_vdo_resize == bd_lvm_lvresize
\* A pool may only grow.
bd_lvm_vdo_pool_resize ==
    Open("info", {}) ## (Refuse({"info"}) \cup Free({"info"}) ## bd_lvm_lvresize)

-----------------------------------------------------------------------------
(* lvm-common.c.                                                           *)

\* The names of modes, states and policies: a value out of range has none.
bd_lvm_cache_get_mode_str == Check({})
bd_lvm_cache_get_mode_from_str == Check({})
bd_lvm_get_vdo_operating_mode_str == Check({})
bd_lvm_get_vdo_compression_state_str == Check({})
bd_lvm_get_vdo_index_state_str == Check({})
bd_lvm_get_vdo_write_policy_str == Check({})
bd_lvm_get_vdo_write_policy_from_str == Check({})

\* What the configuration says or, when it cannot be read, the default; an
\* answer that cannot be read is no.
_lvm_devices_enabled ==
    Take(Config) ## Opt(Take("output")) ## Free({Config}) ## Free({"output"})
    ## Opt(Take("output") ## Free({"output"}))
LOCAL Lvmdevices(a) == Deps({}) ## _lvm_devices_enabled ## Try({}) ## Do(a, {})
bd_lvm_devices_add == Lvmdevices("device added")
bd_lvm_devices_delete == Lvmdevices("device deleted")
\* A setting without a section is refused.
bd_lvm_config_get == Check({}) ## Take(Config) ## Free({Config}) ## Open("output", {}) ## Free({"output"})
_vgcfgbackup_restore(a) == Take(Config) ## Free({Config}) ## Do(a, {})
bd_lvm_vgcfgbackup == _vgcfgbackup_restore("backup")
bd_lvm_vgcfgrestore == _vgcfgbackup_restore("restored")
\* The name of the map is made in the pool; each question to the device
\* mapper may be the last.
bd_lvm_cache_stats ==
    LET F == {"task", "pool"} IN
    Open("lvdata", {}) ## Take("pool") ## Free({"lvdata"}) ## Open("task", {"pool"})
    ## Try(F) ## Try(F) ## Try(F) ## Try(F) ## Try(F)
    ## Take("ret") ## Try(F \cup {"ret"}) ## Free(F) ## Free({"ret"})
bd_lvm_vdo_get_stats_full == Open("stats", {}) ## Free({"stats"})
bd_lvm_vdo_get_stats == Open("full_stats", {}) ## Take("stats") ## Free({"full_stats"}) ## Free({"stats"})

\* The functions by name.
LvmCliFunctions ==
    [bd_lvm_pvinfo |-> bd_lvm_pvinfo,
     bd_lvm_pvs |-> bd_lvm_pvs,
     bd_lvm_vginfo |-> bd_lvm_vginfo,
     bd_lvm_vgs |-> bd_lvm_vgs,
     bd_lvm_lvinfo |-> bd_lvm_lvinfo,
     bd_lvm_lvinfo_tree |-> bd_lvm_lvinfo_tree,
     bd_lvm_lvs |-> bd_lvm_lvs,
     bd_lvm_lvs_tree |-> bd_lvm_lvs_tree,
     bd_lvm_vdo_info |-> bd_lvm_vdo_info,
     bd_lvm_lvorigin |-> bd_lvm_lvorigin,
     bd_lvm_thlvpoolname |-> bd_lvm_thlvpoolname,
     bd_lvm_vdolvpoolname |-> bd_lvm_vdolvpoolname,
     bd_lvm_cache_pool_name |-> bd_lvm_cache_pool_name,
     bd_lvm_pvcreate |-> bd_lvm_pvcreate,
     bd_lvm_pvresize |-> bd_lvm_pvresize,
     bd_lvm_pvremove |-> bd_lvm_pvremove,
     bd_lvm_pvmove |-> bd_lvm_pvmove,
     bd_lvm_pvscan |-> bd_lvm_pvscan,
     bd_lvm_add_pv_tags |-> bd_lvm_add_pv_tags,
     bd_lvm_delete_pv_tags |-> bd_lvm_delete_pv_tags,
     bd_lvm_vgcreate |-> bd_lvm_vgcreate,
     bd_lvm_vgremove |-> bd_lvm_vgremove,
     bd_lvm_vgrename |-> bd_lvm_vgrename,
     bd_lvm_vgactivate |-> bd_lvm_vgactivate,
     bd_lvm_vgdeactivate |-> bd_lvm_vgdeactivate,
     bd_lvm_vgextend |-> bd_lvm_vgextend,
     bd_lvm_vgreduce |-> bd_lvm_vgreduce,
     bd_lvm_add_vg_tags |-> bd_lvm_add_vg_tags,
     bd_lvm_delete_vg_tags |-> bd_lvm_delete_vg_tags,
     bd_lvm_vglock_start |-> bd_lvm_vglock_start,
     bd_lvm_vglock_stop |-> bd_lvm_vglock_stop,
     bd_lvm_lvcreate |-> bd_lvm_lvcreate,
     bd_lvm_lvremove |-> bd_lvm_lvremove,
     bd_lvm_lvrename |-> bd_lvm_lvrename,
     bd_lvm_lvresize |-> bd_lvm_lvresize,
     bd_lvm_lvrepair |-> bd_lvm_lvrepair,
     bd_lvm_lvactivate |-> bd_lvm_lvactivate,
     bd_lvm_lvdeactivate |-> bd_lvm_lvdeactivate,
     bd_lvm_lvsnapshotcreate |-> bd_lvm_lvsnapshotcreate,
     bd_lvm_lvsnapshotmerge |-> bd_lvm_lvsnapshotmerge,
     bd_lvm_add_lv_tags |-> bd_lvm_add_lv_tags,
     bd_lvm_delete_lv_tags |-> bd_lvm_delete_lv_tags,
     bd_lvm_thpoolcreate |-> bd_lvm_thpoolcreate,
     bd_lvm_thlvcreate |-> bd_lvm_thlvcreate,
     bd_lvm_thsnapshotcreate |-> bd_lvm_thsnapshotcreate,
     bd_lvm_thpool_convert |-> bd_lvm_thpool_convert,
     bd_lvm_cache_pool_convert |-> bd_lvm_cache_pool_convert,
     bd_lvm_cache_create_pool |-> bd_lvm_cache_create_pool,
     bd_lvm_cache_attach |-> bd_lvm_cache_attach,
     bd_lvm_cache_detach |-> bd_lvm_cache_detach,
     bd_lvm_cache_create_cached_lv |-> bd_lvm_cache_create_cached_lv,
     bd_lvm_writecache_attach |-> bd_lvm_writecache_attach,
     bd_lvm_writecache_detach |-> bd_lvm_writecache_detach,
     bd_lvm_writecache_create_cached_lv |-> bd_lvm_writecache_create_cached_lv,
     bd_lvm_vdo_pool_create |-> bd_lvm_vdo_pool_create,
     bd_lvm_vdo_pool_convert |-> bd_lvm_vdo_pool_convert,
     bd_lvm_vdo_enable_compression |-> bd_lvm_vdo_enable_compression,
     bd_lvm_vdo_disable_compression |-> bd_lvm_vdo_disable_compression,
     bd_lvm_vdo_enable_deduplication |-> bd_lvm_vdo_enable_deduplication,
     bd_lvm_vdo_disable_deduplication |-> bd_lvm_vdo_disable_deduplication,
     bd_lvm_vdo_resize |-> bd_lvm_vdo_resize,
     bd_lvm_vdo_pool_resize |-> bd_lvm_vdo_pool_resize,
     bd_lvm_cache_get_mode_str |-> bd_lvm_cache_get_mode_str,
     bd_lvm_cache_get_mode_from_str |-> bd_lvm_cache_get_mode_from_str,
     bd_lvm_get_vdo_operating_mode_str |-> bd_lvm_get_vdo_operating_mode_str,
     bd_lvm_get_vdo_compression_state_str |-> bd_lvm_get_vdo_compression_state_str,
     bd_lvm_get_vdo_index_state_str |-> bd_lvm_get_vdo_index_state_str,
     bd_lvm_get_vdo_write_policy_str |-> bd_lvm_get_vdo_write_policy_str,
     bd_lvm_get_vdo_write_policy_from_str |-> bd_lvm_get_vdo_write_policy_from_str,
     bd_lvm_devices_add |-> bd_lvm_devices_add,
     bd_lvm_devices_delete |-> bd_lvm_devices_delete,
     bd_lvm_config_get |-> bd_lvm_config_get,
     bd_lvm_vgcfgbackup |-> bd_lvm_vgcfgbackup,
     bd_lvm_vgcfgrestore |-> bd_lvm_vgcfgrestore,
     bd_lvm_cache_stats |-> bd_lvm_cache_stats,
     bd_lvm_vdo_get_stats_full |-> bd_lvm_vdo_get_stats_full,
     bd_lvm_vdo_get_stats |-> bd_lvm_vdo_get_stats]
============================================================================
