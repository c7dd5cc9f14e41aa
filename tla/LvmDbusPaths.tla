---------------------------- MODULE LvmDbusPaths ----------------------------
(***************************************************************************)
(* The LVM plugin that talks to lvmdbusd (src/src/plugins/lvm/lvm-dbus.c). *)
(* Objects are looked up by the names lvm gives them, then a method is     *)
(* called; the life of a call, its job included, is modelled in LvmDbusJob *)
(* and is one step here.  The values that make up the parameters of a call *)
(* are left out.                                                           *)
(***************************************************************************)
EXTENDS CallPaths

\* An id that the function puts together ("vg/lv") is never empty, one it is
\* given may be.
LOCAL Lookup(r, R) == Open(r, R)
get_object_path(r, R) == Check(R) ## Lookup(r, R)
LOCAL Property(R) == Open("prop", R)            \* get_object_property
get_lvm_object_property(R) == Lookup("obj_path", R) ## Open("prop", {"obj_path"} \cup R) ## Free({"obj_path"})
get_lv_property(R) ==
    Take("lv_spec") ## get_lvm_object_property({"lv_spec"} \cup R) ## Free({"lv_spec"})

get_object_properties(R) == Take("args") ## Open("props", R \cup {"args"}) ## Free({"args"})
get_lvm_object_properties(R) ==
    Check(R) ## Lookup("obj_path", R) ## get_object_properties({"obj_path"} \cup R) ## Free({"obj_path"})
get_pv_properties ==
    Check({}) ## (get_lvm_object_properties({}) \cup
                  Take("obj_id") ## get_lvm_object_properties({"obj_id"}) ## Free({"obj_id"}))
get_vg_properties == get_lvm_object_properties({})
LOCAL LvProperties ==
    Take("lvm_spec") ## Lookup("obj_path", {"lvm_spec"})
    ## get_object_properties({"obj_path", "lvm_spec"}) ## Free({"obj_path", "lvm_spec"})
get_lv_properties == LvProperties
get_vdo_properties == LvProperties

\* The objects below a path of the daemon's tree.
get_existing_objects(r, R) ==
    Open("intro_v", R) ## Take("intro_data") ## Free({"intro_v"})
    ## Take("info") ## Free({"intro_data"}) ## Take(r) ## Free({"info"})

\* A method of an object, and one of an object that has to be found first.
LOCAL Call(a, R) == Do(a, R)                    \* call_lvm_method_sync
call_lvm_obj_method_sync(a, R) ==
    Check(R) ## Lookup("obj_path", R) ## Call(a, {"obj_path"} \cup R) ## Free({"obj_path"})
LOCAL Composed(a, R) ==
    Take("obj_id") ## Lookup("obj_path", {"obj_id"} \cup R)
    ## Call(a, {"obj_path", "obj_id"} \cup R) ## Free({"obj_path", "obj_id"})
call_lv_method_sync(a, R) == Composed(a, R)
call_thpool_method_sync(a, R) == Composed(a, R)
call_vdopool_method_sync(a, R) == Composed(a, R)

-----------------------------------------------------------------------------
(* What the properties say.                                                *)

LOCAL Strings(r) == Opt(Take("value") ## Take(r) ## Free({"value"}) ## Free({r}))
\* The VG is asked too; that it does not answer is no error.
get_pv_data_from_props ==
    Take("data") ## Strings("tags") ## Opt(Take("vg_props") ## Free({"vg_props"}))
get_vg_data_from_props == Take("data") ## Strings("tags")
\* Takes the properties over.  The names of the VG, the origin, the pool and
\* the PV that is moved are asked for.
get_lv_data_from_props ==
    Take("data") ## Take("value") ## Take("roles") ## Free({"roles"}) ## Free({"value"})
    ## Take("path") ## Opt(Take("name") ## Free({"name"})) ## Free({"path"})
    ## Take("value") ## Free({"value"}) ## Free({"props"})
get_vdo_data_from_props ==
    Take("data") ## Take("value") ## Free({"value"}) ## Free({"props"})

\* The LV that holds the data of a pool.  The path of its object is kept,
\* also when the type of the pool cannot be read.  bad is what the caller does
\* about an error.
_lvm_data_lv_name(bad) ==
    LET Found == Take("obj_path") IN
    bad \cup Found ## bad
    \cup Found ## Take("segtype") ## Free({"segtype", "obj_path"})
         ## ( Nothing \cup
              Take("prop") ## Found ## Free({"prop"})
              ## ( Free({"obj_path"}) ## (Nothing \cup bad) \cup Nothing ))
_lvm_metadata_lv_name(bad) ==
    LET Found == Take("obj_path") IN
    bad \cup Found ## Free({"obj_path"})
    \cup Found ## Take("prop") ## Free({"obj_path"}) ## Found ## Free({"prop"})
         ## ( Free({"obj_path"}) ## (Nothing \cup bad) \cup Nothing )
_lvm_segs(bad) ==
    LET Device == Take("pv_segs") ## Take("pv_name_prop") ## Free({"pv_name_prop"}) ## Free({"pv_segs"}) IN
    bad \cup Take("prop") ## (Free({"prop"}) \cup Take("segs") ## Device ## Free({"prop"}) ## Free({"segs"}))
_lvm_data_and_metadata_lvs(bad) ==
    LET Sub == Take("sublv_roles_prop")
               ## Take("sublv_name_prop") ## Free({"sublv_name_prop"})
               ## Free({"sublv_roles_prop"})
    IN
    bad \cup Take("prop") ## Take("sublvs") ## Opt(Sub) ## Free({"prop"}) ## Free({"sublvs"})

LOCAL PoolParts(bad) ==
    Nothing \cup _lvm_data_lv_name(bad) \cup _lvm_data_lv_name(bad) ## _lvm_metadata_lv_name(bad)
\* The parts of a pool, or the segments and the parts of another LV.
LOCAL TreeParts(bad) == PoolParts(bad) \cup _lvm_segs(bad) ## _lvm_data_and_metadata_lvs(bad)

bd_lvm_pvinfo == get_pv_properties ## get_pv_data_from_props ## Free({"props"}) ## Free({"data"})
bd_lvm_vginfo == get_vg_properties ## get_vg_data_from_props ## Free({"props"}) ## Free({"data"})
bd_lvm_lvinfo == get_lv_properties ## get_lv_data_from_props ## PoolParts(Nothing) ## Free({"data"})
bd_lvm_lvinfo_tree ==
    get_lv_properties ## get_lv_data_from_props ## TreeParts(Nothing) ## Free({"data"})
bd_lvm_vdo_info == get_vdo_properties ## get_vdo_data_from_props ## Free({"data"})

\* When a later object is gone, the records of the earlier ones are lost with
\* the array.
LOCAL Records(from_props) ==
    LET One == get_object_properties({"objects", "ret"}) ## from_props ## Free({"props"}) IN
    get_existing_objects("objects", {}) ## Take("ret") ## (Nothing \cup One \cup One ## One)
    ## Free({"objects"}) ## Free({"ret", "data"})
bd_lvm_pvs == Records(get_pv_data_from_props)
bd_lvm_vgs == Records(get_vg_data_from_props)

\* Of the LVs, those of one VG; the name of the VG is asked for each of them.
get_lv_vg_name(R) ==
    Open("value", R) ## Take("vg_obj_path") ## Free({"value"})
    ## Open("value", {"vg_obj_path"} \cup R) ## Free({"value", "vg_obj_path"})
filter_lvs_by_vg(R) == Take("matched_lvs") ## Opt(get_lv_vg_name(R))
\* LVs, thin pools, cache pools, VDO pools and hidden LVs: five subtrees, of
\* which two stand here for all, the second without the filter.
LOCAL Matched ==
    LET M == {"lvs", "matched_lvs"} IN
    get_existing_objects("lvs", {}) ## filter_lvs_by_vg(M) ## Free({"lvs"})
    ## get_existing_objects("lvs", {"matched_lvs"}) ## Free({"lvs"})
LOCAL LvRecords(more(_)) ==
    LET M == {"matched_lvs", "ret"}
        Good == get_object_properties(M) ## get_lv_data_from_props
    IN
    Matched ## ( Free({"matched_lvs"}) \cup
                 Take("ret") ## (Good ## more(Fail(M \cup {"data"})) \cup Good ## Good)
                 ## Free({"matched_lvs"}) ## Free({"ret", "data"}) )
bd_lvm_lvs == LvRecords(PoolParts)
bd_lvm_lvs_tree == LvRecords(TreeParts)

\* The name of the object a property points to.
LOCAL NameOf(path, R) ==
    Take(path) ## Free({"prop"}) ## Property({path} \cup R) ## Free({path})
    ## Take("ret") ## Free({"prop"}) ## Free({"ret"} \cup R)
\* No origin is no name, without an error.  The path of the origin is kept.
bd_lvm_lvorigin ==
    get_lv_property({}) ## Take("obj_path") ## Free({"prop"}) ## Ask({"obj_path"})
    ## Property({"obj_path"}) ## Take("ret") ## Free({"prop"}) ## Free({"ret"})
bd_lvm_thlvpoolname ==
    get_lv_property({}) ## Free({"prop"}) ## Try({}) ## get_lv_property({}) ## NameOf("pool_obj_path", {})
bd_lvm_vdolvpoolname ==
    get_lv_property({}) ## Try({"prop"}) ## Free({"prop"}) ## get_lv_property({}) ## NameOf("pool_obj_path", {})
\* The name of a cache pool is in brackets.
LOCAL cache_pool_name(R) ==
    Take("lv_spec") ## get_lvm_object_property({"lv_spec"} \cup R) ## Free({"lv_spec"})
    ## Take("pool_obj_path") ## Free({"prop"}) ## Property({"pool_obj_path"} \cup R)
    ## Free({"pool_obj_path"}) ## Take("ret") ## Free({"prop"})
    ## Try({"ret"} \cup R) ## Try({"ret"} \cup R) ## Free({"ret"})
bd_lvm_cache_pool_name == cache_pool_name({})

-----------------------------------------------------------------------------
(* Physical volumes and volume groups.                                     *)

bd_lvm_pvcreate == Check({}) ## Call("pv created", {})
\* The path is kept.
bd_lvm_pvresize == get_object_path("obj_path", {}) ## Call("pv resized", {})
\* A device that exists and is no PV is what was wanted.
bd_lvm_pvremove ==
    Check({}) ## Check({}) ## Enough({}) ## Lookup("obj_path", {})
    ## Call("pv removed", {"obj_path"}) ## Free({"obj_path"})
\* Paths are kept when the destination or the VG is not found; so is the
\* value of the property.
bd_lvm_pvmove ==
    LET P == {"src_path", "dest_path", "vg_obj_path"} IN
    get_object_path("src_path", {}) ## Opt(get_object_path("dest_path", {}))
    ## Open("prop", {"src_path"}) ## Take("vg_obj_path") ## Call("moved", P) ## Free(P)
bd_lvm_pvscan == Call("cache updated", {})
_manage_lvm_tags(R) == Take("tags_array") ## Call("tags", {"tags_array"} \cup R) ## Free({"tags_array"} \cup R)
\* The tags of a PV are changed through its VG.
LOCAL PvTags ==
    LET P == {"pv_path", "vg_path"} IN
    get_object_path("pv_path", {}) ## Open("pvinfo", {"pv_path"})
    ## Try({"pv_path", "pvinfo"}) ## Lookup("vg_path", {"pv_path", "pvinfo"}) ## Free({"pvinfo"})
    ## _manage_lvm_tags(P)
bd_lvm_add_pv_tags == PvTags
bd_lvm_delete_pv_tags == PvTags
\* The PVs that are named; the same ones again have been looked at before.
LOCAL Pvs(R) == Loop(get_object_path("path", R) ## Free({"path"}))
LOCAL SamePvs(R) == Loop(Lookup("path", R) ## Free({"path"}))
bd_lvm_vgcreate == Pvs({}) ## Call("vg created", {})
bd_lvm_vgremove == call_lvm_obj_method_sync("vg removed", {})
bd_lvm_vgrename == call_lvm_obj_method_sync("vg renamed", {})
bd_lvm_vgactivate == call_lvm_obj_method_sync("activated", {})
bd_lvm_vgdeactivate == call_lvm_obj_method_sync("deactivated", {})
bd_lvm_vgextend == get_object_path("pv", {}) ## call_lvm_obj_method_sync("extended", {"pv"}) ## Free({"pv"})
bd_lvm_vgreduce ==
    Opt(get_object_path("pv", {})) ## call_lvm_obj_method_sync("reduced", {"pv"}) ## Free({"pv"})
LOCAL VgTags == get_object_path("obj_path", {}) ## _manage_lvm_tags({"obj_path"})
bd_lvm_add_vg_tags == VgTags
bd_lvm_delete_vg_tags == VgTags
_vglock_start_stop == call_lvm_obj_method_sync("lock space", {})
bd_lvm_vglock_start == _vglock_start_stop
bd_lvm_vglock_stop == _vglock_start_stop

-----------------------------------------------------------------------------
(* Logical volumes.                                                        *)

LOCAL lvcreate(pvs, a, R) ==
    pvs ## Lookup("obj_path", R) ## Call(a, {"obj_path"} \cup R) ## Free({"obj_path"})
bd_lvm_lvcreate == Pvs({}) ## Check({}) ## lvcreate(Nothing, "lv created", {})
bd_lvm_lvremove == call_lv_method_sync("lv removed", {})
bd_lvm_lvrename == call_lv_method_sync("renamed", {})
bd_lvm_lvresize == call_lv_method_sync("lv resized", {})
bd_lvm_lvrepair == Pvs({}) ## call_lv_method_sync("repaired", {})
bd_lvm_lvactivate == call_lv_method_sync("activated", {})
bd_lvm_lvdeactivate == call_lv_method_sync("deactivated", {})
bd_lvm_lvsnapshotcreate == call_lv_method_sync("lv created", {})
bd_lvm_lvsnapshotmerge ==
    Take("obj_id") ## Lookup("obj_path", {"obj_id"}) ## Free({"obj_id"})
    ## Call("merged", {"obj_path"}) ## Free({"obj_path"})
LOCAL LvTags ==
    Take("obj_id") ## Lookup("obj_path", {"obj_id"}) ## _manage_lvm_tags({"obj_path", "obj_id"})
bd_lvm_add_lv_tags == LvTags
bd_lvm_delete_lv_tags == LvTags
bd_lvm_thpoolcreate == call_lvm_obj_method_sync("lv created", {})
bd_lvm_thlvcreate == call_thpool_method_sync("lv created", {})
bd_lvm_thsnapshotcreate == call_lv_method_sync("lv created", {})

\* The data and the metadata LV are looked up and given to the VG.
LOCAL ConvertPair(convert(_)) ==
    Lookup("data_lv_path", {}) ## Lookup("metadata_lv_path", {"data_lv_path"})
    ## convert({"data_lv_path", "metadata_lv_path"}) ## Free({"data_lv_path", "metadata_lv_path"})
\* That the new name is not taken does not change the result.
bd_lvm_thpool_convert ==
    LET Convert(R) == Call("converted", R) ## Opt(Attempt("pool renamed")) IN ConvertPair(Convert)
\* The name is given to the data LV when it was not converted.
bd_lvm_cache_pool_convert ==
    LET Convert(R) == Call("converted", R) \cup Attempt("pool renamed") ## Fail(R) IN ConvertPair(Convert)

-----------------------------------------------------------------------------
(* Caches.                                                                 *)

\* From the second lookup on, the name of the metadata LV and the paths are
\* kept.  The mode is looked at when both LVs exist.
LOCAL cache_create_pool(task, R) ==
    LET T == {task} \cup R IN
    Take(task) ## lvcreate(Pvs(T), "data lv created", T)
    ## Take("meta_name") ## lvcreate(SamePvs(T \cup {"meta_name"}), "meta lv created", T \cup {"meta_name"})
    ## Lookup("meta_path", T) ## Lookup("pool_path", T) ## Check(T)
    ## Lookup("obj_path", T) ## Call("converted", T \cup {"obj_path"}) ## Free({"obj_path", task})
bd_lvm_cache_create_pool == cache_create_pool("task", {})
LOCAL cache_attach(R) ==
    Take("lv_id") ## Lookup("lv_obj_path", {"lv_id"} \cup R) ## Free({"lv_id"})
    ## Take("lv_id") ## Lookup("obj_path", {"lv_id", "lv_obj_path"} \cup R)
    ## Call("attached", {"lv_id", "lv_obj_path", "obj_path"} \cup R)
    ## Free({"lv_id", "lv_obj_path", "obj_path"})
bd_lvm_cache_attach == cache_attach({})
\* Only an LV that has a cache pool is detached from it.
bd_lvm_cache_detach == cache_pool_name({}) ## call_lv_method_sync("detached", {})
bd_lvm_cache_create_cached_lv ==
    LET F == {"task", "name"} IN
    Take("task") ## lvcreate(Pvs({"task"}), "lv created", {"task"})
    ## Take("name") ## cache_create_pool("pool task", F) ## cache_attach(F) ## Free(F)
LOCAL writecache_attach(R) ==
    call_lv_method_sync("data lv deactivated", R) ## call_lv_method_sync("cache lv deactivated", R)
    ## cache_attach(R)
bd_lvm_writecache_attach == writecache_attach({})
bd_lvm_writecache_detach == bd_lvm_cache_detach
bd_lvm_writecache_create_cached_lv ==
    LET F == {"task", "name"} IN
    Take("task") ## Take("name") ## lvcreate(Pvs(F), "cache lv created", F)
    ## lvcreate(Pvs(F), "lv created", F) ## writecache_attach(F) ## Free(F)

-----------------------------------------------------------------------------
(* VDO.                                                                    *)

LOCAL Overridden(a, R) ==
    LET F == {"global_config_lock", "config override"} \cup R IN
    Take("global_config_lock") ## Take("config override")
    ## Lookup("obj_path", F) ## Call(a, F \cup {"obj_path"}) ## Free(F \cup {"obj_path"})
bd_lvm_vdo_pool_create == Check({}) ## Opt(Take("name")) ## Overridden("lv created", {"name"})
bd_lvm_vdo_pool_convert ==
    LET S == {"obj_id", "pool_lv_path"} IN
    Take("obj_id") ## Lookup("pool_lv_path", {"obj_id"}) ## Check(S)
    ## Opt(Take("lvname")) ## Overridden("converted", S \cup {"lvname"})
bd_lvm_vdo_enable_compression == call_vdopool_method_sync("vdo changed", {})
bd_lvm_vdo_disable_compression == call_vdopool_method_sync("vdo changed", {})
bd_lvm_vdo_enable_deduplication == call_vdopool_method_sync("vdo changed", {})
bd_lvm_vdo_disable_deduplication == call_vdopool_method_sync("vdo changed", {})
bd_lvm_vdo_resize == bd_lvm_lvresize
bd_lvm_vdo_pool_resize ==
    Open("info", {}) ## (Refuse({"info"}) \cup Free({"info"}) ## bd_lvm_lvresize)

\* The functions by name.
LvmDbusFunctions ==
    [dbus_bd_lvm_pvinfo |-> bd_lvm_pvinfo,
     dbus_bd_lvm_vginfo |-> bd_lvm_vginfo,
     dbus_bd_lvm_lvinfo |-> bd_lvm_lvinfo,
     dbus_bd_lvm_lvinfo_tree |-> bd_lvm_lvinfo_tree,
     dbus_bd_lvm_vdo_info |-> bd_lvm_vdo_info,
     dbus_bd_lvm_pvs |-> bd_lvm_pvs,
     dbus_bd_lvm_vgs |-> bd_lvm_vgs,
     dbus_bd_lvm_lvs |-> bd_lvm_lvs,
     dbus_bd_lvm_lvs_tree |-> bd_lvm_lvs_tree,
     dbus_bd_lvm_lvorigin |-> bd_lvm_lvorigin,
     dbus_bd_lvm_thlvpoolname |-> bd_lvm_thlvpoolname,
     dbus_bd_lvm_vdolvpoolname |-> bd_lvm_vdolvpoolname,
     dbus_bd_lvm_cache_pool_name |-> bd_lvm_cache_pool_name,
     dbus_bd_lvm_pvcreate |-> bd_lvm_pvcreate,
     dbus_bd_lvm_pvresize |-> bd_lvm_pvresize,
     dbus_bd_lvm_pvremove |-> bd_lvm_pvremove,
     dbus_bd_lvm_pvmove |-> bd_lvm_pvmove,
     dbus_bd_lvm_pvscan |-> bd_lvm_pvscan,
     dbus_bd_lvm_add_pv_tags |-> bd_lvm_add_pv_tags,
     dbus_bd_lvm_delete_pv_tags |-> bd_lvm_delete_pv_tags,
     dbus_bd_lvm_vgcreate |-> bd_lvm_vgcreate,
     dbus_bd_lvm_vgremove |-> bd_lvm_vgremove,
     dbus_bd_lvm_vgrename |-> bd_lvm_vgrename,
     dbus_bd_lvm_vgactivate |-> bd_lvm_vgactivate,
     dbus_bd_lvm_vgdeactivate |-> bd_lvm_vgdeactivate,
     dbus_bd_lvm_vgextend |-> bd_lvm_vgextend,
     dbus_bd_lvm_vgreduce |-> bd_lvm_vgreduce,
     dbus_bd_lvm_add_vg_tags |-> bd_lvm_add_vg_tags,
     dbus_bd_lvm_delete_vg_tags |-> bd_lvm_delete_vg_tags,
     dbus_bd_lvm_vglock_start |-> bd_lvm_vglock_start,
     dbus_bd_lvm_vglock_stop |-> bd_lvm_vglock_stop,
     dbus_bd_lvm_lvcreate |-> bd_lvm_lvcreate,
     dbus_bd_lvm_lvremove |-> bd_lvm_lvremove,
     dbus_bd_lvm_lvrename |-> bd_lvm_lvrename,
     dbus_bd_lvm_lvresize |-> bd_lvm_lvresize,
     dbus_bd_lvm_lvrepair |-> bd_lvm_lvrepair,
     dbus_bd_lvm_lvactivate |-> bd_lvm_lvactivate,
     dbus_bd_lvm_lvdeactivate |-> bd_lvm_lvdeactivate,
     dbus_bd_lvm_lvsnapshotcreate |-> bd_lvm_lvsnapshotcreate,
     dbus_bd_lvm_lvsnapshotmerge |-> bd_lvm_lvsnapshotmerge,
     dbus_bd_lvm_add_lv_tags |-> bd_lvm_add_lv_tags,
     dbus_bd_lvm_delete_lv_tags |-> bd_lvm_delete_lv_tags,
     dbus_bd_lvm_thpoolcreate |-> bd_lvm_thpoolcreate,
     dbus_bd_lvm_thlvcreate |-> bd_lvm_thlvcreate,
     dbus_bd_lvm_thsnapshotcreate |-> bd_lvm_thsnapshotcreate,
     dbus_bd_lvm_thpool_convert |-> bd_lvm_thpool_convert,
     dbus_bd_lvm_cache_pool_convert |-> bd_lvm_cache_pool_convert,
     dbus_bd_lvm_cache_create_pool |-> bd_lvm_cache_create_pool,
     dbus_bd_lvm_cache_attach |-> bd_lvm_cache_attach,
     dbus_bd_lvm_cache_detach |-> bd_lvm_cache_detach,
     dbus_bd_lvm_cache_create_cached_lv |-> bd_lvm_cache_create_cached_lv,
     dbus_bd_lvm_writecache_attach |-> bd_lvm_writecache_attach,
     dbus_bd_lvm_writecache_detach |-> bd_lvm_writecache_detach,
     dbus_bd_lvm_writecache_create_cached_lv |-> bd_lvm_writecache_create_cached_lv,
     dbus_bd_lvm_vdo_pool_create |-> bd_lvm_vdo_pool_create,
     dbus_bd_lvm_vdo_pool_convert |-> bd_lvm_vdo_pool_convert,
     dbus_bd_lvm_vdo_enable_compression |-> bd_lvm_vdo_enable_compression,
     dbus_bd_lvm_vdo_disable_compression |-> bd_lvm_vdo_disable_compression,
     dbus_bd_lvm_vdo_enable_deduplication |-> bd_lvm_vdo_enable_deduplication,
     dbus_bd_lvm_vdo_disable_deduplication |-> bd_lvm_vdo_disable_deduplication,
     dbus_bd_lvm_vdo_resize |-> bd_lvm_vdo_resize,
     dbus_bd_lvm_vdo_pool_resize |-> bd_lvm_vdo_pool_resize]
=============================================================================
