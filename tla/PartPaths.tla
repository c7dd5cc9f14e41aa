----------------------------- MODULE PartPaths -----------------------------
(***************************************************************************)
(* The part plugin (src/src/plugins/part.c): partition tables through      *)
(* libfdisk.  A partition is changed in the context "cxt" and exists only  *)
(* once the label is written; "label" is what is on the disk, "kernel" the *)
(* table the kernel uses.                                                  *)
(***************************************************************************)
EXTENDS CallPaths

LOCAL T == {"task"}
LOCAL CxtT == {"cxt", "task"}
LOCAL Cxt == {"cxt"}
LOCAL Started == Take("task")

get_part_num(R) == Check(R) ## Check(R)
get_device_context(R) == Open("cxt", R) ## Try(R \cup Cxt)

\* The disk is locked against udev if that can be had in six tries; without
\* the lock the label is written all the same.  The kernel is told only when
\* the caller has the table as it was.
write_label(tell_kernel, R) ==
    LET F == R \cup {"dev_fd"} IN
    Opt(Take("dev_fd")) ## Do("label", F)
    ## (IF tell_kernel THEN Do("kernel", F) ELSE Nothing)
    ## Free({"dev_fd"})

\* An existing label refuses the call unless it is to be ignored.
bd_part_create_table ==
    Started ## get_device_context(T) ## Try(CxtT) ## Try(CxtT)
    ## write_label(FALSE, CxtT) ## Free(CxtT)

get_part_type_guid_and_gpt_flags(R) ==
    LET G == R \cup {"gpt_cxt"}  P == G \cup {"gpt_pa"} IN
    Open("gpt_cxt", R) ## Try(G) ## Try(G) ## Try(G) ## Open("gpt_pa", G)
    ## Try(P) ## Try(P) ## Try(P) ## Free({"gpt_cxt", "gpt_pa"})

\* The GUID is looked up in a context of its own.
get_part_spec_fdisk(R) ==
    LET S == R \cup {"spec"} IN
    Take("spec") ## Try(S)
    ## (Nothing \cup get_part_type_guid_and_gpt_flags(S) \cup Try(S))

\* What is released after a failing get_part_spec_fdisk is released after a
\* successful one as well; the specification is the caller's.
bd_part_get_part_spec ==
    LET P == {"cxt", "pa"} IN
    get_part_num({}) ## get_device_context({}) ## Open("pa", Cxt)
    ## get_part_spec_fdisk(P) ## Free(P \cup {"spec"})

\* array owns the specifications.
get_disk_parts ==
    LET All == {"cxt", "table", "itr"}
        Spec == Take("spec") ## Try(All \cup {"array", "spec"}) ## Free({"spec"})
    IN
    get_device_context({}) ## Open("table", Cxt) ## Open("itr", Cxt)
    ## Opt(Try(All)) ## Opt(Try(All)) ## Try(All)
    ## Take("array") ## Loop(Spec) ## Free(All \cup {"array"})

bd_part_get_disk_spec == get_device_context({}) ## Free(Cxt)

\* bd_part_create_part up to the type of the partition.
create_part_prepare ==
    LET TC == CxtT \cup {"table"}  All == TC \cup {"npa"} IN
    Started ## get_device_context(T) ## Open("table", CxtT) ## Open("npa", TC)
    ## Try(TC) ## Try(TC) ## Opt(Try(All)) ## Check(All)

\* BD_PART_TYPE_REQ_NEXT on a DOS table: inside the extended partition a
\* logical one, as the fourth an extended one with a logical one in it,
\* otherwise a primary one.
create_part_next(type) ==
    LET NC == CxtT \cup {"npa"}
        All == NC \cup {"table", "iter"}
        Extended ==
            Open("n_epa", NC) ## Try(All \cup {"n_epa"}) ## Try(NC) ## Try(NC)
            ## Take("ptype") ## Try(All \cup {"n_epa"}) ## Free({"ptype"})
            ## Free({"n_epa"}) ## Try(All)
    IN
    Take("iter")
    ## (IF type = "logical" THEN Nothing \cup Extended ELSE Opt(Refuse(All)))
    ## Free({"iter"})

\* From the type on.
create_part_add(type) ==
    LET All == CxtT \cup {"table", "npa"} IN
    (IF type = "extended" THEN Take("ptype") ## Try(All) ## Free({"ptype"}) ELSE Nothing)
    ## Try(All)
    ## (IF type = "logical" THEN Nothing ELSE Try(All))
    ## Try(All) ## Try(All)
    ## write_label(TRUE, All)
    ## Free({"cxt", "table", "npa"})
    ## (Fail(T) \cup Free(T))

bd_part_create_part ==
    UNION {create_part_prepare
           ## (IF type = "extended" THEN Nothing ELSE Opt(create_part_next(type)))
           ## create_part_add(type) : type \in {"normal", "logical", "extended"}}

bd_part_delete_part ==
    LET All == CxtT \cup {"table"} IN
    Started ## get_part_num(T) ## get_device_context(T) ## Open("table", CxtT)
    ## Try(All) ## write_label(TRUE, All) ## Free(All)

get_max_part_size(R) == Open("itr", R) ## Try(R \cup {"itr"}) ## Free({"itr"})

\* pa is kept on success: libfdisk once released it too.
bd_part_resize_part ==
    LET TC == CxtT \cup {"table"}  All == TC \cup {"pa"} IN
    Started ## get_part_num(T) ## get_device_context(T)
    ## Open("table", TC) ## Try(TC) ## Open("pa", TC) ## Try(All)
    ## get_max_part_size(All) ## Enough(All) ## Opt(Check(All)) ## Try(All) ## Try(All)
    ## write_label(TRUE, All) ## Free(TC)

set_part_type(R) ==
    LET P == R \cup {"pa"} IN
    Opt(Check(R) ## Check(R)) ## Try(R) ## Check(R) ## Open("pa", R)
    ## Open("ptype", P) ## Try(P \cup {"ptype"}) ## Free({"pa", "ptype"})

bd_part_set_part_name ==
    Started ## get_device_context(T) ## Try(CxtT) ## Try(CxtT) ## get_part_num(CxtT)
    ## Open("pa", CxtT) ## Try(CxtT \cup {"pa"}) ## Try(CxtT \cup {"pa"})
    ## Free({"pa"}) ## write_label(FALSE, CxtT) ## Free(CxtT)

bd_part_set_part_uuid ==
    Started ## get_device_context(T) ## Try(CxtT) ## Try(CxtT) ## get_part_num(CxtT)
    ## Open("pa", CxtT) ## Try(CxtT \cup {"pa"}) ## Try(CxtT \cup {"pa"})
    ## Free({"pa"}) ## write_label(FALSE, CxtT) ## Free(CxtT)

bd_part_set_part_type ==
    Started ## get_part_num(T) ## get_device_context(T) ## set_part_type(CxtT)
    ## write_label(FALSE, CxtT) ## Free(CxtT)

bd_part_set_part_id ==
    Started ## get_part_num(T) ## get_device_context(T) ## set_part_type(CxtT)
    ## write_label(FALSE, CxtT) ## Free(CxtT)

bd_part_set_part_bootable ==
    LET P == {"cxt", "pa"} IN
    get_part_num({}) ## get_device_context({}) ## Open("pa", Cxt) ## Enough(P)
    ## Try(P) ## write_label(FALSE, P) ## Free(P)

bd_part_set_part_attributes ==
    get_part_num({}) ## get_device_context({}) ## Open("pa", Cxt) ## Free({"pa"})
    ## Try(Cxt) ## write_label(FALSE, Cxt) ## Free(Cxt)

\* The functions by name.
PartFunctions ==
    [bd_part_create_table |-> bd_part_create_table,
     bd_part_get_part_spec |-> bd_part_get_part_spec,
     bd_part_get_disk_spec |-> bd_part_get_disk_spec,
     bd_part_create_part |-> bd_part_create_part,
     bd_part_delete_part |-> bd_part_delete_part,
     bd_part_resize_part |-> bd_part_resize_part,
     bd_part_set_part_name |-> bd_part_set_part_name,
     bd_part_set_part_uuid |-> bd_part_set_part_uuid,
     bd_part_set_part_type |-> bd_part_set_part_type,
     bd_part_set_part_id |-> bd_part_set_part_id,
     bd_part_set_part_bootable |-> bd_part_set_part_bootable,
     bd_part_set_part_attributes |-> bd_part_set_part_attributes,
     get_disk_parts |-> get_disk_parts]
=============================================================================
