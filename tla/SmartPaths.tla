----------------------------- MODULE SmartPaths -----------------------------
(***************************************************************************)
(* The smart plugin in its two builds: with smartctl                       *)
(* (src/src/plugins/smart/smartmontools.c), whose functions keep their     *)
(* names here, and with libatasmart (libatasmart.c, drivedb-parser.c),     *)
(* whose functions of the same names are called libatasmart_...            *)
(* Values are copied field by field and left out, except where one that is *)
(* missing ends the function.                                              *)
(***************************************************************************)
EXTENDS CallPaths

LOCAL P == {"parser"}
LOCAL O == {"stdout", "stderr"}
\* A member that is no array, or has no such element.
parse_int_array(R) == Try(R)
\* Gives back nothing but messages.
parse_error_messages == Take("messages") \cup Nothing
\* Output that is there but empty of JSON makes the parser fail without an
\* error, whose message is then read.
parse_smartctl_error(R) ==
    LET F == R \cup {"reader"} IN
    Try(R) ## Try(R) ## Try(R) ## Quote(R) ## Take("reader") ## parse_int_array(F) ## Try(F)
    ## ((parse_error_messages ## Fail(F \cup {"messages"})) \cup Free({"reader"}))
\* An attribute has to have all of its members.
parse_ata_smart_attributes(R) ==
    LET A == R \cup {"ptr_array", "attr"} IN
    Take("ptr_array")
    ## Loop(Try(R \cup {"ptr_array"}) ## Take("attr") ## Try(A) ## Free({"attr"}))
    ## Free({"ptr_array"})
\* The sections before the attributes, one of which must be there.
ata_smart_data(R) == Take("data") ## Take("reader") ## Try(R)
\* A table that is no array is an error the reader knows nothing of.
ata_smart_attributes(R) ==
    Try(R) ## Try(R) ## Quote(R) ## parse_ata_smart_attributes(R) ## Free({"reader"})
parse_ata_smart(R) ==
    LET F == R \cup {"data", "reader"} IN ata_smart_data(F) ## ata_smart_attributes(F)
parse_scsi_smart == Take("data") ## Take("reader") ## Free({"reader"})

LOCAL Smartctl == Open("stdout", {}) ## Opt(Take("stderr")) ## Take("parser")
LOCAL Checked == parse_smartctl_error(P \cup O) ## Free(O)
bd_smart_ata_get_info == Smartctl ## Checked ## parse_ata_smart(P) ## Free(P) ## Free({"data"})
bd_smart_ata_get_info_from_data ==
    Take("stdout") ## Take("parser") ## Checked ## parse_ata_smart(P) ## Free(P) ## Free({"data"})
bd_smart_scsi_get_info == Smartctl ## Checked ## parse_scsi_smart ## Free(P) ## Free({"data"})
\* The program has run when its output turns out to be no answer.
bd_smart_set_enabled == Smartctl ## Just("enabled") ## Checked ## Free(P)
bd_smart_device_self_test == Check({}) ## Smartctl ## Just("self test") ## Checked ## Free(P)

-----------------------------------------------------------------------------
\* What is known of the model of a drive; expressions that do not compile are
\* passed over.
drivedb_lookup_drive ==
    Take("attrs") ## Loop(Take("regex") ## Free({"regex"}))
    ## Opt(Take("drivedb_attrs")) ## Free({"attrs"})
free_drivedb_attrs == Free({"drivedb_attrs"})
parse_sk_data(R) ==
    Try(R) ## Try(R) ## Try(R) ## Take("data") ## Take("ptr_array") ## Opt(drivedb_lookup_drive)
    ## Try(R \cup {"ptr_array", "data"}) ## free_drivedb_attrs ## Free({"ptr_array"})
LOCAL D == {"d"}
libatasmart_ata_get_info == Open("d", {}) ## parse_sk_data(D) ## Free(D) ## Free({"data"})
libatasmart_ata_get_info_from_data ==
    Open("d", {}) ## Try({}) ## parse_sk_data(D) ## Free(D) ## Free({"data"})
libatasmart_device_self_test == Check({}) ## Open("d", {}) ## Do("self test", D) ## Free(D)

\* The functions by name.
SmartFunctions ==
    [bd_smart_ata_get_info |-> bd_smart_ata_get_info,
     bd_smart_ata_get_info_from_data |-> bd_smart_ata_get_info_from_data,
     bd_smart_scsi_get_info |-> bd_smart_scsi_get_info,
     bd_smart_set_enabled |-> bd_smart_set_enabled,
     bd_smart_device_self_test |-> bd_smart_device_self_test,
     libatasmart_ata_get_info |-> libatasmart_ata_get_info,
     libatasmart_ata_get_info_from_data |-> libatasmart_ata_get_info_from_data,
     libatasmart_device_self_test |-> libatasmart_device_self_test]
=============================================================================
