----------------------------- MODULE CryptoPaths -----------------------------
(***************************************************************************)
(* The crypto plugin (src/src/plugins/crypto.c): LUKS, LUKS2 tokens and    *)
(* OPAL, dm-integrity, TrueCrypt/VeraCrypt, BitLocker, FileVault2, the     *)
(* kernel keyring and escrow packets, over libcryptsetup, libblkid and     *)
(* libvolume_key.  "cd" is the libcryptsetup context.                      *)
(***************************************************************************)
EXTENDS CallPaths

LOCAL T == {"task"}
LOCAL CT == {"cd", "task"}
LOCAL Started == Take("task")                                 \* bd_utils_report_started
LOCAL InitLoad == Open("cd", T) ## Try(CT)                    \* crypt_init, crypt_load
\* A key file is read with crypt_keyfile_device_read; R is what is released
\* with it when the use of the key fails.
LOCAL WithKey(buf, a, R) == Open(buf, R) ## Do(a, R \cup {buf}) ## Free({buf})
LOCAL FreeAll == Free(CT)

bd_crypto_keyslot_context_new_passphrase == Check({})
bd_crypto_keyslot_context_new_volume_key == Check({})

\* Two loops of at most five tries each for set_device and do_safeprobe.
bd_crypto_device_is_luks ==
    LET PF == {"probe", "fd"} IN
    Open("probe", {}) ## Open("fd", {"probe"}) ## Try(PF) ## Try(PF)
    ## Ask(PF) ## Try(PF) ## Ask(PF) ## Try(PF) ## Ask(PF) ## Free(PF)

bd_crypto_luks_status == Open("cd", {}) ## (Fail({"cd"}) \cup Free({"cd"}))

\* NULL when the caller gave no parameters; R is released by the caller when
\* the defaults cannot be had.
get_pbkdf_params(R) == Nothing \cup Open("pbkdf", R)

\* _crypto_luks_format up to the header: version, context, cipher
\* specification ("aes-xts-plain64"), entropy, and the version's own arguments.
luks_format_prepare ==
    LET CS == {"cd", "task", "cipher_specs"}
        RS == CS \cup {"dev_random_fd"}
        Entropy == Open("dev_random_fd", CS) ## Try(RS) ## Opt(Try(RS))
                   ## Free({"dev_random_fd"})
    IN
    Started ## Check(T) ## Open("cd", T)
    ## Take("cipher_specs") ## Check(CS)
    ## Opt(Entropy)
    ## Opt(Check(CS))
    ## (Check(CS) ## Check(CS) ## get_pbkdf_params(CS) \cup get_pbkdf_params(CS))

\* _crypto_luks_format from crypt_format on.  A context that is neither a
\* passphrase nor a key file is refused when the header is already there.
luks_format_write ==
    Free({"pbkdf", "cipher_specs"}) ## Do("header", CT)
    ## (Do("keyslot", CT) \cup WithKey("key_buffer", "keyslot", CT) \cup Refuse(CT))
    ## FreeAll

_crypto_luks_format == luks_format_prepare ## luks_format_write
bd_crypto_luks_format == _crypto_luks_format

_is_dm_name_valid(R) == Check(R) ## Check(R)

bd_crypto_luks_open_flags ==
    _is_dm_name_valid({}) ## Started ## InitLoad
    ## (Do("active", CT) \cup WithKey("key_buffer", "active", CT) \cup Refuse(CT))
    ## FreeAll
bd_crypto_bitlk_open_flags ==
    _is_dm_name_valid({}) ## Started ## InitLoad
    ## (Do("active", CT) \cup WithKey("key_buffer", "active", CT) \cup Refuse(CT))
    ## FreeAll
bd_crypto_fvault2_open_flags ==
    _is_dm_name_valid({}) ## Started ## InitLoad
    ## (Do("active", CT) \cup WithKey("key_buffer", "active", CT) \cup Refuse(CT))
    ## FreeAll
bd_crypto_tc_open_flags ==
    _is_dm_name_valid({}) ## Started ## Check(T) ## Check(T) ## InitLoad
    ## Do("active", CT) ## FreeAll

_crypto_close == Started ## Open("cd", T) ## Do("inactive", CT) ## FreeAll

\* A context that is neither a passphrase nor a key file is refused.
LOCAL KeyOrRefuse(buf, R) == Nothing \cup Open(buf, R) \cup Refuse(R)

\* Mutant: the old key is kept when the new one cannot be read.
bd_crypto_luks_add_key_kept ==
    LET K == CT \cup {"key_buf"}  N == K \cup {"nkey_buf"} IN
    Started ## InitLoad ## KeyOrRefuse("key_buf", CT) ## KeyOrRefuse("nkey_buf", CT)
    ## Do("keyslot", N) ## Free(N)

bd_crypto_luks_add_key ==
    LET K == CT \cup {"key_buf"}  N == K \cup {"nkey_buf"} IN
    Started ## InitLoad ## KeyOrRefuse("key_buf", CT) ## KeyOrRefuse("nkey_buf", K)
    ## Do("keyslot", N) ## Free(N)

\* Mutant: the new key is added and the old one removed after it.
bd_crypto_luks_change_key_twice ==
    LET K == CT \cup {"key_buf"}  N == K \cup {"nkey_buf"} IN
    Started ## InitLoad ## KeyOrRefuse("key_buf", CT) ## KeyOrRefuse("nkey_buf", K)
    ## Do("keyslot", N) ## Do("slot destroyed", N) ## Free(N)

bd_crypto_luks_change_key ==
    LET K == CT \cup {"key_buf"}  N == K \cup {"nkey_buf"} IN
    Started ## InitLoad ## KeyOrRefuse("key_buf", CT) ## KeyOrRefuse("nkey_buf", K)
    ## Do("keyslot", N) ## Free(N)

\* Mutant: the key is released again when it opens no slot.
bd_crypto_luks_remove_key_again ==
    Started ## InitLoad
    ## (Try(CT) \cup Open("key_buf", CT) ## Free({"key_buf"}) ## Try(CT \cup {"key_buf"}) \cup Refuse(CT))
    ## Do("slot destroyed", CT) ## FreeAll

\* The slot is found by activating with the key and no name.
bd_crypto_luks_remove_key ==
    Started ## InitLoad
    ## (Try(CT) \cup Open("key_buf", CT) ## Free({"key_buf"}) ## Try(CT) \cup Refuse(CT))
    ## Do("slot destroyed", CT) ## FreeAll

bd_crypto_luks_resize ==
    Started ## Open("cd", T) ## Try(CT)
    ## Opt(Try(CT) \cup Open("key_buffer", CT) ## Try(CT \cup {"key_buffer"}) ## Free({"key_buffer"})
           \cup Refuse(CT))
    ## Do("size", CT) ## FreeAll

bd_crypto_luks_suspend == Started ## Open("cd", T) ## Do("suspended", CT) ## FreeAll

bd_crypto_luks_resume ==
    Started ## InitLoad
    ## (Do("resumed", CT) \cup WithKey("key_buffer", "resumed", CT) \cup Refuse(CT))
    ## FreeAll

bd_crypto_luks_kill_slot == Started ## InitLoad ## Do("slot destroyed", CT) ## FreeAll
bd_crypto_luks_header_backup == Started ## InitLoad ## Do("backup file", CT) ## FreeAll
bd_crypto_luks_header_restore == Started ## Open("cd", T) ## Do("header", CT) ## FreeAll

bd_crypto_luks_check_label == Check({}) ## Check({})

\* No progress is reported from here to bd_crypto_luks_set_persistent_flags.
LOCAL C == {"cd"}
bd_crypto_luks_set_label ==
    Open("cd", {}) ## Try(C) ## Try(C) ## Do("label", C) ## Free(C)
bd_crypto_luks_set_uuid == Open("cd", {}) ## Try(C) ## Do("uuid", C) ## Free(C)
\* Mutant: the version asked for is looked at after the conversion.
bd_crypto_luks_convert_late ==
    Open("cd", {}) ## Try(C) ## Try(C) ## Do("version", C) ## Check(C) ## Free(C)

bd_crypto_luks_convert ==
    Open("cd", {}) ## Try(C) ## Try(C) ## Check(C) ## Do("version", C) ## Free(C)
bd_crypto_luks_set_persistent_flags ==
    Open("cd", {}) ## Try(C) ## Try(C) ## Check(C) ## Do("flags", C) ## Free(C)

get_subsystem_label(R) ==
    LET PF == R \cup {"probe", "fd"} IN
    Open("probe", R) ## Open("fd", R \cup {"probe"})
    ## Try(PF) ## Try(PF) ## Try(PF) ## Try(PF) ## Free({"probe", "fd"})

\* A device that cannot be loaded is taken for the name of a map.  The context
\* has been freed by then; R is released when there is no such map either.
LOCAL DeviceOrName(R) == Take("cd") \cup Opt(Take("cd") ## Free(C)) ## Open("cd", R)

\* cd still points to the freed context when crypt_init_by_name fails.
bd_crypto_luks_info ==
    DeviceOrName(C) ## Take("info")
    ## (Fail({"info", "cd"}) \cup Nothing \cup get_subsystem_label({"info", "cd"}))
    ## Free({"cd", "info"})
bd_crypto_luks_token_info == DeviceOrName(C) ## Ask(C) ## Free(C)
bd_crypto_integrity_info == DeviceOrName(C) ## Try(C) ## Free(C)
\* cd is set to NULL with the first crypt_free.
bd_crypto_bitlk_info == DeviceOrName({}) ## Free(C)

\* The device is wiped through a temporary map, whose removal may fail.
bd_crypto_integrity_format ==
    LET Wipe == Open("tmp_dev", CT)
                ## (Do("wiped", CT) \cup Do("wiped", CT \cup {"tmp_dev"}))
                ## Opt(Free({"tmp_dev"}))
    IN
    Started ## Check(T) ## Open("cd", T) ## Do("header", CT) ## Opt(Wipe) ## FreeAll

bd_crypto_integrity_open ==
    Started ## Check(T) ## Check(T) ## _is_dm_name_valid(T) ## InitLoad
    ## Do("active", CT) ## FreeAll

bd_crypto_keyring_add_key == Do("key", {})

bd_crypto_device_seems_encrypted ==
    Started ## Open("fd", T) ## Try({"fd", "task"}) ## Free({"fd", "task"})

\* One packet, encrypted for the certificate; R is what the caller releases.
write_escrow_data_file(file, R) ==
    LET PO == R \cup {"packet_data", "out_file"} IN
    Open("packet_data", R) ## Open("out_file", R \cup {"packet_data"})
    ## Try(PO) ## Try(PO) ## Free({"packet_data"}) ## Do(file, R \cup {"out_file"})
    ## Free({"out_file"})

\* The label of a volume without a UUID is not used, and not freed.
bd_crypto_escrow_device ==
    LET VU == {"volume", "ui", "task"}
        All == VU \cup {"cert_data_copy", "cert", "volume_ident"}
    IN
    Started ## Try(T) ## Open("volume", T) ## Take("ui") ## Try(VU)
    ## Take("cert_data_copy") ## Open("cert", VU \cup {"cert_data_copy"})
    ## Opt(Take("label")) ## Take("volume_ident")
    ## write_escrow_data_file("packet", All)
    ## Opt(Do("passphrase", All) ## write_escrow_data_file("backup packet", All))
    ## Free(All)

bd_crypto_opal_is_supported == Open("fd", {}) ## Try({"fd"}) ## Free({"fd"}) ## Ask({})

bd_crypto_opal_wipe_device ==
    Started ## InitLoad ## Try(CT) ## Opt(Refuse(CT)) ## Do("wiped", CT) ## FreeAll

\* The support is asked for before anything else.
bd_crypto_opal_format == Check({}) ## Check({}) ## Try({}) ## _crypto_luks_format

\* opal_is_supported may answer FALSE without an error; the message of the
\* error is quoted all the same.
bd_crypto_opal_reset_device ==
    Started ## Quote(T) ## Open("cd", T)
    ## (Do("reset", CT)
        \cup Open("key_buf", CT) ## Do("reset", CT \cup {"key_buf"}) ## Free({"key_buf"})
        \cup Refuse(CT))
    ## FreeAll

\* The functions by name.
CryptoFunctions ==
    [bd_crypto_keyslot_context_new_passphrase |-> bd_crypto_keyslot_context_new_passphrase,
     bd_crypto_keyslot_context_new_volume_key |-> bd_crypto_keyslot_context_new_volume_key,
     bd_crypto_device_is_luks |-> bd_crypto_device_is_luks,
     bd_crypto_luks_status |-> bd_crypto_luks_status,
     bd_crypto_luks_format |-> bd_crypto_luks_format,
     bd_crypto_luks_open_flags |-> bd_crypto_luks_open_flags,
     bd_crypto_bitlk_open_flags |-> bd_crypto_bitlk_open_flags,
     bd_crypto_fvault2_open_flags |-> bd_crypto_fvault2_open_flags,
     bd_crypto_tc_open_flags |-> bd_crypto_tc_open_flags,
     bd_crypto_luks_add_key |-> bd_crypto_luks_add_key,
     bd_crypto_luks_change_key |-> bd_crypto_luks_change_key,
     bd_crypto_luks_remove_key |-> bd_crypto_luks_remove_key,
     bd_crypto_luks_resize |-> bd_crypto_luks_resize,
     bd_crypto_luks_suspend |-> bd_crypto_luks_suspend,
     bd_crypto_luks_resume |-> bd_crypto_luks_resume,
     bd_crypto_luks_kill_slot |-> bd_crypto_luks_kill_slot,
     bd_crypto_luks_header_backup |-> bd_crypto_luks_header_backup,
     bd_crypto_luks_header_restore |-> bd_crypto_luks_header_restore,
     bd_crypto_luks_check_label |-> bd_crypto_luks_check_label,
     bd_crypto_luks_set_label |-> bd_crypto_luks_set_label,
     bd_crypto_luks_set_uuid |-> bd_crypto_luks_set_uuid,
     bd_crypto_luks_convert |-> bd_crypto_luks_convert,
     bd_crypto_luks_set_persistent_flags |-> bd_crypto_luks_set_persistent_flags,
     bd_crypto_luks_info |-> bd_crypto_luks_info,
     bd_crypto_luks_token_info |-> bd_crypto_luks_token_info,
     bd_crypto_integrity_info |-> bd_crypto_integrity_info,
     bd_crypto_bitlk_info |-> bd_crypto_bitlk_info,
     bd_crypto_integrity_format |-> bd_crypto_integrity_format,
     bd_crypto_integrity_open |-> bd_crypto_integrity_open,
     bd_crypto_keyring_add_key |-> bd_crypto_keyring_add_key,
     bd_crypto_device_seems_encrypted |-> bd_crypto_device_seems_encrypted,
     bd_crypto_escrow_device |-> bd_crypto_escrow_device,
     bd_crypto_opal_is_supported |-> bd_crypto_opal_is_supported,
     bd_crypto_opal_wipe_device |-> bd_crypto_opal_wipe_device,
     bd_crypto_opal_format |-> bd_crypto_opal_format,
     bd_crypto_opal_reset_device |-> bd_crypto_opal_reset_device,
     _crypto_close |-> _crypto_close]
=============================================================================
