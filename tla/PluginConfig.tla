---------------------------- MODULE PluginConfig ----------------------------
(***************************************************************************)
(* How the loader finds the shared objects to try for a plugin: the *.cfg  *)
(* files of the configuration directory, in the order of their names, each *)
(* one in front of what the earlier ones listed, and the built-in default  *)
(* for a plugin no file mentions (src/src/lib/blockdev.c.in).              *)
(***************************************************************************)
EXTENDS Naturals, SequencesExt

\* A directory entry: name is its rank in strcmp () order, cfg whether it ends
\* in ".cfg", parses whether GKeyFile can read it, and sonames its lists (empty
\* for a plugin without the group or the key).  A directory is a set of entries
\* with distinct names.

ByName(a, b) == a.name <= b.name

get_config_files(dir) == SetToSortSeq({f \in dir : f.cfg}, ByName)

\* Mutant: the names are appended.
process_config_file_append(plugins_sonames, file) ==
    [p \in DOMAIN plugins_sonames |-> plugins_sonames[p] \o file.sonames[p]]

\* The names are prepended in reversed order, which keeps their order.
process_config_file(plugins_sonames, file) ==
    [p \in DOMAIN plugins_sonames |-> file.sonames[p] \o plugins_sonames[p]]

\* A file that cannot be parsed is skipped.
load_config(files, plugins) ==
    FoldLeft(LAMBDA acc, file :
                 IF file.parses THEN process_config_file(acc, file) ELSE acc,
             [p \in plugins |-> <<>>], files)

\* The first part of load_plugins.  A directory that cannot be opened is the
\* same as an empty one.
ConfiguredSonames(dir, default_plugin_so) ==
    LET conf == load_config(get_config_files(dir), DOMAIN default_plugin_so)
    IN  [p \in DOMAIN conf |->
            IF conf[p] = <<>> THEN <<default_plugin_so[p]>> ELSE conf[p]]

=============================================================================
