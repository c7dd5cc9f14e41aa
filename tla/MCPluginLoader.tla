--------------------------- MODULE MCPluginLoader ---------------------------
(***************************************************************************)
(* Small instances of PluginLoader: a plugin with two candidate shared     *)
(* objects and one that is compiled out, and the directories PluginConfig  *)
(* turns into the lists of names.                                          *)
(***************************************************************************)
EXTENDS PluginLoader

CONSTANTS la, lb, zz

Conf == INSTANCE PluginConfig

MCUNDEF == 2
MCNotBuilt == {1}
MCSoNames == {la, lb}

\* la lacks the second function.
MCProvides ==
    [p \in 0 .. 1 |-> [s \in MCSoNames |->
        IF p = 1 THEN {} ELSE IF s = la THEN {1} ELSE 1 .. NFuncs]]

defaults == [p \in 0 .. 1 |-> IF p = 0 THEN la ELSE zz]

override ==
    [name |-> 1, cfg |-> TRUE, parses |-> TRUE,
     sonames |-> [p \in 0 .. 1 |-> IF p = 0 THEN <<lb, la>> ELSE <<>>]]

\* What do_load never gets to see of a plugin compiled out is left out.
Cleared(conf) == [p \in DOMAIN conf |-> IF p \in MCNotBuilt THEN <<>> ELSE conf[p]]

MCConfigs ==
    {Cleared(Conf!ConfiguredSonames(dir, defaults)) : dir \in {{}, {override}}}

Request(specs) == [all |-> FALSE, specs |-> specs]
Spec1(p, s) == [name |-> p, so |-> s]

All == [all |-> TRUE, specs |-> <<>>]
None == Request(<<>>)
\* The plugin twice, the second time with a name, and a plugin there is not.
FirstLb == Request(<<Spec1(0, NULL), Spec1(MCUNDEF, NULL), Spec1(0, lb)>>)
NotBuiltToo == Request(<<Spec1(0, NULL), Spec1(1, la)>>)

MCRequests == {All, None, FirstLb, NotBuiltToo}
=============================================================================
