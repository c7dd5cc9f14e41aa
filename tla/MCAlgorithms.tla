---------------------------- MODULE MCAlgorithms ----------------------------
(***************************************************************************)
(* The pure algorithms of the library, each asked about every input of a   *)
(* bounded set and compared with a description of the answer that shares   *)
(* nothing with the way the code computes it.                              *)
(***************************************************************************)
EXTENDS PluginConfig, VersionCmp, Listings, LvmSizes, FiniteSets

CONSTANTS
    NFiles,       \* files in the configuration directory
    Numerals,     \* components of versions
    MaxFields,    \* components of a version
    MaxLines      \* lines of a listing

ASSUME AsksAssumption == MaxFields \in Nat

VARIABLE ask
avars == ask

Nothing == [about |-> "nothing"]

-----------------------------------------------------------------------------
(* PluginConfig.                                                           *)

Plugins == {"lvm", "fs"}
default_plugin_so == [p \in Plugins |-> <<0, 0>>]

\* A shared object is named by the entry that lists it and its place there.
Lists(n, k) == [i \in 1 .. k |-> <<n, i>>]

Entries(n) ==
    {[name |-> n, cfg |-> c, parses |-> ok,
      sonames |-> [p \in Plugins |-> Lists(n, IF p = "lvm" THEN k ELSE 2 - k)]] :
        c \in BOOLEAN, ok \in BOOLEAN, k \in 0 .. 2}

Directories ==
    {UNION {choice[n] : n \in 1 .. NFiles} :
        choice \in [1 .. NFiles -> {{}} \cup UNION {{{e} : e \in Entries(n)} : n \in 1 .. NFiles}]}

\* At most one entry of a name.
Possible(dir) == \A e, f \in dir : e.name = f.name => e = f

AskConfig ==
    /\ ask = Nothing
    /\ \E dir \in Directories :
        /\ Possible(dir)
        /\ ask' = [about |-> "config", dir |-> dir]

Usable == {f \in ask.dir : f.cfg /\ f.parses}

Listed(p) ==
    {<<f.name, i>> : f \in {g \in Usable : g.sonames[p] # <<>>}, i \in 1 .. 2}
        \cap UNION {Range(f.sonames[p]) : f \in Usable}

\* Every name that a readable *.cfg file lists for a plugin is tried, once, the
\* names of a file with a later name before those of an earlier one and a
\* file's own in their order; the built-in default is tried exactly when no
\* file lists any (load_plugins, load_config).
CandidatesInOrder ==
    ask.about = "config" =>
        LET answer == ConfiguredSonames(ask.dir, default_plugin_so) IN
        \A p \in Plugins :
            /\ Range(answer[p]) =
                   IF Listed(p) = {} THEN {default_plugin_so[p]} ELSE Listed(p)
            /\ \A i, j \in DOMAIN answer[p] :
                 i < j => LET a == answer[p][i]  b == answer[p][j]
                          IN  a[1] > b[1] \/ (a[1] = b[1] /\ a[2] < b[2])

-----------------------------------------------------------------------------
(* VersionCmp.                                                             *)

\* As tools print them, with leading zeros among them: 2.03.09, 1.02.93.
Printed == {<<0>>, <<2>>, <<9>>, <<1, 0>>, <<0, 2>>, <<0, 9>>, <<0, 1, 0>>}
Revisions == {<<>>, <<0>>, <<2>>}

Versions ==
    [fields : UNION {[1 .. n -> Numerals] : n \in 1 .. MaxFields}, rev : Revisions]

AskOrder ==
    /\ ask = Nothing
    /\ \E v1, v2 \in Versions \cup {NoVersion} :
        ask' = [about |-> "order", v1 |-> v1, v2 |-> v2]

Nat10(numeral) == FoldLeft(LAMBDA n, d : 10 * n + d, 0, numeral)

\* a comes before b: at the first place where they differ a is the smaller, or
\* a has ended.
Before(a, b) ==
    \E k \in 1 .. Len(b) :
        /\ \A j \in 1 .. k - 1 : j <= Len(a) /\ Nat10(a[j]) = Nat10(b[j])
        /\ k > Len(a) \/ Nat10(a[k]) < Nat10(b[k])

Reference(v1, v2) ==
    IF v1 = NoVersion \/ v2 = NoVersion THEN -2
    ELSE IF Before(Fields(v1), Fields(v2)) THEN -1
    ELSE IF Before(Fields(v2), Fields(v1)) THEN 1
    ELSE 0

\* Octal or not, the numeral stands for the same number: it has no leading zero,
\* or but one digit below 8 after its zeros.
AsWritten(numeral) ==
    \/ Len(numeral) = 1 \/ numeral[1] # 0
    \/ numeral[Len(numeral)] < 8 /\ \A i \in 1 .. Len(numeral) - 1 : numeral[i] = 0
InDecimal(v) == v # NoVersion => \A i \in 1 .. Len(Fields(v)) : AsWritten(Fields(v)[i])

\* bd_utils_version_cmp orders versions as tuples of natural numbers, a prefix
\* before its extensions, and refuses what is no version.  A numeral such as 09
\* or 010, which is read as octal, may make its version look older and never
\* newer than it is: no tool passes for a required version it does not have
\* (the versions the library requires have no such numeral).
ComparesAsNaturals ==
    ask.about = "order" /\ InDecimal(ask.v2) =>
        /\ version_cmp(ask.v1, ask.v2) <= Reference(ask.v1, ask.v2)
        /\ InDecimal(ask.v1) => version_cmp(ask.v1, ask.v2) = Reference(ask.v1, ask.v2)

-----------------------------------------------------------------------------
(* Listings.                                                               *)

\* Subvolumes as btrfs prints them, by their identifiers; each is in the main
\* volume or in a subvolume that was there before it.
Id(i) == 255 + i
Subvolumes(n) ==
    {s \in [1 .. n -> [id : {Id(i) : i \in 1 .. n},
                       parent_id : {BD_BTRFS_MAIN_VOLUME_ID} \cup {Id(i) : i \in 1 .. n}]] :
        \A i \in 1 .. n : s[i].id = Id(i) /\ s[i].parent_id < Id(i)}

AskSubvolumes ==
    /\ ask = Nothing
    /\ \E n \in 1 .. MaxLines : \E s \in Subvolumes(n) :
        ask' = [about |-> "subvolumes", list |-> s]

\* The list returned has no subvolume before the one that contains it.
ParentsFirst ==
    ask.about = "subvolumes" =>
        LET answer == bd_btrfs_list_subvolumes(ask.list) IN
        \A i, j \in DOMAIN answer : answer[j].parent_id = answer[i].id => i < j

\* The pool and, below it, vdevs further in and lines with fewer fields in any
\* order: with four of them several entries of the stack are popped at once.
StatusLines(n) ==
    {l \in [1 .. n -> [indent : 0 .. 3, fields : BOOLEAN]] :
        l[1] = [indent |-> 0, fields |-> TRUE]}

AskVdevs ==
    /\ ask = Nothing
    /\ \E n \in 1 .. MaxLines + 1 : \E l \in StatusLines(n) :
        ask' = [about |-> "vdevs", lines |-> l]

\* A vdev's parent is the nearest line above it that is a vdev and less far in;
\* only what is as far in as the pool has none and is no vdev itself.
IsVdev(i) == ask.lines[i].fields /\ ask.lines[i].indent > 0
VdevTree ==
    ask.about = "vdevs" =>
        LET answer == bd_zfs_pool_get_vdevs(ask.lines) IN
        \A i \in DOMAIN answer :
            IF ~IsVdev(i) THEN answer[i] = NoVdev
            ELSE LET above == {j \in 1 .. i - 1 : /\ IsVdev(j)
                                                  /\ ask.lines[j].indent < ask.lines[i].indent}
                 IN  answer[i] = IF above = {} THEN 0 ELSE Max(above)

\* Rows of two VGs with two LVs each, some with no segment to show.
Rows(n) ==
    {r \in [1 .. n -> [vg : 1 .. 2, lv : 1 .. 2, segs : {<< >>} \cup {<<i>> : i \in 1 .. n}]] :
        \A i \in 1 .. n : r[i].segs \in {<< >>, <<i>>}}

AskLvs ==
    /\ ask = Nothing
    /\ \E n \in 1 .. MaxLines - 1 : \E r \in Rows(n) : ask' = [about |-> "lvs", rows |-> r]

Named(rows, lv) == SelectSeq(rows, LAMBDA row : row.lv = lv)

\* The LVs of one VG are each listed once, with all of their segments in the
\* order they were printed.
SegmentsMerged ==
    ask.about = "lvs" /\ (\A i \in DOMAIN ask.rows : ask.rows[i].vg = ask.rows[1].vg) =>
        LET answer == bd_lvm_lvs_tree(ask.rows) IN
        /\ {row.lv : row \in Range(answer)} = {row.lv : row \in Range(ask.rows)}
        /\ {row.lv : row \in Range(bd_lvm_lvs(ask.rows))} = {row.lv : row \in Range(ask.rows)}
        /\ \A i \in DOMAIN answer :
             /\ Len(Named(answer, answer[i].lv)) = 1
             /\ answer[i].segs = FlattenSeq([k \in DOMAIN Named(ask.rows, answer[i].lv) |->
                                                Named(ask.rows, answer[i].lv)[k].segs])

\* Without a VG, bd_lvm_lvs returns the LVs found in the system: every LV that
\* is printed is listed.
EveryLvListed ==
    ask.about = "lvs" =>
        {<<row.vg, row.lv>> : row \in Range(ask.rows)}
            \subseteq {<<row.vg, row.lv>> : row \in Range(bd_lvm_lvs(ask.rows))}

\* The digits of a UUID, all different.
AskUuid ==
    /\ ask = Nothing
    /\ LET digits(from, to) == [i \in 1 .. to - from + 1 |-> from + i - 1]
           uuid == digits(1, 8) \o <<Colon>> \o digits(9, 16) \o <<Colon>>
                   \o digits(17, 24) \o <<Colon>> \o digits(25, 32)
       IN  ask' = [about |-> "uuid", uuid |-> uuid]

\* The canonical form has the 32 digits in their order in groups of 8, 4, 4, 4
\* and 12, and bd_md_get_md_uuid is the reverse of bd_md_canonicalize_uuid.
UuidRoundTrip ==
    ask.about = "uuid" =>
        LET answer == bd_md_canonicalize_uuid(ask.uuid) IN
        /\ {i \in DOMAIN answer : answer[i] = Dash} = {9, 14, 19, 24}
        /\ SelectSeq(answer, LAMBDA c : c # Dash) = SelectSeq(ask.uuid, LAMBDA c : c # Colon)
        /\ bd_md_get_md_uuid(answer) = ask.uuid

\* What is parsed and put together again says what was printed: the tree of
\* vdevs the indentation draws (bd_zfs_pool_get_vdevs), every LV once with all
\* its segments (bd_lvm_lvs, bd_lvm_lvs_tree), the same UUID there and back.
ListingsFaithful == VdevTree /\ SegmentsMerged /\ UuidRoundTrip

-----------------------------------------------------------------------------
(* LvmSizes.                                                               *)

AskRound ==
    /\ ask = Nothing
    /\ \E size \in 0 .. MaxSize, pe_size \in 0 .. DEFAULT_PE_SIZE + 1, roundup \in BOOLEAN :
        ask' = [about |-> "round", size |-> size, pe_size |-> pe_size, roundup |-> roundup]

\* The result is the nearest multiple of the extent size in the direction asked
\* for, or below when the one above does not fit in the type; an LV takes up its
\* size rounded up.
RoundedToExtents ==
    ask.about = "round" =>
        LET multiples == {m \in 0 .. MaxSize : m % RESOLVE_PE_SIZE(ask.pe_size) = 0}
            up == {m \in multiples : m >= ask.size}
            down == {m \in multiples : m <= ask.size}
            rounded(roundup) == IF roundup /\ up # {} THEN Min(up) ELSE Max(down)
        IN  /\ bd_lvm_round_size_to_pe(ask.size, ask.pe_size, ask.roundup) = rounded(ask.roundup)
            /\ bd_lvm_get_lv_physical_size(ask.size, ask.pe_size) = rounded(TRUE)

-----------------------------------------------------------------------------
AskInit == ask = Nothing

\* On to the next question.
Again == ask # Nothing /\ ask' = Nothing

AskNext ==
    \/ AskConfig \/ AskOrder \/ AskSubvolumes \/ AskVdevs \/ AskLvs \/ AskUuid \/ AskRound
    \/ Again
=============================================================================
