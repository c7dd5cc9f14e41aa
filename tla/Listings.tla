------------------------------ MODULE Listings ------------------------------
(***************************************************************************)
(* How lists that programs print become the lists the plugins return: the  *)
(* subvolumes of btrfs (src/src/plugins/btrfs.c), the tree of vdevs of     *)
(* "zpool status" (src/src/plugins/zfs.c), the LVs of "lvs"                *)
(* (src/src/plugins/lvm/lvm.c), and the two notations of an MD UUID        *)
(* (src/src/plugins/mdraid.c).                                             *)
(***************************************************************************)
EXTENDS Integers, Sequences, SequencesExt

-----------------------------------------------------------------------------
(* bd_btrfs_list_subvolumes, on the subvolumes in the order they are       *)
(* printed: records with an id and a parent_id.                            *)

BD_BTRFS_MAIN_VOLUME_ID == 5

\* The last element takes the place of the one that is removed.
g_ptr_array_remove_fast(array, item) ==
    LET i == CHOOSE j \in DOMAIN array : array[j] = item
        last == Len(array)
    IN  SubSeq([array EXCEPT ![i] = array[last]], 1, last - 1)

\* An item moves towards the beginning until it meets its parent, a sibling or
\* a top-level subvolume.
MoveForward(sorted, item) ==
    LET stops == {0} \cup {y \in DOMAIN sorted :
                    \/ sorted[y].id = item.parent_id
                    \/ sorted[y].parent_id = item.parent_id
                    \/ sorted[y].parent_id = BD_BTRFS_MAIN_VOLUME_ID}
        place == CHOOSE y \in stops : \A z \in stops : z <= y
    IN  InsertAt(sorted, place + 1, item)

bd_btrfs_list_subvolumes(subvol_infos) ==
    LET top == SelectSeq(subvol_infos, LAMBDA s : s.parent_id = BD_BTRFS_MAIN_VOLUME_ID)
        rest == FoldLeft(g_ptr_array_remove_fast, subvol_infos, top)
    IN  FoldLeft(MoveForward, top, rest)

-----------------------------------------------------------------------------
(* bd_zfs_pool_get_vdevs, on the lines between the header and "errors:":   *)
(* records with an indent and whether the line has the five fields of a    *)
(* vdev.  Returns the parent of every line: a line, 0 at the top, or -1    *)
(* for a line that is no vdev.  A tree deeper than 64 is an error there.   *)

NoVdev == -1

\* Mutant: only the uppermost entry is popped.
VdevLine_once(lines, st, i) ==
    LET line == lines[i]
        root == IF st.root_indent < 0 THEN line.indent ELSE st.root_indent
        deep == st.stack # << >> /\ lines[Last(st.stack)].indent >= line.indent
        kept == IF deep THEN Front(st.stack) ELSE st.stack
    IN  IF ~line.fields
        THEN [st EXCEPT !.parent = Append(@, NoVdev)]
        ELSE IF line.indent = root
        THEN [st EXCEPT !.root_indent = root, !.parent = Append(@, NoVdev)]
        ELSE [root_indent |-> root,
              stack |-> Append(kept, i),
              parent |-> Append(st.parent, IF kept = << >> THEN 0 ELSE Last(kept))]

\* The stack holds the lines that may still get children; entries are popped
\* until the uppermost one is less far in than the new line.
VdevLine(lines, st, i) ==
    LET line == lines[i]
        root == IF st.root_indent < 0 THEN line.indent ELSE st.root_indent
        below == {k \in DOMAIN st.stack : lines[st.stack[k]].indent < line.indent}
        kept == SubSeq(st.stack, 1, Max(below \cup {0}))
    IN  IF ~line.fields
        THEN [st EXCEPT !.parent = Append(@, NoVdev)]
        ELSE IF line.indent = root
        THEN [st EXCEPT !.root_indent = root, !.parent = Append(@, NoVdev)]
        ELSE [root_indent |-> root,
              stack |-> Append(kept, i),
              parent |-> Append(st.parent, IF kept = << >> THEN 0 ELSE Last(kept))]

bd_zfs_pool_get_vdevs(lines) ==
    FoldLeft(LAMBDA st, i : VdevLine(lines, st, i),
             [root_indent |-> -1, stack |-> << >>, parent |-> << >>],
             [i \in DOMAIN lines |-> i]).parent

-----------------------------------------------------------------------------
(* bd_lvm_lvs and bd_lvm_lvs_tree, on the rows "lvs -a" prints: one for    *)
(* every segment of an LV, records with the VG, the LV and its segments.   *)

SameName(lvs, row) == {i \in DOMAIN lvs : lvs[i].lv = row.lv}

\* A row whose LV is listed already is another segment of it, and is dropped.
bd_lvm_lvs(rows) ==
    FoldLeft(LAMBDA lvs, row : IF SameName(lvs, row) # {} THEN lvs ELSE Append(lvs, row),
             << >>, rows)

\* Mutant: the segment of the new row replaces those that were there.
merge_lv_data_last(data, more_data) == [data EXCEPT !.segs = more_data.segs]

\* "more_data->segs has zero or one entry": it goes to the end.
merge_lv_data(data, more_data) == [data EXCEPT !.segs = @ \o more_data.segs]

\* Here its segment is added to the LV's.
bd_lvm_lvs_tree(rows) ==
    FoldLeft(LAMBDA lvs, row :
                IF SameName(lvs, row) = {} THEN Append(lvs, row)
                ELSE LET i == CHOOSE k \in SameName(lvs, row) : TRUE
                     IN  [lvs EXCEPT ![i] = merge_lv_data(@, row)],
             << >>, rows)

-----------------------------------------------------------------------------
(* bd_md_canonicalize_uuid and bd_md_get_md_uuid: the pieces that are      *)
(* copied, by their first place and length in the source.  The digits are  *)
(* numbers above 0, the two separators are not.                            *)

Dash == 0
Colon == -1

Pieces(uuid, cuts, separators) ==
    FoldLeft(LAMBDA dest, k : dest \o SubSeq(uuid, cuts[k][1], cuts[k][1] + cuts[k][2] - 1)
                                   \o separators[k],
             << >>, [k \in DOMAIN cuts |-> k])

bd_md_canonicalize_uuid(uuid) ==
    Pieces(uuid, <<<<1, 8>>, <<10, 4>>, <<14, 4>>, <<19, 4>>, <<23, 4>>, <<28, 8>>>>,
           << <<Dash>>, <<Dash>>, <<Dash>>, <<Dash>>, << >>, << >> >>)

\* Mutant: the fourth piece is taken from one place too early.
bd_md_get_md_uuid_dash(uuid) ==
    Pieces(uuid, <<<<1, 8>>, <<10, 4>>, <<15, 4>>, <<19, 4>>, <<25, 4>>, <<29, 8>>>>,
           << <<Colon>>, << >>, <<Colon>>, << >>, <<Colon>>, << >> >>)

bd_md_get_md_uuid(uuid) ==
    Pieces(uuid, <<<<1, 8>>, <<10, 4>>, <<15, 4>>, <<20, 4>>, <<25, 4>>, <<29, 8>>>>,
           << <<Colon>>, << >>, <<Colon>>, << >>, <<Colon>>, << >> >>)
=============================================================================
