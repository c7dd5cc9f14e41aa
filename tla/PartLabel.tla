----------------------------- MODULE PartLabel -----------------------------
(***************************************************************************)
(* write_label of src/src/plugins/part.c against udev: the label is        *)
(* written and the kernel told about it while udev, which reacts to the    *)
(* write, may have the kernel read the table itself (BLKRRPART) and so     *)
(* keep the device busy.  Both lock the disk first; the plugin goes on     *)
(* when it cannot.                                                         *)
(***************************************************************************)
EXTENDS Naturals

CONSTANTS
    LockTries,   \* tries to lock the disk: the first one and five more
    MaxEvents    \* bound: how often udev reads the table

ASSUME PartAssumption == LockTries \in Nat \ {0} /\ MaxEvents \in Nat

VARIABLES
    label,      \* the table on the disk: "old" or "new"
    partitions, \* the table the kernel uses
    flock,      \* who has locked the disk: "nobody", "plugin", "udev"
    udev,       \* "idle", "reading", "closing": busy unless idle
    events,
    tell,       \* the caller passes the old table, or force: the kernel is told
    ppc,        \* where write_label is
    num_tries,
    pret,       \* what it returns
    io_error    \* the disk or the kernel failed for a reason other than udev

pvars == <<label, partitions, flock, udev, events, tell, ppc, num_tries, pret, io_error>>

PartTypeOK ==
    /\ label \in {"old", "new"} /\ partitions \in {"old", "new"}
    /\ flock \in {"nobody", "plugin", "udev"}
    /\ udev \in {"idle", "reading", "closing"} /\ events \in 0 .. MaxEvents
    /\ tell \in BOOLEAN
    /\ ppc \in {"open", "lock", "write", "reread", "ret"}
    /\ num_tries \in 0 .. LockTries
    /\ pret \in {"none", "TRUE", "FALSE"} /\ io_error \in BOOLEAN

PartInit ==
    /\ label = "old" /\ partitions = "old" /\ flock = "nobody"
    /\ udev = "idle" /\ events = 0 /\ tell = FALSE
    /\ ppc = "open" /\ num_tries = 0 /\ pret = "none" /\ io_error = FALSE

-----------------------------------------------------------------------------
\* udev is external: it reads the table with the disk locked, or not at all.
UdevLocks ==
    /\ udev = "idle" /\ flock = "nobody" /\ events < MaxEvents
    /\ flock' = "udev" /\ udev' = "reading" /\ events' = events + 1
    /\ UNCHANGED <<label, partitions, tell, ppc, num_tries, pret, io_error>>

UdevReads ==
    /\ udev = "reading"
    /\ udev' = "closing" /\ partitions' = label
    /\ UNCHANGED <<label, flock, events, tell, ppc, num_tries, pret, io_error>>

UdevUnlocks ==
    /\ udev = "closing"
    /\ udev' = "idle" /\ flock' = "nobody"
    /\ UNCHANGED <<label, partitions, events, tell, ppc, num_tries, pret, io_error>>

-----------------------------------------------------------------------------
\* The call.  Without a descriptor there is no lock to try for.
OpenDisk ==
    /\ ppc = "open"
    /\ tell' \in BOOLEAN
    /\ ppc' \in {"lock", "write"}
    /\ UNCHANGED <<label, partitions, flock, udev, events, num_tries, pret, io_error>>

\* Mutant: one try too many.
LockDisk_more ==
    /\ ppc = "lock"
    /\ num_tries' = num_tries + 1
    /\ IF flock = "nobody"
       THEN flock' = "plugin" /\ ppc' = "write"
       ELSE ppc' = (IF num_tries' > LockTries THEN "write" ELSE "lock") /\ UNCHANGED flock
    /\ UNCHANGED <<label, partitions, udev, events, tell, pret, io_error>>

\* Mutant: the lock is not kept until the kernel has been told.
LockDisk_brief ==
    /\ ppc = "lock"
    /\ num_tries' = num_tries + 1
    /\ ppc' = IF flock = "nobody" \/ num_tries' = LockTries THEN "write" ELSE "lock"
    /\ UNCHANGED <<label, partitions, flock, udev, events, tell, pret, io_error>>

LockDisk ==
    /\ ppc = "lock"
    /\ num_tries' = num_tries + 1
    /\ IF flock = "nobody"
       THEN flock' = "plugin" /\ ppc' = "write"
       ELSE ppc' = (IF num_tries' = LockTries THEN "write" ELSE "lock") /\ UNCHANGED flock
    /\ UNCHANGED <<label, partitions, udev, events, tell, pret, io_error>>

\* The descriptor is closed, and the lock with it, on every way out.
ReturnLabel(val) ==
    /\ ppc' = "ret" /\ pret' = val
    /\ flock' = IF flock = "plugin" THEN "nobody" ELSE flock

fdisk_write_disklabel ==
    /\ ppc = "write"
    /\ \/ /\ label' = "new"
          /\ IF tell THEN ppc' = "reread" /\ UNCHANGED <<flock, pret>> ELSE ReturnLabel("TRUE")
          /\ UNCHANGED io_error
       \/ ReturnLabel("FALSE") /\ io_error' = TRUE /\ UNCHANGED label
    /\ UNCHANGED <<partitions, udev, events, tell, num_tries>>

\* fdisk_reread_changes or fdisk_reread_partition_table; fails while the device
\* is busy.
fdisk_reread ==
    /\ ppc = "reread"
    /\ \/ /\ udev = "idle"
          /\ partitions' = label
          /\ ReturnLabel("TRUE") /\ UNCHANGED io_error
       \/ udev # "idle" /\ ReturnLabel("FALSE") /\ UNCHANGED <<partitions, io_error>>
       \/ ReturnLabel("FALSE") /\ io_error' = TRUE /\ UNCHANGED partitions
    /\ UNCHANGED <<label, udev, events, tell, num_tries>>

PartNext ==
    \/ UdevLocks \/ UdevReads \/ UdevUnlocks
    \/ OpenDisk \/ LockDisk \/ fdisk_write_disklabel \/ fdisk_reread

PartSpec == PartInit /\ [][PartNext]_pvars

-----------------------------------------------------------------------------
\* With the disk locked for both operations udev cannot come in between: TRUE
\* means that the kernel uses the table that was written, if it was told, and
\* FALSE that the disk or the kernel itself has failed.  (num_tries is below
\* LockTries if a try before the last one got the lock.)
LockHelps ==
    /\ pret = "TRUE" => label = "new" /\ (tell => partitions = "new")
    /\ pret = "FALSE" /\ num_tries \in 1 .. LockTries - 1 => io_error

-----------------------------------------------------------------------------
(* The inductive invariant.                                                *)

\* Who has the disk locked.
FlockInv ==
    /\ udev # "idle" <=> flock = "udev"
    /\ flock = "plugin" => ppc \in {"write", "reread"}
    /\ ppc \in {"write", "reread"} /\ num_tries \in 1 .. LockTries - 1 => flock = "plugin"

\* How far write_label has come.
LabelInv ==
    /\ ppc = "open" => num_tries = 0
    /\ ppc = "lock" => num_tries < LockTries
    /\ ppc \in {"open", "lock", "write"} => label = "old"
    /\ ppc = "reread" => label = "new"
    /\ pret = "none" <=> ppc # "ret"

\* Type correctness, the lock and the steps of write_label; with LockHelps
\* itself the whole is inductive.
PartInv == PartTypeOK /\ FlockInv /\ LabelInv /\ LockHelps
=============================================================================
