------------------------------ MODULE ZfsCaps ------------------------------
(***************************************************************************)
(* The zfs plugin's knowledge of the installed OpenZFS                     *)
(* (src/src/plugins/zfs.c): the version that probe_zfs_version caches and  *)
(* the capabilities that probe_runtime_caps derives from it, used by       *)
(* several threads.  The version is cached under deps_check_lock;          *)
(* runtime_caps is written under it but read without, so a reader may see  *)
(* its fields change in any order.                                         *)
(*                                                                         *)
(* Running "zfs version" may fail.                                         *)
(***************************************************************************)
EXTENDS Naturals

CONSTANTS
    ZfsUsers,
    MaxZfsCalls,   \* bound: calls between two of bd_zfs_close
    MaxFailures,   \* bound: failing runs of "zfs version"
    Nobody, NoZfs

ASSUME ZfsAssumption ==
    /\ MaxZfsCalls \in Nat /\ MaxFailures \in Nat
    /\ Nobody \notin ZfsUsers /\ NoZfs \notin Nat

\* Versions in their order: before 0.6.4, before 0.8.0, and later ones.
ZfsVersions == 0 .. 2
Needed == [bookmark |-> 1, v080 |-> 2]
Caps == DOMAIN Needed
NoCaps == [c \in Caps |-> FALSE]

VARIABLES
    installed,       \* the version that is installed
    cached_version,  \* NoZfs or what "zfs version" said
    probed, caps,    \* runtime_caps
    deps_check_lock, \* who holds it
    zpc, need,       \* where each thread is, and the capability it is after
    seen,            \* what it has found out: bm and v080
    unstored,        \* fields of runtime_caps that are still to be written
    zres,            \* result of its last call, by ensure_cap
    zcalls, successes, failures

zvars == <<installed, cached_version, probed, caps, deps_check_lock, zpc, need,
           seen, unstored, zres, zcalls, successes, failures>>

ZfsTypeOK ==
    /\ installed \in ZfsVersions
    /\ cached_version \in ZfsVersions \cup {NoZfs}
    /\ probed \in BOOLEAN /\ caps \in [Caps -> BOOLEAN]
    /\ deps_check_lock \in ZfsUsers \cup {Nobody}
    /\ zpc \in [ZfsUsers -> {"idle", "bookmark", "v080", "run_bookmark", "run_v080",
                             "store", "storing", "ensure"}]
    /\ need \in [ZfsUsers -> Caps]
    /\ seen \in [ZfsUsers -> [Caps -> BOOLEAN]]
    /\ unstored \subseteq Caps \cup {"probed"}
    /\ zres \in [ZfsUsers -> {"none", "allowed", "refused"}]
    /\ zcalls \in 0 .. MaxZfsCalls /\ successes \in Nat /\ failures \in 0 .. MaxFailures

ZfsInit ==
    /\ installed = 0
    /\ cached_version = NoZfs /\ probed = FALSE /\ caps = NoCaps
    /\ deps_check_lock = Nobody
    /\ zpc = [t \in ZfsUsers |-> "idle"]
    /\ need = [t \in ZfsUsers |-> "v080"]
    /\ seen = [t \in ZfsUsers |-> NoCaps]
    /\ unstored = {}
    /\ zres = [t \in ZfsUsers |-> "none"]
    /\ zcalls = 0 /\ successes = 0 /\ failures = 0

ZfsGoto(t, label) == zpc' = [zpc EXCEPT ![t] = label]
RunLabel(c) == IF c = "bookmark" THEN "run_bookmark" ELSE "run_v080"
AfterProbe(c) == IF c = "bookmark" THEN "v080" ELSE "store"

\* A function that needs a capability, up to the unlocked look at probed.
ZfsCall(t) ==
    /\ zpc[t] = "idle" /\ zcalls < MaxZfsCalls
    /\ zcalls' = zcalls + 1
    /\ need' \in {[need EXCEPT ![t] = c] : c \in Caps}
    /\ seen' = [seen EXCEPT ![t] = NoCaps]
    /\ zres' = [zres EXCEPT ![t] = "none"]
    /\ ZfsGoto(t, IF probed THEN "ensure" ELSE "bookmark")
    /\ UNCHANGED <<installed, cached_version, probed, caps, deps_check_lock, unstored,
                   successes, failures>>

\* zfs_version_at_least for the version that brought c: with the version in
\* the cache it is compared at once.
CachedVersion(t, c) ==
    /\ zpc[t] = c
    /\ deps_check_lock = Nobody /\ cached_version # NoZfs
    /\ seen' = [seen EXCEPT ![t][c] = cached_version >= Needed[c]]
    /\ ZfsGoto(t, AfterProbe(c))
    /\ UNCHANGED <<installed, cached_version, probed, caps, deps_check_lock, need, unstored,
                   zres, zcalls, successes, failures>>

\* Mutant: the lock is taken only to store the version.
RunVersion_unlocked(t, c) ==
    /\ zpc[t] = c
    /\ cached_version = NoZfs
    /\ ZfsGoto(t, RunLabel(c))
    /\ UNCHANGED <<installed, cached_version, probed, caps, deps_check_lock, need, seen,
                   unstored, zres, zcalls, successes, failures>>

\* Otherwise "zfs version" is run with the lock held.
RunVersion(t, c) ==
    /\ zpc[t] = c
    /\ deps_check_lock = Nobody /\ cached_version = NoZfs
    /\ deps_check_lock' = t
    /\ ZfsGoto(t, RunLabel(c))
    /\ UNCHANGED <<installed, cached_version, probed, caps, need, seen, unstored, zres,
                   zcalls, successes, failures>>

\* Mutant: the version has to be a later one.
VersionRead_later(t, c) ==
    /\ zpc[t] = RunLabel(c)
    /\ cached_version' = installed
    /\ seen' = [seen EXCEPT ![t][c] = installed > Needed[c]]
    /\ successes' = successes + 1
    /\ deps_check_lock' = Nobody
    /\ ZfsGoto(t, AfterProbe(c))
    /\ UNCHANGED <<installed, probed, caps, need, unstored, zres, zcalls, failures>>

\* Its error is cleared by probe_runtime_caps, which takes it for an old version.
VersionRead(t, c) ==
    /\ zpc[t] = RunLabel(c)
    /\ \/ /\ cached_version' = installed
          /\ seen' = [seen EXCEPT ![t][c] = installed >= Needed[c]]
          /\ successes' = successes + 1
          /\ UNCHANGED failures
       \/ /\ failures < MaxFailures
          /\ failures' = failures + 1
          /\ UNCHANGED <<cached_version, seen, successes>>
    /\ deps_check_lock' = Nobody
    /\ ZfsGoto(t, AfterProbe(c))
    /\ UNCHANGED <<installed, probed, caps, need, unstored, zres, zcalls>>

\* The results are stored under the lock, unless somebody has been faster.
StoreCaps(t) ==
    /\ zpc[t] = "store" /\ deps_check_lock = Nobody
    /\ IF probed
       THEN ZfsGoto(t, "ensure") /\ UNCHANGED <<deps_check_lock, unstored>>
       ELSE /\ deps_check_lock' = t
            /\ unstored' = Caps \cup {"probed"}
            /\ ZfsGoto(t, "storing")
    /\ UNCHANGED <<installed, cached_version, probed, caps, need, seen, zres, zcalls,
                   successes, failures>>

StoreField(t) ==
    /\ zpc[t] = "storing"
    /\ \E f \in unstored :
        /\ unstored' = unstored \ {f}
        /\ probed' = (probed \/ f = "probed")
        /\ caps' = IF f \in Caps THEN [caps EXCEPT ![f] = seen[t][f]] ELSE caps
    /\ IF unstored' = {}
       THEN ZfsGoto(t, "ensure") /\ deps_check_lock' = Nobody
       ELSE UNCHANGED <<zpc, deps_check_lock>>
    /\ UNCHANGED <<installed, cached_version, need, seen, zres, zcalls, successes, failures>>

ensure_cap(t) ==
    /\ zpc[t] = "ensure"
    /\ zres' = [zres EXCEPT ![t] = IF caps[need[t]] THEN "allowed" ELSE "refused"]
    /\ ZfsGoto(t, "idle")
    /\ UNCHANGED <<installed, cached_version, probed, caps, deps_check_lock, need, seen,
                   unstored, zcalls, successes, failures>>

\* The loader closes a plugin that nobody is calling.
bd_zfs_close ==
    /\ \A t \in ZfsUsers : zpc[t] = "idle"
    /\ zcalls > 0
    /\ cached_version' = NoZfs /\ probed' = FALSE /\ caps' = NoCaps
    /\ zcalls' = 0 /\ successes' = 0 /\ failures' = 0
    /\ zres' = [t \in ZfsUsers |-> "none"]
    /\ seen' = [t \in ZfsUsers |-> NoCaps]
    /\ UNCHANGED <<installed, deps_check_lock, zpc, need, unstored>>

\* Another version is installed; a plugin that is loaded does not notice.
Install ==
    /\ zcalls = 0
    /\ installed' \in ZfsVersions
    /\ UNCHANGED <<cached_version, probed, caps, deps_check_lock, zpc, need, seen, unstored,
                   zres, zcalls, successes, failures>>

ZfsNext ==
    \/ \E t \in ZfsUsers :
        \/ ZfsCall(t)
        \/ \E c \in Caps : CachedVersion(t, c) \/ RunVersion(t, c) \/ VersionRead(t, c)
        \/ StoreCaps(t) \/ StoreField(t) \/ ensure_cap(t)
    \/ bd_zfs_close \/ Install

ZfsSpec == ZfsInit /\ [][ZfsNext]_zvars

-----------------------------------------------------------------------------
Supported(c) == installed >= Needed[c]

\* "zfs version" is not run again once it has answered, and no two threads run
\* it at once: probe_zfs_version holds the lock over the look and the run.
VersionOnce == successes <= 1

\* Once runtime_caps is stored it says what the installed version supports,
\* although several threads may have probed it - unless "zfs version" failed.
CapsWhenQuiet ==
    probed /\ deps_check_lock = Nobody /\ failures = 0 =>
        \A c \in Caps : caps[c] = Supported(c)

-----------------------------------------------------------------------------
(* The inductive invariant.                                                *)

\* Who holds deps_check_lock.
CapsLockInv ==
    \A t \in ZfsUsers :
        deps_check_lock = t <=> zpc[t] \in {"run_bookmark", "run_v080", "storing"}

\* "zfs version" has answered exactly if its answer is cached, and it is not
\* run while it is.
VersionInv ==
    /\ successes = (IF cached_version = NoZfs THEN 0 ELSE 1)
    /\ cached_version \in {NoZfs, installed}
    /\ \A t \in ZfsUsers : zpc[t] \in {"run_bookmark", "run_v080"} => cached_version = NoZfs
    /\ zcalls = 0 => cached_version = NoZfs /\ ~probed /\ \A t \in ZfsUsers : zpc[t] = "idle"

\* What a thread has found out so far is right unless a run has failed.
SeenInv ==
    failures = 0 => \A t \in ZfsUsers :
        /\ zpc[t] \in {"v080", "run_v080", "store", "storing"} =>
             seen[t]["bookmark"] = Supported("bookmark")
        /\ zpc[t] \in {"store", "storing"} => seen[t]["v080"] = Supported("v080")

\* runtime_caps is what the thread that stores it has found out, as far as it
\* is stored; nobody stores it twice.
StoreInv ==
    /\ (\A t \in ZfsUsers : zpc[t] # "storing") => unstored = {}
    /\ \A t \in ZfsUsers : zpc[t] = "storing" =>
         /\ \A c \in Caps \ unstored : caps[c] = seen[t][c]
         /\ probed <=> "probed" \notin unstored
    /\ probed /\ failures = 0 /\ unstored = {} => \A c \in Caps : caps[c] = Supported(c)

\* Type correctness, the lock, and that the version, the findings and the
\* capabilities agree: implies VersionOnce and CapsWhenQuiet.
ZfsInv == ZfsTypeOK /\ CapsLockInv /\ VersionInv /\ SeenInv /\ StoreInv
=============================================================================
