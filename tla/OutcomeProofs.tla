--------------------------- MODULE OutcomeProofs ---------------------------
(***************************************************************************)
(* Calls that learn from somebody else what became of them: from a child   *)
(* process (MountAsUser), from a daemon (LvmDbusJob), from the kernel      *)
(* beside udev (PartLabel), from another thread's probe (ZfsCaps).  For    *)
(* each, the inductive invariant of its module and the properties that     *)
(* follow.                                                                 *)
(***************************************************************************)
EXTENDS MountAsUser, LvmDbusJob, PartLabel, ZfsCaps, TLAPS

-----------------------------------------------------------------------------
(* MountAsUser.                                                            *)

LEMMA MountInitInv == MountInit => MountInv
<1> SUFFICES ASSUME MountInit PROVE MountInv
  OBVIOUS
<1>1. MountTypeOK
  <2>1. mret \in [val : {"none", "TRUE", "FALSE"}, code : {0, FAIL, AUTH}]
    BY DEF MountInit
  <2>2. task = {} /\ identity = {} /\ writers = {} /\ fault = {} /\ ~stopped /\ ~mounted
    BY DEF MountInit
  <2>3. stops \in 0 .. MaxStops
    BY MountAssumption DEF MountInit
  <2> QED
    BY <2>1, <2>2, <2>3 DEF MountInit, MountTypeOK
<1>2. ChildInv /\ NewsInv /\ ReturnInv
  BY DEF MountInit, ChildInv, NewsInv, ReturnInv, Alive
<1> QED
  BY <1>1, <1>2 DEF MountInv

LEMMA MountTypeStep == MountInv /\ [MountNext]_mvars => MountTypeOK'
<1> SUFFICES ASSUME MountInv, [MountNext]_mvars PROVE MountTypeOK'
  OBVIOUS
<1> USE MountAssumption
    DEF MountInv, MountTypeOK, ChildInv, NewsInv, Alive, Runs, FAIL, PIPE, AUTH, UNKNOWN_FS, childs
<1>1. CASE MountCall BY <1>1 DEF MountCall
<1>2. CASE Fork
  <2>1. mret' \in [val : {"none", "TRUE", "FALSE"}, code : {0, FAIL, AUTH}]
    BY <1>2 DEF Fork, MountReturn
  <2>2. fault' \subseteq {"start", "wait", "signal", "text"}
    BY <1>2 DEF Fork
  <2>3. parent' \in {"forked", "ret"} /\ child' \in {"gid", child} /\ writers' \in {{"child"}, writers}
    BY <1>2 DEF Fork, MountReturn
  <2> QED
    BY <1>2, <2>1, <2>2, <2>3 DEF Fork
<1>3. CASE Wait BY <1>3 DEF Wait, MountReturn
<1>4. CASE WaitFails BY <1>4 DEF WaitFails, MountReturn
<1>5. CASE Read
  <2>1. (IF code > AUTH THEN FAIL ELSE code) \in {FAIL, AUTH}
    BY <1>5 DEF Read
  <2>2. mret' \in [val : {"none", "TRUE", "FALSE"}, code : {0, FAIL, AUTH}]
    BY <1>5, <2>1 DEF Read, MountReturn
  <2> QED
    BY <1>5, <2>2 DEF Read, MountReturn
<1>6. CASE SetGid BY <1>6 DEF SetGid, Become
<1>7. CASE SetUid BY <1>7 DEF SetUid, Become
<1>8. CASE Func BY <1>8 DEF Func
<1>9. CASE Write BY <1>9 DEF Write
<1>10. CASE Exit BY <1>10 DEF Exit, Dies
<1>11. CASE Kill BY <1>11 DEF Kill, Dies
<1>12. CASE Stop BY <1>12 DEF Stop
<1>13. CASE Continue
  <2>1. stopped' \in BOOLEAN /\ news' = "continued"
    BY <1>13, Zenon DEF Continue
  <2>2. UNCHANGED <<parent, child, stops, task, identity, mounted, code, pipefd, writers, mret, fault>>
    BY <1>13, Zenon DEF Continue
  <2> QED
    BY <2>1, <2>2
<1>14. CASE UNCHANGED mvars BY <1>14 DEF mvars
<1> QED
  BY <1>1, <1>2, <1>3, <1>4, <1>5, <1>6, <1>7, <1>8, <1>9, <1>10, <1>11, <1>12, <1>13, <1>14
  DEF MountNext

\* The child's own steps move it on; only its end is told by a signal.
LEMMA ChildStepInv == MountInv /\ [MountNext]_mvars => ChildInv'
<1> SUFFICES ASSUME MountInv, [MountNext]_mvars PROVE ChildInv'
  OBVIOUS
<1> USE DEF MountInv, MountTypeOK, ChildInv, NewsInv, Alive, Runs, FAIL, PIPE, AUTH, UNKNOWN_FS,
            childs
<1>1. CASE MountCall BY <1>1 DEF MountCall
<1>2. CASE Fork BY <1>2 DEF Fork
<1>3. CASE Wait BY <1>3 DEF Wait
<1>4. CASE WaitFails BY <1>4 DEF WaitFails
<1>5. CASE Read BY <1>5 DEF Read
<1>6. CASE SetGid BY <1>6 DEF SetGid, Become
<1>7. CASE SetUid BY <1>7 DEF SetUid, Become
<1>8. CASE Func BY <1>8 DEF Func
<1>9. CASE Write BY <1>9 DEF Write
<1>10. CASE Exit BY <1>10 DEF Exit, Dies
<1>11. CASE Kill BY <1>11 DEF Kill, Dies
<1>12. CASE Stop BY <1>12 DEF Stop
<1>13. CASE Continue BY <1>13 DEF Continue
<1>14. CASE UNCHANGED mvars BY <1>14 DEF mvars
<1> QED
  BY <1>1, <1>2, <1>3, <1>4, <1>5, <1>6, <1>7, <1>8, <1>9, <1>10, <1>11, <1>12, <1>13, <1>14
  DEF MountNext

LEMMA NewsStepInv == MountInv /\ [MountNext]_mvars => NewsInv'
<1> SUFFICES ASSUME MountInv, [MountNext]_mvars PROVE NewsInv'
  OBVIOUS
<1> USE DEF MountInv, MountTypeOK, ChildInv, NewsInv, Alive, Runs, childs
<1>1. CASE MountCall BY <1>1 DEF MountCall
<1>2. CASE Fork BY <1>2 DEF Fork, MountReturn
<1>3. CASE Wait BY <1>3 DEF Wait, MountReturn
<1>4. CASE WaitFails BY <1>4 DEF WaitFails, MountReturn
<1>5. CASE Read BY <1>5 DEF Read, MountReturn
<1>6. CASE SetGid BY <1>6 DEF SetGid, Become
<1>7. CASE SetUid BY <1>7 DEF SetUid, Become
<1>8. CASE Func BY <1>8 DEF Func
<1>9. CASE Write BY <1>9 DEF Write
<1>10. CASE Exit BY <1>10 DEF Exit, Dies
<1>11. CASE Kill BY <1>11 DEF Kill, Dies
<1>12. CASE Stop BY <1>12 DEF Stop
<1>13. CASE Continue BY <1>13 DEF Continue
<1>14. CASE UNCHANGED mvars BY <1>14 DEF mvars
<1> QED
  BY <1>1, <1>2, <1>3, <1>4, <1>5, <1>6, <1>7, <1>8, <1>9, <1>10, <1>11, <1>12, <1>13, <1>14
  DEF MountNext

\* Once the parent has returned the child can only go on if waiting failed.
LEMMA ReturnStepInv == MountInv /\ [MountNext]_mvars => ReturnInv'
<1> SUFFICES ASSUME MountInv, [MountNext]_mvars PROVE ReturnInv'
  OBVIOUS
<1> USE DEF MountInv, MountTypeOK, ChildInv, NewsInv, ReturnInv, Alive, Runs, FAIL, PIPE, AUTH,
            UNKNOWN_FS, childs
<1>1. CASE MountCall BY <1>1 DEF MountCall
<1>2. CASE Fork BY <1>2 DEF Fork, MountReturn
<1>3. CASE Wait BY <1>3 DEF Wait, MountReturn
<1>4. CASE WaitFails BY <1>4 DEF WaitFails, MountReturn
<1>5. CASE Read BY <1>5 DEF Read, MountReturn
<1>6. CASE SetGid BY <1>6 DEF SetGid, Become
<1>7. CASE SetUid BY <1>7 DEF SetUid, Become
<1>8. CASE Func BY <1>8 DEF Func
<1>9. CASE Write BY <1>9 DEF Write
<1>10. CASE Exit BY <1>10 DEF Exit, Dies
<1>11. CASE Kill BY <1>11 DEF Kill, Dies
<1>12. CASE Stop BY <1>12 DEF Stop
<1>13. CASE Continue BY <1>13 DEF Continue
<1>14. CASE UNCHANGED mvars BY <1>14 DEF mvars
<1> QED
  BY <1>1, <1>2, <1>3, <1>4, <1>5, <1>6, <1>7, <1>8, <1>9, <1>10, <1>11, <1>12, <1>13, <1>14
  DEF MountNext

LEMMA MountStepInv == MountInv /\ [MountNext]_mvars => MountInv'
BY MountTypeStep, ChildStepInv, NewsStepInv, ReturnStepInv DEF MountInv

\* MountInv holds in every state of a mount by a child process, however often
\* the child is stopped.
THEOREM MountInvCorrect == MountSpec => []MountInv
BY MountInitInv, MountStepInv, PTL DEF MountSpec

\* run_as_user returns TRUE only for work that was done under the identity asked
\* for, and its FALSE carries the child's error, for any interleaving of parent
\* and child.
THEOREM OutcomeCorrect == MountSpec => []SameOutcome
<1>1. MountInv => SameOutcome
  BY DEF MountInv, MountTypeOK, ChildInv, ReturnInv, SameOutcome, FAIL, PIPE, AUTH, UNKNOWN_FS
<1> QED
  BY <1>1, MountInvCorrect, PTL

\* When run_as_user has returned and waitpid has not failed, the child has ended
\* and is reaped.
THEOREM ReapedCorrect == MountSpec => []ChildReaped
<1>1. MountInv => ChildReaped
  BY DEF MountInv, ReturnInv, ChildReaped
<1> QED
  BY <1>1, MountInvCorrect, PTL

-----------------------------------------------------------------------------
(* LvmDbusJob.                                                             *)

LEMMA JobInitInv == JobInit => JobInv
<1> SUFFICES ASSUME JobInit PROVE JobInv
  OBVIOUS
<1>1. crashes \in 0 .. MaxCrashes /\ finished \in 0 .. 1
  BY JobAssumption DEF JobInit
<1>2. up \in BOOLEAN /\ lost \in BOOLEAN
  BY DEF JobInit
<1>3. JobTypeOK
  BY <1>1, <1>2 DEF JobInit, JobTypeOK
<1>4. DaemonInv /\ ClientInv /\ JobOutcome
  BY DEF JobInit, DaemonInv, ClientInv, JobOutcome
<1> QED
  BY <1>3, <1>4 DEF JobInv

LEMMA JobStepInv == JobInv /\ [JobNext]_jvars => JobInv'
<1> SUFFICES ASSUME JobInv, [JobNext]_jvars PROVE JobInv'
  OBVIOUS
<1> USE JobAssumption
    DEF JobInv, JobTypeOK, DaemonInv, ClientInv, JobOutcome, ReturnJob, GoOn, Unanswered,
        NoObjectNoJob, client, daemon
<1>1. CASE JobCall BY <1>1 DEF JobCall
<1>2. CASE call_lvm_method
  <2>1. JobTypeOK'
    <3>1. up' \in BOOLEAN /\ lost' \in BOOLEAN
      BY <1>2 DEF call_lvm_method
    <3> QED
      BY <1>2, <3>1 DEF call_lvm_method
  <2>2. DaemonInv' /\ ClientInv'
    BY <1>2 DEF call_lvm_method
  <2>3. JobOutcome'
    BY <1>2 DEF call_lvm_method
  <2> QED
    BY <2>1, <2>2, <2>3
<1>3. CASE Answered
  <2>1. JobTypeOK'
    <3>1. up' \in BOOLEAN /\ lost' \in BOOLEAN
      BY <1>3 DEF Answered
    <3> QED
      BY <1>3, <3>1 DEF Answered
  <2>2. DaemonInv' /\ ClientInv'
    BY <1>3 DEF Answered
  <2>3. JobOutcome'
    BY <1>3 DEF Answered
  <2> QED
    BY <2>1, <2>2, <2>3
<1>4. CASE TimesOut BY <1>4 DEF TimesOut
<1>5. CASE Poll
  <2>1. JobTypeOK'
    <3>1. up' \in BOOLEAN /\ lost' \in BOOLEAN
      BY <1>5 DEF Poll
    <3> QED
      BY <1>5, <3>1 DEF Poll
  <2>2. DaemonInv' /\ ClientInv'
    BY <1>5 DEF Poll
  <2>3. JobOutcome'
    BY <1>5 DEF Poll
  <2> QED
    BY <2>1, <2>2, <2>3
<1>6. CASE Percent BY <1>6 DEF Percent
<1>7. CASE Result
  <2>1. JobTypeOK'
    <3>1. up' \in BOOLEAN /\ lost' \in BOOLEAN
      BY <1>7 DEF Result
    <3> QED
      BY <1>7, <3>1 DEF Result
  <2>2. DaemonInv' /\ ClientInv'
    BY <1>7 DEF Result
  <2>3. JobOutcome'
    BY <1>7 DEF Result
  <2> QED
    BY <2>1, <2>2, <2>3
<1>8. CASE GetError
  <2>1. JobTypeOK'
    <3>1. up' \in BOOLEAN /\ lost' \in BOOLEAN
      BY <1>8 DEF GetError
    <3> QED
      BY <1>8, <3>1 DEF GetError
  <2>2. DaemonInv' /\ ClientInv'
    BY <1>8 DEF GetError
  <2>3. JobOutcome'
    BY <1>8 DEF GetError
  <2> QED
    BY <2>1, <2>2, <2>3
<1>9. CASE RemoveJob BY <1>9 DEF RemoveJob
<1>10. CASE TakeUp BY <1>10 DEF TakeUp
<1>11. CASE Finish BY <1>11 DEF Finish
<1>12. CASE BecomeJob BY <1>12 DEF BecomeJob
<1>13. CASE Crash
  <2>1. JobTypeOK'
    <3>1. up' \in BOOLEAN /\ lost' \in BOOLEAN
      BY <1>13 DEF Crash
    <3> QED
      BY <1>13, <3>1 DEF Crash
  <2>2. DaemonInv' /\ ClientInv'
    BY <1>13 DEF Crash
  <2>3. JobOutcome'
    BY <1>13 DEF Crash
  <2> QED
    BY <2>1, <2>2, <2>3
<1>14. CASE Restart BY <1>14 DEF Restart
<1>15. CASE UNCHANGED jvars BY <1>15 DEF jvars
<1> QED
  BY <1>1, <1>2, <1>3, <1>4, <1>5, <1>6, <1>7, <1>8,
     <1>9, <1>10, <1>11, <1>12, <1>13, <1>14, <1>15
  DEF JobNext

\* JobInv holds while a method of lvmdbusd is called and its job polled, with a
\* daemon that may go away at any time.
THEOREM JobInvCorrect == JobSpec => []JobInv
  BY JobInitInv, JobStepInv, PTL DEF JobSpec

\* What call_lvm_method_sync returns is what became of the work, unless an
\* answer was lost or named neither object nor job, and its progress is finished
\* once, whatever the daemon does and how often it crashes.
THEOREM JobOutcomeCorrect == JobSpec => []JobOutcome
<1>1. JobInv => JobOutcome
  BY DEF JobInv
<1> QED
  BY <1>1, JobInvCorrect, PTL

-----------------------------------------------------------------------------
(* PartLabel.                                                              *)

LEMMA PartInitInv == PartInit => PartInv
<1> SUFFICES ASSUME PartInit PROVE PartInv
  OBVIOUS
<1>1. events \in 0 .. MaxEvents /\ num_tries \in 0 .. LockTries
  BY PartAssumption DEF PartInit
<1>2. tell \in BOOLEAN /\ io_error \in BOOLEAN
  BY DEF PartInit
<1>3. PartTypeOK
  BY <1>1, <1>2 DEF PartInit, PartTypeOK
<1>4. FlockInv /\ LabelInv /\ LockHelps
  BY PartAssumption DEF PartInit, FlockInv, LabelInv, LockHelps
<1> QED
  BY <1>3, <1>4 DEF PartInv

LEMMA PartStepInv == PartInv /\ [PartNext]_pvars => PartInv'
<1> SUFFICES ASSUME PartInv, [PartNext]_pvars PROVE PartInv'
  OBVIOUS
<1> USE PartAssumption DEF PartInv, PartTypeOK, FlockInv, LabelInv, LockHelps
<1>1. CASE UdevLocks BY <1>1 DEF UdevLocks
<1>2. CASE UdevReads BY <1>2 DEF UdevReads
<1>3. CASE UdevUnlocks BY <1>3 DEF UdevUnlocks
<1>4. CASE OpenDisk BY <1>4 DEF OpenDisk
<1>5. CASE LockDisk BY <1>5 DEF LockDisk
<1>6. CASE fdisk_write_disklabel BY <1>6 DEF fdisk_write_disklabel, ReturnLabel
<1>7. CASE fdisk_reread BY <1>7 DEF fdisk_reread, ReturnLabel
<1>8. CASE UNCHANGED pvars BY <1>8 DEF pvars
<1> QED
  BY <1>1, <1>2, <1>3, <1>4, <1>5, <1>6, <1>7, <1>8 DEF PartNext

\* PartInv holds while write_label and udev compete for the disk.
THEOREM PartInvCorrect == PartSpec => []PartInv
  BY PartInitInv, PartStepInv, PTL DEF PartSpec

\* A write_label that got the lock fails only for the disk or the kernel, and
\* one that says TRUE has the kernel use the new table, for any number of tries
\* and any number of times udev reads the table.
THEOREM LockHelpsCorrect == PartSpec => []LockHelps
<1>1. PartInv => LockHelps
  BY DEF PartInv
<1> QED
  BY <1>1, PartInvCorrect, PTL

-----------------------------------------------------------------------------
(* ZfsCaps, for any number of threads and calls.                           *)

\* The capabilities and the versions that brought them.
LEMMA CapsFacts ==
    /\ Caps = {"bookmark", "v080"}
    /\ Needed["bookmark"] = 1 /\ Needed["v080"] = 2
    /\ NoCaps \in [Caps -> BOOLEAN]
BY DEF Caps, Needed, NoCaps

LEMMA ZfsInitInv == ZfsInit => ZfsInv
<1> SUFFICES ASSUME ZfsInit PROVE ZfsInv
  OBVIOUS
<1> USE ZfsAssumption, CapsFacts DEF ZfsInit
<1>1. ZfsTypeOK
  <2>1. seen \in [ZfsUsers -> [Caps -> BOOLEAN]] /\ caps \in [Caps -> BOOLEAN]
    OBVIOUS
  <2>2. /\ zpc \in [ZfsUsers -> {"idle", "bookmark", "v080", "run_bookmark", "run_v080",
                             "store", "storing", "ensure"}]
        /\ need \in [ZfsUsers -> Caps]
        /\ zres \in [ZfsUsers -> {"none", "allowed", "refused"}]
    OBVIOUS
  <2>3. /\ installed \in ZfsVersions /\ cached_version = NoZfs
        /\ deps_check_lock = Nobody /\ unstored = {}
        /\ zcalls \in 0 .. MaxZfsCalls /\ successes \in Nat /\ failures \in 0 .. MaxFailures
    BY DEF ZfsVersions
  <2>4. probed \in BOOLEAN
    OBVIOUS
  <2> QED
    BY ONLY <2>1, <2>2, <2>3, <2>4 DEF ZfsTypeOK
<1>2. CapsLockInv /\ SeenInv /\ StoreInv
  BY DEF CapsLockInv, SeenInv, StoreInv
<1>3. VersionInv
  BY DEF VersionInv
<1> QED
  BY <1>1, <1>2, <1>3 DEF ZfsInv

LEMMA ZfsTypeStep == ZfsInv /\ [ZfsNext]_zvars => ZfsTypeOK'
<1> SUFFICES ASSUME ZfsInv, [ZfsNext]_zvars PROVE ZfsTypeOK'
  OBVIOUS
<1> USE ZfsAssumption, CapsFacts DEF ZfsInv, ZfsTypeOK, ZfsVersions, ZfsGoto, RunLabel, AfterProbe
<1>1. ASSUME NEW t \in ZfsUsers, ZfsCall(t) PROVE ZfsTypeOK'
  <2>1. PICK c \in Caps : need' = [need EXCEPT ![t] = c]
    BY <1>1 DEF ZfsCall
  <2>2. need' \in [ZfsUsers -> Caps] /\ seen' \in [ZfsUsers -> [Caps -> BOOLEAN]]
    BY <1>1, <2>1 DEF ZfsCall
  <2>3. zres' \in [ZfsUsers -> {"none", "allowed", "refused"}] /\ zcalls' \in 0 .. MaxZfsCalls
    BY <1>1 DEF ZfsCall
  <2>4. zpc' \in [ZfsUsers -> {"idle", "bookmark", "v080", "run_bookmark", "run_v080",
                              "store", "storing", "ensure"}]
    BY <1>1 DEF ZfsCall
  <2>5. UNCHANGED <<installed, cached_version, probed, caps, deps_check_lock, unstored,
                    successes, failures>>
    BY <1>1 DEF ZfsCall
  <2> QED
    BY ONLY ZfsInv, <2>2, <2>3, <2>4, <2>5 DEF ZfsInv, ZfsTypeOK
<1>2. ASSUME NEW t \in ZfsUsers, NEW c \in Caps, CachedVersion(t, c) PROVE ZfsTypeOK'
  BY <1>2 DEF CachedVersion
<1>3. ASSUME NEW t \in ZfsUsers, NEW c \in Caps, RunVersion(t, c) PROVE ZfsTypeOK'
  BY <1>3 DEF RunVersion
<1>4. ASSUME NEW t \in ZfsUsers, NEW c \in Caps, VersionRead(t, c) PROVE ZfsTypeOK'
  <2>1. [seen EXCEPT ![t][c] = installed >= Needed[c]] \in [ZfsUsers -> [Caps -> BOOLEAN]]
    OBVIOUS
  <2>4. seen' \in [ZfsUsers -> [Caps -> BOOLEAN]]
    BY <1>4, <2>1 DEF VersionRead
  <2>2. successes' \in Nat /\ failures' \in 0 .. MaxFailures
    BY <1>4 DEF VersionRead
  <2> QED
    BY <1>4, <2>4, <2>2 DEF VersionRead
<1>5. ASSUME NEW t \in ZfsUsers, StoreCaps(t) PROVE ZfsTypeOK'
  BY <1>5 DEF StoreCaps
<1>6. ASSUME NEW t \in ZfsUsers, StoreField(t) PROVE ZfsTypeOK'
  BY <1>6 DEF StoreField
<1>7. ASSUME NEW t \in ZfsUsers, ensure_cap(t) PROVE ZfsTypeOK'
  BY <1>7 DEF ensure_cap
<1>8. CASE bd_zfs_close
  <2>1. seen' \in [ZfsUsers -> [Caps -> BOOLEAN]]
    BY <1>8 DEF bd_zfs_close
  <2>2. zres' \in [ZfsUsers -> {"none", "allowed", "refused"}]
    BY <1>8 DEF bd_zfs_close
  <2>3. /\ cached_version' = NoZfs /\ caps' \in [Caps -> BOOLEAN]
        /\ zcalls' \in 0 .. MaxZfsCalls /\ successes' \in Nat /\ failures' \in 0 .. MaxFailures
        /\ UNCHANGED <<installed, deps_check_lock, zpc, need, unstored>>
    BY <1>8 DEF bd_zfs_close
  <2>4. probed' \in BOOLEAN
    BY <1>8 DEF bd_zfs_close
  <2> QED
    BY ONLY ZfsInv, <2>1, <2>2, <2>3, <2>4 DEF ZfsInv, ZfsTypeOK
<1>9. CASE Install BY <1>9 DEF Install
<1>10. CASE UNCHANGED zvars BY <1>10 DEF zvars
<1> QED
  BY <1>1, <1>2, <1>3, <1>4, <1>5, <1>6, <1>7, <1>8, <1>9, <1>10 DEF ZfsNext

LEMMA CapsLockStep == ZfsInv /\ [ZfsNext]_zvars => CapsLockInv'
<1> SUFFICES ASSUME ZfsInv, [ZfsNext]_zvars PROVE CapsLockInv'
  OBVIOUS
<1> USE ZfsAssumption, CapsFacts DEF ZfsInv, ZfsTypeOK, CapsLockInv, ZfsGoto, RunLabel, AfterProbe
<1>1. ASSUME NEW t \in ZfsUsers, ZfsCall(t) PROVE CapsLockInv'
  BY <1>1 DEF ZfsCall
<1>2. ASSUME NEW t \in ZfsUsers, NEW c \in Caps, CachedVersion(t, c) PROVE CapsLockInv'
  BY <1>2 DEF CachedVersion
<1>3. ASSUME NEW t \in ZfsUsers, NEW c \in Caps, RunVersion(t, c) PROVE CapsLockInv'
  BY <1>3 DEF RunVersion
<1>4. ASSUME NEW t \in ZfsUsers, NEW c \in Caps, VersionRead(t, c) PROVE CapsLockInv'
  BY <1>4 DEF VersionRead
<1>5. ASSUME NEW t \in ZfsUsers, StoreCaps(t) PROVE CapsLockInv'
  BY <1>5 DEF StoreCaps
<1>6. ASSUME NEW t \in ZfsUsers, StoreField(t) PROVE CapsLockInv'
  BY <1>6 DEF StoreField
<1>7. ASSUME NEW t \in ZfsUsers, ensure_cap(t) PROVE CapsLockInv'
  BY <1>7 DEF ensure_cap
<1>8. CASE bd_zfs_close BY <1>8 DEF bd_zfs_close
<1>9. CASE Install BY <1>9 DEF Install
<1>10. CASE UNCHANGED zvars BY <1>10 DEF zvars
<1> QED
  BY <1>1, <1>2, <1>3, <1>4, <1>5, <1>6, <1>7, <1>8, <1>9, <1>10 DEF ZfsNext

LEMMA VersionStep == ZfsInv /\ [ZfsNext]_zvars => VersionInv'
<1> SUFFICES ASSUME ZfsInv, [ZfsNext]_zvars PROVE VersionInv'
  OBVIOUS
<1> USE ZfsAssumption, CapsFacts DEF ZfsInv, ZfsTypeOK, ZfsVersions, CapsLockInv, VersionInv, ZfsGoto, RunLabel, AfterProbe
<1>1. ASSUME NEW t \in ZfsUsers, ZfsCall(t) PROVE VersionInv'
  BY <1>1 DEF ZfsCall
<1>2. ASSUME NEW t \in ZfsUsers, NEW c \in Caps, CachedVersion(t, c) PROVE VersionInv'
  BY <1>2 DEF CachedVersion
<1>3. ASSUME NEW t \in ZfsUsers, NEW c \in Caps, RunVersion(t, c) PROVE VersionInv'
  BY <1>3 DEF RunVersion
<1>4. ASSUME NEW t \in ZfsUsers, NEW c \in Caps, VersionRead(t, c) PROVE VersionInv'
  BY <1>4 DEF VersionRead
<1>5. ASSUME NEW t \in ZfsUsers, StoreCaps(t) PROVE VersionInv'
  BY <1>5 DEF StoreCaps
<1>6. ASSUME NEW t \in ZfsUsers, StoreField(t) PROVE VersionInv'
  BY <1>6 DEF StoreField
<1>7. ASSUME NEW t \in ZfsUsers, ensure_cap(t) PROVE VersionInv'
  BY <1>7 DEF ensure_cap
<1>8. CASE bd_zfs_close BY <1>8 DEF bd_zfs_close
<1>9. CASE Install BY <1>9 DEF Install
<1>10. CASE UNCHANGED zvars BY <1>10 DEF zvars
<1> QED
  BY <1>1, <1>2, <1>3, <1>4, <1>5, <1>6, <1>7, <1>8, <1>9, <1>10 DEF ZfsNext

LEMMA SeenStep == ZfsInv /\ [ZfsNext]_zvars => SeenInv'
<1> SUFFICES ASSUME ZfsInv, [ZfsNext]_zvars PROVE SeenInv'
  OBVIOUS
<1> USE ZfsAssumption, CapsFacts DEF ZfsInv, ZfsTypeOK, ZfsVersions, VersionInv, SeenInv, Supported, ZfsGoto, RunLabel, AfterProbe
<1>1. ASSUME NEW t \in ZfsUsers, ZfsCall(t) PROVE SeenInv'
  BY <1>1 DEF ZfsCall
<1>2. ASSUME NEW t \in ZfsUsers, NEW c \in Caps, CachedVersion(t, c) PROVE SeenInv'
  BY <1>2 DEF CachedVersion
<1>3. ASSUME NEW t \in ZfsUsers, NEW c \in Caps, RunVersion(t, c) PROVE SeenInv'
  BY <1>3 DEF RunVersion
<1>4. ASSUME NEW t \in ZfsUsers, NEW c \in Caps, VersionRead(t, c) PROVE SeenInv'
  BY <1>4 DEF VersionRead
<1>5. ASSUME NEW t \in ZfsUsers, StoreCaps(t) PROVE SeenInv'
  BY <1>5 DEF StoreCaps
<1>6. ASSUME NEW t \in ZfsUsers, StoreField(t) PROVE SeenInv'
  BY <1>6 DEF StoreField
<1>7. ASSUME NEW t \in ZfsUsers, ensure_cap(t) PROVE SeenInv'
  BY <1>7 DEF ensure_cap
<1>8. CASE bd_zfs_close BY <1>8 DEF bd_zfs_close
<1>9. CASE Install BY <1>9 DEF Install
<1>10. CASE UNCHANGED zvars BY <1>10 DEF zvars
<1> QED
  BY <1>1, <1>2, <1>3, <1>4, <1>5, <1>6, <1>7, <1>8, <1>9, <1>10 DEF ZfsNext

LEMMA StoreStep == ZfsInv /\ [ZfsNext]_zvars => StoreInv'
<1> SUFFICES ASSUME ZfsInv, [ZfsNext]_zvars PROVE StoreInv'
  OBVIOUS
<1> USE ZfsAssumption, CapsFacts DEF ZfsInv, ZfsTypeOK, ZfsVersions, CapsLockInv, VersionInv, SeenInv, StoreInv, Supported, ZfsGoto, RunLabel, AfterProbe
<1>1. ASSUME NEW t \in ZfsUsers, ZfsCall(t) PROVE StoreInv'
  BY <1>1 DEF ZfsCall
<1>2. ASSUME NEW t \in ZfsUsers, NEW c \in Caps, CachedVersion(t, c) PROVE StoreInv'
  BY <1>2 DEF CachedVersion
<1>3. ASSUME NEW t \in ZfsUsers, NEW c \in Caps, RunVersion(t, c) PROVE StoreInv'
  BY <1>3 DEF RunVersion
<1>4. ASSUME NEW t \in ZfsUsers, NEW c \in Caps, VersionRead(t, c) PROVE StoreInv'
  BY <1>4 DEF VersionRead
<1>5. ASSUME NEW t \in ZfsUsers, StoreCaps(t) PROVE StoreInv'
  <2>3. unstored = {} /\ \A u \in ZfsUsers : zpc[u] # "storing"
    BY <1>5 DEF StoreCaps
  <2>1. CASE probed
    BY <1>5, <2>1, <2>3 DEF StoreCaps
  <2>2. CASE ~probed
    BY <1>5, <2>2, <2>3 DEF StoreCaps
  <2> QED
    BY <2>1, <2>2
<1>6. ASSUME NEW t \in ZfsUsers, StoreField(t) PROVE StoreInv'
  <2>1. PICK f \in unstored :
          /\ unstored' = unstored \ {f}
          /\ probed' = (probed \/ f = "probed")
          /\ caps' = IF f \in Caps THEN [caps EXCEPT ![f] = seen[t][f]] ELSE caps
    BY <1>6 DEF StoreField
  <2>2. \A u \in ZfsUsers : zpc[u] = "storing" <=> u = t
    BY <1>6 DEF StoreField
  <2>3. \A c \in Caps \ unstored' : caps'[c] = seen[t][c]
    BY <1>6, <2>1 DEF StoreField
  <2>4. probed' <=> "probed" \notin unstored'
    BY <1>6, <2>1 DEF StoreField
  <2>5. seen' = seen /\ installed' = installed /\ failures' = failures
    BY <1>6 DEF StoreField
  <2>6. failures = 0 => \A c \in Caps : seen[t][c] = Supported(c)
    BY <1>6 DEF StoreField
  <2>7. CASE unstored' = {}
    BY <1>6, <2>2, <2>3, <2>5, <2>6, <2>7 DEF StoreField
  <2>8. CASE unstored' # {}
    BY <1>6, <2>2, <2>3, <2>4, <2>5, <2>8 DEF StoreField
  <2> QED
    BY <2>7, <2>8
<1>7. ASSUME NEW t \in ZfsUsers, ensure_cap(t) PROVE StoreInv'
  BY <1>7 DEF ensure_cap
<1>8. CASE bd_zfs_close BY <1>8 DEF bd_zfs_close
<1>9. CASE Install BY <1>9 DEF Install
<1>10. CASE UNCHANGED zvars BY <1>10 DEF zvars
<1> QED
  BY <1>1, <1>2, <1>3, <1>4, <1>5, <1>6, <1>7, <1>8, <1>9, <1>10 DEF ZfsNext

LEMMA ZfsStepInv == ZfsInv /\ [ZfsNext]_zvars => ZfsInv'
BY ZfsTypeStep, CapsLockStep, VersionStep, SeenStep, StoreStep DEF ZfsInv

\* ZfsInv holds in every state of the threads that use the plugin.
THEOREM ZfsInvCorrect == ZfsSpec => []ZfsInv
BY ZfsInitInv, ZfsStepInv, PTL DEF ZfsSpec

\* probe_zfs_version has "zfs version" answer at most once before the plugin is
\* closed, for any number of threads.
THEOREM VersionOnceCorrect == ZfsSpec => []VersionOnce
<1>1. ZfsInv => VersionOnce
  BY DEF ZfsInv, VersionInv, VersionOnce
<1> QED
  BY <1>1, ZfsInvCorrect, PTL

\* runtime_caps, once stored, says what the installed version supports, for any
\* number of threads that probe it at once and any order its fields are
\* written in, unless "zfs version" has failed.
THEOREM CapsCorrect == ZfsSpec => []CapsWhenQuiet
<1>1. ZfsInv => CapsWhenQuiet
  BY ZfsAssumption DEF ZfsInv, ZfsTypeOK, CapsLockInv, StoreInv, CapsWhenQuiet
<1> QED
  BY <1>1, ZfsInvCorrect, PTL
=============================================================================
