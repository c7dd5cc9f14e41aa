---------------------------- MODULE MCComponents ----------------------------
(***************************************************************************)
(* The components that share no state, in one instance: the algorithms,    *)
(* loop devices, mounting for another user, jobs of lvmdbusd, writing a    *)
(* partition table and the capabilities of OpenZFS.  Nothing in one of     *)
(* them depends on another, so each behaviour is about one of them, which  *)
(* focus names; the others stay in their initial states.                   *)
(***************************************************************************)
EXTENDS MCAlgorithms, LoopSetup, MountAsUser, LvmDbusJob, PartLabel, ZfsCaps

VARIABLE focus
vars == <<avars, lvars, mvars, jvars, pvars, zvars, focus>>

Init ==
    /\ focus \in {"algorithms", "loop", "mount", "job", "label", "zfs"}
    /\ AskInit /\ LoopInit /\ MountInit /\ JobInit /\ PartInit /\ ZfsInit

OnLoop(A) == focus = "loop" /\ A /\ UNCHANGED <<avars, mvars, jvars, pvars, zvars, focus>>
OnMount(A) == focus = "mount" /\ A /\ UNCHANGED <<avars, lvars, jvars, pvars, zvars, focus>>
OnJob(A) == focus = "job" /\ A /\ UNCHANGED <<avars, lvars, mvars, pvars, zvars, focus>>

Next ==
    \/ focus = "algorithms" /\ AskNext /\ UNCHANGED <<lvars, mvars, jvars, pvars, zvars, focus>>
    \/ OnLoop(LoopNext)
    \/ OnMount(MountNext)
    \/ OnJob(JobNext)
    \/ focus = "label" /\ PartNext /\ UNCHANGED <<avars, lvars, mvars, jvars, zvars, focus>>
    \/ focus = "zfs" /\ ZfsNext /\ UNCHANGED <<avars, lvars, mvars, jvars, pvars, focus>>

\* The fairness of LoopSpec, MountSpec and JobSpec.
Fairness ==
    /\ \A t \in LoopUsers : WF_vars(OnLoop(LoopStep(t)))
    /\ WF_vars(OnMount(ParentStep)) /\ WF_vars(OnMount(ChildStep)) /\ WF_vars(OnMount(Continue))
    /\ WF_vars(OnJob(ClientStep)) /\ WF_vars(OnJob(Finish))

Spec == Init /\ [][Next]_vars /\ Fairness

\* The inductive invariants of the components, each with the types of its
\* variables: what every step of a loop setup, a mount by a child, a job, a
\* label write or a probe of OpenZFS finds and leaves.
IndInv == LoopInv /\ MountInv /\ JobInv /\ PartInv /\ ZfsInv
=============================================================================
