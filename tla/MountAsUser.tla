---------------------------- MODULE MountAsUser ----------------------------
(***************************************************************************)
(* run_as_user of src/src/plugins/fs/mount.c: bd_fs_mount and              *)
(* bd_fs_unmount for another user.  A child process takes on the identity  *)
(* and does the work; what it has to say comes back as its exit status, as *)
(* the text of an error in a pipe, or not at all when a signal ends it.    *)
(* The child may be stopped and continued, and waiting for it may fail.    *)
(*                                                                         *)
(* "mounted" stands for the effect of either function.                     *)
(***************************************************************************)
EXTENDS Naturals

CONSTANTS MaxStops   \* bound: how often the child is stopped

ASSUME MountAssumption == MaxStops \in Nat

VARIABLES
    parent,   \* "idle" before the call, "ret" after it
    child,    \* what the child does next: "none" before the fork
    stopped,  \* the child is stopped
    stops,    \* how often it has been
    news,     \* change of the child that waitpid has not reported
    task,     \* what the caller asks for: the identity that has to change
    identity, \* what the child has changed
    mounted,
    code,     \* the child's error, 0 for none; its exit status in the end
    pipefd,   \* what is in the pipe: the error the text is about, 0 for none
    writers,  \* who has the pipe open for writing
    mret,     \* what run_as_user returns, and the code of its error
    fault     \* waitpid failed, a signal ended the child, or the text was lost

mvars == <<parent, child, stopped, stops, news, task, identity, mounted, code,
           pipefd, writers, mret, fault>>
childs == <<child, stopped, stops, identity, mounted, code>>

\* fs.h: the codes that do_mount and do_unmount use, and the one for a pipe
\* that cannot be written.
FAIL == 3
PIPE == 5
AUTH == 9
UNKNOWN_FS == 12

MountTypeOK ==
    /\ parent \in {"idle", "start", "forked", "read", "ret"}
    /\ child \in {"none", "gid", "uid", "func", "write", "exit", "exited", "signaled"}
    /\ stopped \in BOOLEAN /\ stops \in 0 .. MaxStops
    /\ news \in {"nothing", "stopped", "continued", "exited", "signaled"}
    /\ task \subseteq {"uid", "gid"} /\ identity \subseteq task
    /\ mounted \in BOOLEAN
    /\ code \in {0, FAIL, PIPE, AUTH, UNKNOWN_FS}
    /\ pipefd \in {0, FAIL, AUTH, UNKNOWN_FS}
    /\ writers \subseteq {"parent", "child"}
    /\ mret \in [val : {"none", "TRUE", "FALSE"}, code : {0, FAIL, AUTH}]
    /\ fault \subseteq {"start", "wait", "signal", "text"}

MountInit ==
    /\ parent = "idle" /\ child = "none"
    /\ stopped = FALSE /\ stops = 0 /\ news = "nothing"
    /\ task = {}
    /\ identity = {} /\ mounted = FALSE
    /\ code = 0 /\ pipefd = 0 /\ writers = {}
    /\ mret = [val |-> "none", code |-> 0]
    /\ fault = {}

-----------------------------------------------------------------------------
(* The child.                                                              *)

Alive == child \notin {"none", "exited", "signaled"}
Runs(at) == child = at /\ ~stopped

\* set_rgid and set_ruid, each only if that identity differs.
Become(id, next) ==
    /\ Runs(id)
    /\ \/ /\ child' = next
          /\ identity' = identity \cup ({id} \cap task)
          /\ UNCHANGED code
       \/ /\ id \in task
          /\ child' = "write" /\ code' = FAIL
          /\ UNCHANGED identity
    /\ UNCHANGED <<parent, stopped, stops, news, task, mounted, pipefd, writers, mret, fault>>
SetGid == Become("gid", "uid")
SetUid == Become("uid", "func")

Func ==
    /\ Runs("func")
    /\ \/ mounted' = TRUE /\ child' = "exit" /\ UNCHANGED code
       \/ code' \in {FAIL, AUTH, UNKNOWN_FS} /\ child' = "write" /\ UNCHANGED mounted
    /\ UNCHANGED <<parent, stopped, stops, news, task, identity, pipefd, writers, mret, fault>>

\* The text of the error goes into the pipe; if that fails, the status says so.
Write ==
    /\ Runs("write")
    /\ parent # "ret"
    /\ child' = "exit"
    /\ \/ pipefd' = code /\ UNCHANGED <<code, fault>>
       \/ code' = PIPE /\ fault' = fault \cup {"text"} /\ UNCHANGED pipefd
    /\ UNCHANGED <<parent, stopped, stops, news, task, identity, mounted, writers, mret>>

Dies(how) ==
    /\ child' = how /\ news' = how
    /\ stopped' = FALSE
    /\ writers' = writers \ {"child"}
    /\ UNCHANGED <<parent, stops, task, identity, mounted, code, pipefd, mret>>

Exit == Runs("exit") /\ Dies("exited") /\ UNCHANGED fault

-----------------------------------------------------------------------------
(* Signals to the child, writing to a pipe that nobody reads included.     *)

Kill == Alive /\ Dies("signaled") /\ fault' = fault \cup {"signal"}

Stop ==
    /\ Alive /\ ~stopped /\ stops < MaxStops
    /\ stopped' = TRUE /\ stops' = stops + 1 /\ news' = "stopped"
    /\ UNCHANGED <<parent, child, task, identity, mounted, code, pipefd, writers, mret, fault>>

Continue ==
    /\ stopped
    /\ stopped' = FALSE /\ news' = "continued"
    /\ UNCHANGED <<parent, child, stops, task, identity, mounted, code, pipefd, writers, mret, fault>>

-----------------------------------------------------------------------------
(* The parent.                                                             *)

MountReturn(val, c) == parent' = "ret" /\ mret' = [val |-> val, code |-> c]

\* bd_fs_mount or bd_fs_unmount with another user, group or both.
MountCall ==
    /\ parent = "idle" /\ parent' = "start"
    /\ task' \in SUBSET {"uid", "gid"} \ {{}}
    /\ UNCHANGED <<childs, news, pipefd, writers, mret, fault>>

\* Mutant: the parent keeps its end for writing.
Fork_open ==
    /\ parent = "start"
    /\ parent' = "forked" /\ child' = "gid"
    /\ writers' = {"parent", "child"}
    /\ UNCHANGED <<stopped, stops, news, task, identity, mounted, code, pipefd, mret, fault>>

\* The checks, the pipe and the fork; each of the parent and the child closes
\* the end it does not use.
Fork ==
    /\ parent = "start"
    /\ \/ /\ parent' = "forked" /\ child' = "gid"
          /\ writers' = {"child"}
          /\ UNCHANGED <<mret, fault>>
       \/ /\ MountReturn("FALSE", FAIL)
          /\ fault' = fault \cup {"start"}
          /\ UNCHANGED <<child, writers>>
    /\ UNCHANGED <<stopped, stops, news, task, identity, mounted, code, pipefd>>

\* Mutant: a child that has ended has done its work.
Wait_any ==
    /\ parent = "forked" /\ news # "nothing"
    /\ news' = "nothing"
    /\ IF news \in {"exited", "signaled"} THEN MountReturn("TRUE", 0) ELSE UNCHANGED <<parent, mret>>
    /\ UNCHANGED <<childs, task, pipefd, writers, fault>>

\* Mutant: whatever waitpid reports is the end.
Wait_once ==
    /\ parent = "forked" /\ news # "nothing"
    /\ news' = "nothing"
    /\ IF news = "exited" /\ code = 0 THEN MountReturn("TRUE", 0) ELSE MountReturn("FALSE", FAIL)
    /\ UNCHANGED <<childs, task, pipefd, writers, fault>>

\* waitpid reports stops and continuations too, which are waited out.
Wait ==
    /\ parent = "forked" /\ news # "nothing"
    /\ news' = "nothing"
    /\ \/ news = "exited" /\ code = 0 /\ MountReturn("TRUE", 0)
       \/ news = "exited" /\ code = PIPE /\ MountReturn("FALSE", FAIL)
       \/ news = "exited" /\ code \notin {0, PIPE} /\ parent' = "read" /\ UNCHANGED mret
       \/ news = "signaled" /\ MountReturn("FALSE", FAIL)
       \/ news \in {"stopped", "continued"} /\ UNCHANGED <<parent, mret>>
    /\ UNCHANGED <<childs, task, pipefd, writers, fault>>

\* waitpid fails: interrupted, or the child was reaped by somebody else.
WaitFails ==
    /\ parent = "forked"
    /\ MountReturn("FALSE", FAIL)
    /\ fault' = fault \cup {"wait"}
    /\ UNCHANGED <<childs, news, task, pipefd, writers>>

\* g_io_channel_read_to_end, which needs the pipe closed by all its writers,
\* and g_io_channel_shutdown.  Codes above AUTH do not get through.
Read ==
    /\ parent = "read"
    /\ \/ /\ writers = {}
          /\ MountReturn("FALSE", IF code > AUTH THEN FAIL ELSE code)
          /\ UNCHANGED fault
       \/ MountReturn("FALSE", FAIL) /\ fault' = fault \cup {"text"}
    /\ UNCHANGED <<childs, news, task, pipefd, writers>>

-----------------------------------------------------------------------------
ParentStep == Fork \/ Wait \/ (Read /\ writers = {})
ChildStep == SetGid \/ SetUid \/ Func \/ Write \/ Exit
MountNext ==
    \/ MountCall \/ Fork \/ Wait \/ WaitFails \/ Read
    \/ SetGid \/ SetUid \/ Func \/ Write \/ Exit
    \/ Kill \/ Stop \/ Continue

\* A child that is stopped is continued some time.
MountFairness == WF_mvars(ParentStep) /\ WF_mvars(ChildStep) /\ WF_mvars(Continue)
MountSpec == MountInit /\ [][MountNext]_mvars /\ MountFairness

-----------------------------------------------------------------------------
\* What run_as_user says is what the child did: TRUE means that the work is
\* done, with the identity the caller asked for; FALSE means that it is not
\* and the code is the one do_mount gave, unless that is above BD_FS_ERROR_AUTH
\* or a fault kept the parent from learning it.
SameOutcome ==
    /\ mret.val = "TRUE" => mounted /\ identity = task
    /\ mret.val = "FALSE" /\ fault = {} =>
         /\ ~mounted
         /\ pipefd # 0 /\ mret.code = (IF pipefd > AUTH THEN FAIL ELSE pipefd)

\* The child has not outlived the call, and has been waited for, unless waiting
\* failed: stops and continuations do not make the parent give up.
ChildReaped ==
    parent = "ret" /\ "wait" \notin fault => child \in {"none", "exited", "signaled"} /\ news = "nothing"

\* The call returns, whatever the child is stopped at and whatever is in the
\* pipe.
MountReturns == parent = "start" ~> parent = "ret"

-----------------------------------------------------------------------------
(* The inductive invariant.                                                *)

\* What the child has done is told by where it is, also once it has exited.
ChildInv ==
    /\ child \in {"none", "gid"} => identity = {}
    /\ child = "uid" => identity = {"gid"} \cap task
    /\ child = "func" => identity = task
    /\ child \in {"none", "gid", "uid", "func"} => code = 0 /\ ~mounted /\ pipefd = 0
    /\ child = "write" => code \in {FAIL, AUTH, UNKNOWN_FS} /\ ~mounted /\ pipefd = 0
    /\ child \in {"exit", "exited"} =>
         \/ code = 0 /\ mounted /\ identity = task
         \/ code = PIPE /\ ~mounted /\ "text" \in fault
         \/ code \in {FAIL, AUTH, UNKNOWN_FS} /\ ~mounted /\ pipefd = code
    /\ child = "signaled" => "signal" \in fault

\* waitpid has not been told of the end of a child before the parent has seen
\* it, and of nothing while there is no child.
NewsInv ==
    /\ child = "none" => news = "nothing"
    /\ Alive => news \in {"nothing", "stopped", "continued"}
    /\ ~Alive => ~stopped
    /\ parent = "forked" /\ child \in {"exited", "signaled"} => news = child
    /\ parent \in {"idle", "start"} => child = "none"
    /\ parent = "forked" => child # "none"
    /\ parent = "read" => child = "exited" /\ code \notin {0, PIPE} /\ news = "nothing"

\* What the parent has returned, and from what it knew it.
ReturnInv ==
    /\ mret.val = "none" <=> parent # "ret"
    /\ mret.val = "TRUE" => child = "exited" /\ code = 0
    /\ mret.val = "FALSE" /\ fault = {} =>
         child = "exited" /\ code \notin {0, PIPE} /\ mret.code = (IF code > AUTH THEN FAIL ELSE code)
    /\ parent = "ret" /\ "wait" \notin fault =>
         child \in {"none", "exited", "signaled"} /\ news = "nothing"

\* Type correctness, the child's progress, what waitpid knows of it and what
\* the parent made of that: implies SameOutcome and ChildReaped.
MountInv == MountTypeOK /\ ChildInv /\ NewsInv /\ ReturnInv
=============================================================================
