----------------------------- MODULE LvmDbusJob -----------------------------
(***************************************************************************)
(* call_lvm_method and call_lvm_method_sync of                             *)
(* src/src/plugins/lvm/lvm-dbus.c: a method of lvmdbusd is called and, if  *)
(* it takes longer than a second, becomes a job that is polled until it is *)
(* complete.  A method answers with an object and a job ("oo") or with a   *)
(* job only ("o"), each of which may be none.                              *)
(*                                                                         *)
(* The daemon, which is not part of the library, does the work of one      *)
(* call, may leave a call unanswered, and may go away and come back        *)
(* without the job at any time.                                            *)
(***************************************************************************)
EXTENDS Naturals

CONSTANTS MaxCrashes   \* bound: how often the daemon goes away

ASSUME JobAssumption == MaxCrashes \in Nat

VARIABLES
    jpc,      \* where the caller is
    method,   \* "oo" or "o"
    up,       \* lvmdbusd runs
    crashes,
    work,     \* what becomes of the work: "no", "asked", "going", "done", "failed"
    job,      \* the job object: "none", "running", "complete"
    reply,    \* to the method call
    finished, \* bd_utils_report_finished calls
    jret,     \* what call_lvm_method_sync returns
    lost      \* a call of the client had no answer, or none it could read

jvars == <<jpc, method, up, crashes, work, job, reply, finished, jret, lost>>
client == <<jpc, method, finished, jret, lost>>
daemon == <<up, crashes, work, job, reply>>

JobTypeOK ==
    /\ jpc \in {"idle", "start", "called", "poll", "percent", "result", "geterror",
               "remove", "ret"}
    /\ method \in {"oo", "o"}
    /\ up \in BOOLEAN /\ crashes \in 0 .. MaxCrashes
    /\ work \in {"no", "asked", "going", "done", "failed"}
    /\ job \in {"none", "running", "complete"}
    /\ reply \in {"none", "object", "job", "nothing", "error", "no_reply", "unreadable"}
    /\ finished \in 0 .. 1
    /\ jret \in {"none", "TRUE", "FALSE"} /\ lost \in BOOLEAN

JobInit ==
    /\ jpc = "idle" /\ method = "o"
    /\ up = TRUE /\ crashes = 0
    /\ work = "no" /\ job = "none" /\ reply = "none"
    /\ finished = 0 /\ jret = "none" /\ lost = FALSE

-----------------------------------------------------------------------------
(* The daemon.                                                             *)

TakeUp ==
    /\ up /\ work = "asked"
    /\ work' = "going"
    /\ UNCHANGED <<up, crashes, job, reply, client>>

\* The work ends, within the second or as a job.  A method that fails in time
\* answers with an error; an "oo" method that worked may have no object to name.
Finish ==
    /\ up /\ work = "going"
    /\ work' \in {"done", "failed"}
    /\ IF job = "running"
       THEN job' = "complete" /\ UNCHANGED reply
       ELSE /\ UNCHANGED job
            /\ \/ reply' = "unreadable"
               \/ work' = "failed" /\ reply' = "error"
               \/ work' = "done" /\ reply' = "nothing"
               \/ work' = "done" /\ method = "oo" /\ reply' = "object"
    /\ UNCHANGED <<up, crashes, client>>

\* After a second the answer is a job.
BecomeJob ==
    /\ up /\ work = "going" /\ reply = "none"
    /\ job' = "running" /\ reply' = "job"
    /\ UNCHANGED <<up, crashes, work, client>>

\* The daemon goes away; what it had begun may be done all the same.
Crash ==
    /\ up /\ crashes < MaxCrashes
    /\ up' = FALSE /\ crashes' = crashes + 1
    /\ job' = "none"
    /\ reply' = IF reply = "none" /\ jpc = "called" THEN "no_reply" ELSE reply
    /\ \/ work = "going" /\ work' \in {"done", "failed"}
       \/ work = "asked" /\ work' = "no"
       \/ work \notin {"going", "asked"} /\ UNCHANGED work
    /\ UNCHANGED client

Restart == ~up /\ up' = TRUE /\ UNCHANGED <<crashes, work, job, reply, client>>

-----------------------------------------------------------------------------
(* The caller.                                                             *)

ReturnJob(val) == jpc' = "ret" /\ jret' = val /\ finished' = finished + 1
GoOn(label) == jpc' = label /\ UNCHANGED <<finished, jret, lost>>
Unanswered == ReturnJob("FALSE") /\ lost' = TRUE

JobCall ==
    /\ jpc = "idle" /\ jpc' = "start"
    /\ method' \in {"oo", "o"}
    /\ UNCHANGED <<daemon, finished, jret, lost>>

\* check_dbus_deps may fail; without the daemon the call does.
call_lvm_method ==
    /\ jpc = "start"
    /\ \/ up /\ GoOn("called") /\ work' = "asked"
       \/ Unanswered /\ UNCHANGED work
    /\ UNCHANGED <<up, crashes, job, reply, method>>

\* An "oo" method has answered with neither an object nor a job.
NoObjectNoJob == method = "oo" /\ reply = "nothing"

\* An object, or for an "o" method no job, is success; a job is waited for;
\* neither object nor job is a failure.  For a daemon that went away the bus
\* answers with an error.
Answered ==
    /\ jpc = "called" /\ reply # "none"
    /\ \/ reply = "object" /\ ReturnJob("TRUE") /\ UNCHANGED lost
       \/ reply = "nothing" /\ method = "o" /\ ReturnJob("TRUE") /\ UNCHANGED lost
       \/ NoObjectNoJob /\ ReturnJob("FALSE") /\ UNCHANGED lost
       \/ reply = "job" /\ GoOn("poll")
       \/ reply = "error" /\ ReturnJob("FALSE") /\ UNCHANGED lost
       \/ reply \in {"no_reply", "unreadable"} /\ Unanswered
    /\ UNCHANGED <<daemon, method>>

\* METHOD_CALL_TIMEOUT runs out.
TimesOut ==
    /\ jpc = "called" /\ reply = "none"
    /\ Unanswered
    /\ UNCHANGED <<daemon, method>>

\* Mutant: an error is taken for "not yet".
Poll_patient ==
    /\ jpc = "poll"
    /\ GoOn(IF job = "complete" THEN "result" ELSE "percent")
    /\ UNCHANGED <<daemon, method>>

\* The "Complete" property, after PROGRESS_WAIT.  An error ends the waiting.
Poll ==
    /\ jpc = "poll"
    /\ \/ job = "complete" /\ GoOn("result")
       \/ job = "running" /\ GoOn("percent")
       \/ Unanswered
    /\ UNCHANGED <<daemon, method>>

\* The "Percent" property; not getting it is no error.
Percent ==
    /\ jpc = "percent"
    /\ GoOn("poll")
    /\ UNCHANGED <<daemon, method>>

\* Mutant: a job that is complete has worked.
Result_done ==
    /\ jpc = "result"
    /\ \/ job = "complete" /\ GoOn("remove")
       \/ Unanswered
    /\ UNCHANGED <<daemon, method>>

\* The "Result" property: an "oo" method that worked may have made an object.
\* Without one the error code tells.
Result ==
    /\ jpc = "result"
    /\ \/ job = "complete" /\ method = "oo" /\ work = "done" /\ GoOn("remove")
       \/ job = "complete" /\ GoOn("geterror")
       \/ Unanswered
    /\ UNCHANGED <<daemon, method>>

GetError ==
    /\ jpc = "geterror"
    /\ \/ job = "complete" /\ work = "done" /\ GoOn("remove")
       \/ job = "complete" /\ work = "failed" /\ ReturnJob("FALSE") /\ UNCHANGED lost
       \/ Unanswered
    /\ UNCHANGED <<daemon, method>>

\* The job object is removed; that it cannot be is ignored.
RemoveJob ==
    /\ jpc = "remove"
    /\ ReturnJob("TRUE")
    /\ job' = "none"
    /\ UNCHANGED <<up, crashes, work, reply, method, lost>>

-----------------------------------------------------------------------------
ClientStep ==
    \/ call_lvm_method \/ Answered \/ TimesOut \/ Poll \/ Percent \/ Result
    \/ GetError \/ RemoveJob

JobNext ==
    \/ JobCall \/ call_lvm_method \/ Answered \/ TimesOut \/ Poll \/ Percent \/ Result
    \/ GetError \/ RemoveJob
    \/ TakeUp \/ Finish \/ BecomeJob \/ Crash \/ Restart

\* The caller runs, its calls time out, and a command of LVM that is running
\* ends.
JobFairness == WF_jvars(ClientStep) /\ WF_jvars(Finish)
JobSpec == JobInit /\ [][JobNext]_jvars /\ JobFairness

-----------------------------------------------------------------------------
\* What call_lvm_method_sync returns is what became of the work: TRUE only if
\* it was done, and FALSE only if it was not, unless a call of the client went
\* unanswered and it could not know, or an "oo" method answered at once with
\* neither an object nor a job, which the code takes for a failure (the same
\* news from a job it takes for success).  Its progress is reported as finished
\* exactly once, on every way out.
JobOutcome ==
    /\ finished = (IF jpc = "ret" THEN 1 ELSE 0)
    /\ jret = "TRUE" => work = "done"
    /\ jret = "FALSE" /\ ~lost => work = "failed" \/ NoObjectNoJob

\* The call ends although the job is polled without a limit: a daemon that went
\* away takes its job along, and asking for it then fails.
JobReturns == jpc = "start" ~> jpc = "ret"

-----------------------------------------------------------------------------
(* The inductive invariant.                                                *)

\* What the daemon has said about the work is true and stays so.
DaemonInv ==
    /\ reply \in {"object", "nothing"} => work = "done"
    /\ reply = "error" => work = "failed"
    /\ job = "running" => work = "going"
    /\ job = "complete" => work \in {"done", "failed"}
    /\ work \in {"no", "asked"} => job = "none" /\ reply \in {"none", "no_reply"}

\* What the client knows of the work from where it is.
ClientInv ==
    /\ jpc \in {"idle", "start"} => work = "no" /\ ~lost
    /\ jpc = "remove" => work = "done"
    /\ jret = "none" <=> jpc # "ret"

\* Type correctness, an honest daemon and an honest client: implies JobOutcome.
JobInv == JobTypeOK /\ DaemonInv /\ ClientInv /\ JobOutcome
=============================================================================
