------------------------------ MODULE ExecCall ------------------------------
(***************************************************************************)
(* Running an external program (src/src/utils/exec.c): a call of           *)
(* bd_utils_exec_and_report_progress, bd_utils_exec_with_input,            *)
(* bd_utils_exec_and_capture_output or, through g_spawn_sync,              *)
(* bd_utils_exec_and_report_status_error, together with the child process  *)
(* and the three pipes between them.                                       *)
(*                                                                         *)
(* The caller writes all of the input, then polls both outputs, splits     *)
(* what it reads into lines, takes out the lines the progress extractor    *)
(* recognises, and finally waits for the child.  The child runs a script   *)
(* of reads, writes and an exit; pipes have a capacity.                    *)
(*                                                                         *)
(* A byte is "t" (text), "p" (what makes a line a progress line), "nl" or  *)
(* "nul"; a unit of input has no content.                                  *)
(***************************************************************************)
EXTENDS Integers, Sequences

CONSTANTS
    Calls,      \* the calls made: [api, script, input, extract]
    PipeSize,   \* capacity of a pipe
    Envs,       \* the processes a call is made in: see EnvType
    NULL        \* the C null pointer

Streams == {"out", "err"}
Bytes == {"t", "p", "nl", "nul"}
Signal == -1
Ops == [op : Streams, byte : Bytes] \cup [op : {"read", "readall"}]
         \cup [op : {"close"}, fd : Streams] \cup [op : {"exit"}, status : Int]
FaultKinds == {"spawn", "write", "poll", "read", "wait"}

\* The signal dispositions of the process and which system calls may fail.
EnvType == [sigpipe_ignored : BOOLEAN, sigchld_ignored : BOOLEAN,
            faults : SUBSET FaultKinds]

ASSUME ExecAssumption ==
    /\ \A c \in Calls :
        /\ c.api \in {"progress", "input", "capture", "status"}
        /\ c.script \in Seq(Ops)
        /\ c.script # <<>> /\ c.script[Len(c.script)].op = "exit"
        /\ \A i, j \in 1 .. Len(c.script) :
             i < j /\ c.script[i].op = "close" => c.script[j].op # c.script[i].fd
        /\ c.input \in Nat \cup {NULL}
        /\ c.input # NULL => c.api = "input"
        /\ c.extract \in BOOLEAN /\ (c.extract => c.api = "progress")
    /\ PipeSize \in Nat \ {0}
    /\ Envs \subseteq EnvType
    /\ NULL \notin {"SPAWN", "FAILED", "NOOUT"} /\ NULL \notin BOOLEAN

VARIABLES
    call, env,      \* the call, the process it is made in
    pc,             \* where the caller is
    fds,            \* the caller's open pipe ends
    left,           \* units of input not yet written
    pipe,           \* [out, err -> sequence of bytes, in -> number of units]
    revents,        \* what poll () said of each output
    last,           \* how the last read () ended
    rest,           \* read_buffer from read_buffer_pos on
    data,           \* the filtered output
    done,           \* out_done, err_done
    success,        \* the local success
    reports,        \* calls of the progress function so far
    status,         \* *proc_status
    error,          \* *error: NULL or its code
    message,        \* the output quoted in the message of *error
    ret,            \* the result; NULL before
    child,          \* [state, at, status]: the child and its place in the script
    wopen,          \* write ends the child still has open
    sent            \* history: all the child wrote

callerVars == <<pc, fds, left, revents, last, rest, data, done, success, reports,
                status, error, message, ret>>
childVars == <<child, wopen, sent>>
vars == <<call, env, pc, fds, left, pipe, revents, last, rest, data, done, success,
          reports, status, error, message, ret, child, wopen, sent>>

Both(x) == [s \in Streams |-> x]

\* Where the lines of an output are looked at, once it has been read.
LinesOf == [out |-> "out_lines", err |-> "err_lines"]

PCs == {"start", "write", "reap", "poll", "out", "out_lines", "err", "err_lines",
        "wait", "sync", "done", "killed"}

CallerTypeOK ==
    /\ call \in Calls /\ env \in Envs
    /\ pc \in PCs
    /\ fds \subseteq Streams \cup {"in"}
    /\ left \in Nat
    /\ revents \in [Streams -> SUBSET {"IN", "HUP"}]
    /\ last \in {"again", "eof", "error"}
    /\ done \in [Streams -> BOOLEAN]
    /\ success \in BOOLEAN
    /\ reports \in Seq({"started", "progress", "finished"})
    /\ status \in Int
    /\ error \in {NULL, "SPAWN", "FAILED", "NOOUT"}
    /\ ret \in BOOLEAN \cup {NULL}

PipeTypeOK ==
    /\ pipe \in [in : 0 .. PipeSize, out : Seq(Bytes), err : Seq(Bytes)]
    /\ \A s \in Streams : Len(pipe[s]) <= PipeSize

ChildTypeOK ==
    /\ child \in [state : {"none", "running", "zombie", "gone"}, at : Nat, status : Int]
    /\ child.at \in 1 .. Len(call.script)
    /\ wopen \subseteq Streams

TypeOK == CallerTypeOK /\ PipeTypeOK /\ ChildTypeOK

\* What g_spawn_sync makes of ECHILD is the library's business.
Init ==
    /\ call \in Calls /\ env \in Envs
    /\ call.api = "status" => ~env.sigchld_ignored
    /\ pc = "start"
    /\ fds = {}
    /\ left = 0
    /\ pipe = [in |-> 0, out |-> <<>>, err |-> <<>>]
    /\ revents = Both({}) /\ last = "again"
    /\ rest = Both(<<>>) /\ data = Both(<<>>) /\ done = Both(FALSE)
    /\ success = TRUE
    /\ reports = <<>>
    /\ status = 0
    /\ error = NULL /\ message = <<>>
    /\ ret = NULL
    /\ child = [state |-> "none", at |-> 1, status |-> 0]
    /\ wopen = {}
    /\ sent = Both(<<>>)

Return(ok, code, quoted) ==
    /\ pc' = "done"
    /\ ret' = ok
    /\ error' = code
    /\ message' = quoted

-----------------------------------------------------------------------------
(* Lines.                                                                  *)

Ends == {"nl", "nul"}

\* Where the lines of what was read end.
LineEnds(bytes) == {k \in 1 .. Len(bytes) : bytes[k] \in Ends}

Progress(line) == call.extract /\ \E k \in 1 .. Len(line) : line[k] = "p"

\* The string that a line is: g_strndup () stops at the NUL that may end it.
Text(line) == IF line[Len(line)] = "nul" THEN SubSeq(line, 1, Len(line) - 1) ELSE line

\* A progress line is reported and dropped, any other is kept.
Keep(s, line) ==
    IF Progress(line)
      THEN reports' = Append(reports, "progress") /\ UNCHANGED data
      ELSE data' = [data EXCEPT ![s] = @ \o Text(line)] /\ UNCHANGED reports

-----------------------------------------------------------------------------
(* The caller.                                                             *)

SpawnFails ==
    /\ pc = "start" /\ "spawn" \in env.faults
    /\ Return(FALSE, "SPAWN", <<>>)
    /\ UNCHANGED <<call, env, fds, left, pipe, revents, last, rest, data, done,
                   success, reports, status>>
    /\ UNCHANGED childVars

\* g_spawn_async_with_pipes and bd_utils_report_started.
Spawn ==
    /\ pc = "start" /\ call.api # "status"
    /\ child' = [child EXCEPT !.state = "running"]
    /\ wopen' = Streams
    /\ IF call.input = NULL
         THEN pc' = "poll" /\ fds' = Streams /\ UNCHANGED left
         ELSE pc' = "write" /\ fds' = Streams \cup {"in"} /\ left' = call.input
    /\ reports' = Append(reports, "started")
    /\ UNCHANGED <<call, env, pipe, revents, last, rest, data, done, success, status,
                   error, message, ret, sent>>

\* Mutant: the loop writes once more when everything has been written.
Write_over ==
    /\ pc = "write" /\ left >= 0 /\ child.state = "running"
    /\ pipe.in < PipeSize
    /\ pipe' = [pipe EXCEPT !.in = @ + 1]
    /\ left' = left - 1
    /\ UNCHANGED <<call, env, pc, fds, revents, last, rest, data, done, success,
                   reports, status, error, message, ret>>
    /\ UNCHANGED childVars

\* write () blocks while the pipe is full, and the loop goes on after a write
\* of less than everything.
Write ==
    /\ pc = "write" /\ left > 0 /\ child.state = "running"
    /\ pipe.in < PipeSize
    /\ pipe' = [pipe EXCEPT !.in = @ + 1]
    /\ left' = left - 1
    /\ UNCHANGED <<call, env, pc, fds, revents, last, rest, data, done, success,
                   reports, status, error, message, ret>>
    /\ UNCHANGED childVars

\* The child is gone and SIGPIPE has its default disposition.
WriteKills ==
    /\ pc = "write" /\ left > 0 /\ child.state # "running"
    /\ ~env.sigpipe_ignored
    /\ pc' = "killed"
    /\ UNCHANGED <<call, env, fds, left, pipe, revents, last, rest, data, done,
                   success, reports, status, error, message, ret>>
    /\ UNCHANGED childVars

\* Mutant: the output pipes are left open.
WriteFails_open ==
    /\ pc = "write" /\ left > 0
    /\ \/ child.state # "running" /\ env.sigpipe_ignored
       \/ "write" \in env.faults
    /\ reports' = Append(reports, "finished")
    /\ error' = "FAILED"
    /\ fds' = fds \ {"in"}
    /\ pc' = "reap"
    /\ UNCHANGED <<call, env, left, pipe, revents, last, rest, data, done, success,
                   status, message, ret>>
    /\ UNCHANGED childVars

\* EPIPE, or EINTR: the call is over but for the child.
WriteFails ==
    /\ pc = "write" /\ left > 0
    /\ \/ child.state # "running" /\ env.sigpipe_ignored
       \/ "write" \in env.faults
    /\ reports' = Append(reports, "finished")
    /\ error' = "FAILED"
    /\ fds' = {}
    /\ pc' = "reap"
    /\ UNCHANGED <<call, env, left, pipe, revents, last, rest, data, done, success,
                   status, message, ret>>
    /\ UNCHANGED childVars

\* Mutant: the write end stays open while the outputs are read.
CloseInput_kept ==
    /\ pc = "write" /\ left = 0
    /\ pc' = "poll"
    /\ UNCHANGED <<call, env, fds, left, pipe, revents, last, rest, data, done,
                   success, reports, status, error, message, ret>>
    /\ UNCHANGED childVars

CloseInput ==
    /\ pc = "write" /\ left = 0
    /\ fds' = fds \ {"in"}
    /\ pc' = "poll"
    /\ UNCHANGED <<call, env, left, pipe, revents, last, rest, data, done, success,
                   reports, status, error, message, ret>>
    /\ UNCHANGED childVars

Events(s) ==
    (IF pipe[s] # <<>> THEN {"IN"} ELSE {}) \cup (IF s \in wopen THEN {} ELSE {"HUP"})

\* poll () returns once either output has something to say; an output that is
\* done is polled still.
Poll ==
    /\ pc = "poll" /\ \E s \in Streams : Events(s) # {}
    /\ revents' = [s \in Streams |-> Events(s)]
    /\ pc' = "out"
    /\ UNCHANGED <<call, env, fds, left, pipe, last, rest, data, done, success,
                   reports, status, error, message, ret>>
    /\ UNCHANGED childVars

\* The loop is left with success = FALSE and both outputs are closed.
Abandon ==
    /\ reports' = Append(reports, "finished")
    /\ error' = "FAILED"
    /\ success' = FALSE
    /\ fds' = fds \ Streams
    /\ pc' = "wait"

PollFails ==
    /\ pc = "poll" /\ "poll" \in env.faults
    /\ Abandon
    /\ UNCHANGED <<call, env, left, pipe, revents, last, rest, data, done, status,
                   message, ret>>
    /\ UNCHANGED childVars

\* read () until there is nothing more; the child may write in between.
Read(s) ==
    /\ pc = s /\ ~done[s] /\ "IN" \in revents[s]
    /\ pipe[s] # <<>>
    /\ rest' = [rest EXCEPT ![s] = @ \o pipe[s]]
    /\ pipe' = [pipe EXCEPT ![s] = <<>>]
    /\ UNCHANGED <<call, env, pc, fds, left, revents, last, data, done, success,
                   reports, status, error, message, ret>>
    /\ UNCHANGED childVars

\* EAGAIN, end of file or an error ends the reading, if there was anything to
\* read at all.
ReadEnds(s) ==
    /\ pc = s /\ ~done[s]
    /\ \/ "IN" \notin revents[s] /\ last' = "again"
       \/ "IN" \in revents[s] /\ pipe[s] = <<>> /\ last' = IF s \in wopen THEN "again" ELSE "eof"
       \/ "IN" \in revents[s] /\ "read" \in env.faults /\ last' = "error"
    /\ pc' = LinesOf[s]
    /\ UNCHANGED <<call, env, fds, left, pipe, revents, rest, data, done, success,
                   reports, status, error, message, ret>>
    /\ UNCHANGED childVars

\* One pass of the loop over complete lines.
TakeLine(s) ==
    /\ pc = LinesOf[s]
    /\ \E k \in LineEnds(rest[s]) :
        /\ \A j \in LineEnds(rest[s]) : k <= j
        /\ Keep(s, SubSeq(rest[s], 1, k))
        /\ rest' = [rest EXCEPT ![s] = SubSeq(@, k + 1, Len(@))]
    /\ UNCHANGED <<call, env, pc, fds, left, pipe, revents, last, done, success,
                   status, error, message, ret>>
    /\ UNCHANGED childVars

\* The error of a read is reported after the lines read before it.
ReadFails(s) ==
    /\ pc = LinesOf[s] /\ LineEnds(rest[s]) = {} /\ last = "error"
    /\ Abandon
    /\ UNCHANGED <<call, env, left, pipe, revents, last, rest, data, done, status,
                   message, ret>>
    /\ UNCHANGED childVars

\* End of file: a read of 0 bytes, or POLLHUP among the events of the last poll.
Eof(s) == last = "eof" \/ "HUP" \in revents[s]

\* On to the other output, or out of the loop.
After(s, finished) ==
    IF s = "out" THEN pc' = "err" /\ UNCHANGED fds
    ELSE IF \A q \in Streams : finished[q] THEN pc' = "wait" /\ fds' = fds \ Streams
    ELSE pc' = "poll" /\ UNCHANGED fds

\* Mutant: a last line without a newline is forgotten.
ProcessFd_last(s) ==
    /\ pc = LinesOf[s] /\ LineEnds(rest[s]) = {} /\ last # "error"
    /\ done' = [done EXCEPT ![s] = Eof(s)]
    /\ After(s, done')
    /\ UNCHANGED <<call, env, left, pipe, revents, last, rest, data, reports, success,
                   status, error, message, ret>>
    /\ UNCHANGED childVars

\* At end of file what remains is a line as well.
ProcessFd(s) ==
    /\ pc = LinesOf[s] /\ LineEnds(rest[s]) = {} /\ last # "error"
    /\ done' = [done EXCEPT ![s] = Eof(s)]
    /\ IF Eof(s) /\ rest[s] # <<>> THEN Keep(s, rest[s]) ELSE UNCHANGED <<data, reports>>
    /\ After(s, done')
    /\ UNCHANGED <<call, env, left, pipe, revents, last, rest, success, status, error,
                   message, ret>>
    /\ UNCHANGED childVars

SkipFd(s) ==
    /\ pc = s /\ done[s]
    /\ After(s, done)
    /\ UNCHANGED <<call, env, left, pipe, revents, last, rest, data, done, success,
                   reports, status, error, message, ret>>
    /\ UNCHANGED childVars

\* waitpid () after a failed write; whatever it says is ignored.
Reap ==
    /\ pc = "reap"
    /\ \/ child.state = "zombie" /\ child' = [child EXCEPT !.state = "gone"]
       \/ child.state = "gone" /\ UNCHANGED child
       \/ "wait" \in env.faults /\ UNCHANGED child
    /\ Return(FALSE, error, <<>>)
    /\ UNCHANGED <<call, env, fds, left, pipe, revents, last, rest, data, done,
                   success, reports, status, wopen, sent>>

\* What is quoted in the error of a process that failed.
Quoted == IF data["err"] # <<>> THEN data["err"] ELSE data["out"]

\* The call was not a failure: "Completed", and for
\* bd_utils_exec_and_capture_output the test for an empty output.
Complete ==
    /\ reports' = Append(reports, "finished")
    /\ IF call.api = "capture" /\ data["out"] = <<>>
         THEN Return(FALSE, "NOOUT", data["err"])
         ELSE Return(TRUE, NULL, <<>>)

Fail(quoted) ==
    /\ reports' = Append(reports, "finished")
    /\ Return(FALSE, "FAILED", quoted)

\* Mutant: only the exit status is looked at, which is 0 after a signal.
Reaped_signal ==
    /\ child.state = "zombie"
    /\ child' = [child EXCEPT !.state = "gone"]
    /\ IF child.status \in {0, Signal} THEN Complete /\ status' = 0
       ELSE Fail(Quoted) /\ status' = child.status

\* waitpid () returned the child: killed (128 + signal), failed, or exited.
Reaped ==
    /\ child.state = "zombie"
    /\ child' = [child EXCEPT !.state = "gone"]
    /\ \/ child.status = Signal /\ Fail(<<>>) /\ status' = 128
       \/ child.status = 0 /\ Complete /\ status' = 0
       \/ child.status \notin {Signal, 0} /\ Fail(Quoted) /\ status' = child.status

\* ECHILD: with SIGCHLD ignored the kernel has reaped the child.
NoChild ==
    /\ child.state = "gone"
    /\ Complete
    /\ UNCHANGED <<child, status>>

\* Any other error of waitpid ().
WaitFails ==
    /\ "wait" \in env.faults
    /\ Fail(<<>>)
    /\ UNCHANGED <<child, status>>

Wait ==
    /\ pc = "wait" /\ success
    /\ Reaped \/ NoChild \/ WaitFails
    /\ UNCHANGED <<call, env, fds, left, pipe, revents, last, rest, data, done,
                   success, wopen, sent>>

\* The same waitpid () after a failure, which has been reported already.
WaitAfterFailure ==
    /\ pc = "wait" /\ ~success
    /\ \/ child.state = "zombie" /\ child' = [child EXCEPT !.state = "gone"]
       \/ child.state = "gone" /\ UNCHANGED child
       \/ "wait" \in env.faults /\ UNCHANGED child
    /\ Return(FALSE, error, <<>>)
    /\ UNCHANGED <<call, env, fds, left, pipe, revents, last, rest, data, done,
                   success, reports, status, wopen, sent>>

-----------------------------------------------------------------------------
(* bd_utils_exec_and_report_status_error: g_spawn_sync reads both outputs  *)
(* as they come and waits for the child.                                   *)

SpawnSync ==
    /\ pc = "start" /\ call.api = "status"
    /\ child' = [child EXCEPT !.state = "running"]
    /\ wopen' = Streams
    /\ fds' = Streams
    /\ pc' = "sync"
    /\ UNCHANGED <<call, env, left, pipe, revents, last, rest, data, done, success,
                   reports, status, error, message, ret, sent>>

SyncRead(s) ==
    /\ pc = "sync" /\ pipe[s] # <<>>
    /\ data' = [data EXCEPT ![s] = @ \o pipe[s]]
    /\ pipe' = [pipe EXCEPT ![s] = <<>>]
    /\ UNCHANGED <<call, env, pc, fds, left, revents, last, rest, done, success,
                   reports, status, error, message, ret>>
    /\ UNCHANGED childVars

\* g_spawn_check_wait_status: an abnormal end is an error of the call, a
\* status that is not 0 is one of the process.
SyncDone ==
    /\ pc = "sync" /\ child.state = "zombie"
    /\ \A s \in Streams : pipe[s] = <<>>
    /\ child' = [child EXCEPT !.state = "gone"]
    /\ fds' = {}
    /\ \/ child.status = Signal /\ Return(FALSE, "SPAWN", <<>>) /\ UNCHANGED status
       \/ child.status = 0 /\ Return(TRUE, NULL, <<>>) /\ status' = 0
       \/ child.status \notin {Signal, 0} /\ Return(FALSE, "FAILED", Quoted) /\ status' = child.status
    /\ UNCHANGED <<call, env, left, pipe, revents, last, rest, data, done, success,
                   reports, wopen, sent>>

-----------------------------------------------------------------------------
(* The child.                                                              *)

ThisOp == call.script[child.at]

Exited(code) ==
    /\ child' = [child EXCEPT !.state = IF env.sigchld_ignored THEN "gone" ELSE "zombie",
                              !.status = code]
    /\ wopen' = {}

Step == child' = [child EXCEPT !.at = @ + 1]

ChildWrite(s) ==
    /\ child.state = "running" /\ ThisOp.op = s
    /\ s \in fds /\ Len(pipe[s]) < PipeSize
    /\ pipe' = [pipe EXCEPT ![s] = Append(@, ThisOp.byte)]
    /\ sent' = [sent EXCEPT ![s] = Append(@, ThisOp.byte)]
    /\ Step
    /\ UNCHANGED <<call, env, wopen>> /\ UNCHANGED callerVars

\* SIGPIPE has its default disposition in the child.
ChildKilled(s) ==
    /\ child.state = "running" /\ ThisOp.op = s
    /\ s \notin fds
    /\ Exited(Signal)
    /\ UNCHANGED <<call, env, pipe, sent>> /\ UNCHANGED callerVars

\* A read of one unit, or of everything up to end of file.
ChildRead ==
    /\ child.state = "running" /\ ThisOp.op \in {"read", "readall"}
    /\ \/ /\ pipe.in > 0
          /\ pipe' = [pipe EXCEPT !.in = @ - 1]
          /\ IF ThisOp.op = "read" THEN Step ELSE UNCHANGED child
       \/ /\ pipe.in = 0 /\ "in" \notin fds
          /\ Step
          /\ UNCHANGED pipe
    /\ UNCHANGED <<call, env, wopen, sent>> /\ UNCHANGED callerVars

ChildClose ==
    /\ child.state = "running" /\ ThisOp.op = "close"
    /\ wopen' = wopen \ {ThisOp.fd}
    /\ Step
    /\ UNCHANGED <<call, env, pipe, sent>> /\ UNCHANGED callerVars

ChildExit ==
    /\ child.state = "running" /\ ThisOp.op = "exit"
    /\ Exited(ThisOp.status)
    /\ UNCHANGED <<call, env, pipe, sent>> /\ UNCHANGED callerVars

-----------------------------------------------------------------------------
Caller ==
    \/ SpawnFails \/ Spawn \/ SpawnSync
    \/ Write \/ WriteKills \/ WriteFails \/ CloseInput \/ Reap
    \/ Poll \/ PollFails
    \/ \E s \in Streams :
        Read(s) \/ ReadEnds(s) \/ TakeLine(s) \/ ReadFails(s) \/ ProcessFd(s) \/ SkipFd(s)
        \/ SyncRead(s)
    \/ Wait \/ WaitAfterFailure \/ SyncDone

Child ==
    \/ \E s \in Streams : ChildWrite(s) \/ ChildKilled(s)
    \/ ChildRead \/ ChildClose \/ ChildExit

Next == Caller \/ Child
Spec == Init /\ [][Next]_vars

\* Both processes are scheduled; the child's script is finite.
FairSpec == Spec /\ WF_vars(Caller) /\ WF_vars(Child)

-----------------------------------------------------------------------------
Returned == pc = "done"
Started == reports # <<>>

\* Places j and k of an output are in the same line.
Same(bytes, j, k) ==
    \A m \in 1 .. Len(bytes) :
        bytes[m] \in Ends => ~(j <= m /\ m < k) /\ ~(k <= m /\ m < j)

\* The bytes of an output that belong in the result: every byte but NUL that
\* is not in a progress line, if progress is extracted.
Wanted(extract, bytes, k) ==
    /\ bytes[k] # "nul"
    /\ extract => \A j \in 1 .. Len(bytes) : Same(bytes, j, k) => bytes[j] # "p"
WantedIn(extract, bytes, n) == {k \in 1 .. n : Wanted(extract, bytes, k)}

\* d has the bytes at the places W, all of them and in their order.
Picks(d, bytes, W) ==
    \E h \in [1 .. Len(d) -> W] :
        /\ \A m, n \in 1 .. Len(d) : m < n => h[m] < h[n]
        /\ \A k \in W : \E n \in 1 .. Len(d) : h[n] = k
        /\ \A n \in 1 .. Len(d) : d[n] = bytes[h[n]]

Filtered(extract, d, bytes) == Picks(d, bytes, WantedIn(extract, bytes, Len(bytes)))

\* However reads and writes interleave, a call that was not cut short by an I/O
\* error has collected all the child wrote, less progress lines and NULs; and
\* the error of a process that exited with a failure quotes its error output,
\* or its output if there is none, in full.
OutputExact ==
    /\ Returned /\ success /\ done = Both(TRUE) =>
         \A s \in Streams : Filtered(call.extract, data[s], sent[s])
    /\ Returned /\ error = "FAILED" /\ status \in 1 .. 127 /\ Started =>
         LET none == WantedIn(call.extract, sent["err"], Len(sent["err"])) = {}
         IN  Filtered(call.extract, message, sent[IF none THEN "out" ELSE "err"])

\* A started task is reported finished exactly once, and nothing after that.
ReportsPaired ==
    /\ \A i \in DOMAIN reports :
         (reports[i] = "started" <=> i = 1) /\ (reports[i] = "finished" => i = Len(reports))
    /\ Returned /\ Started => reports[Len(reports)] = "finished"

\* The result is FALSE exactly when *error is set.
ErrorIffFalse == Returned => (ret = FALSE <=> error # NULL)

\* A call leaves neither an open pipe nor an unreaped child behind, unless
\* waitpid () itself failed.
NothingLeft ==
    Returned => fds = {} /\ ("wait" \notin env.faults => child.state \in {"none", "gone"})

\* In a process that does not ignore SIGCHLD a call returns TRUE only if the
\* child exited with status 0: it was neither killed nor did it fail.
SuccessMeansExitZero ==
    Returned /\ ret = TRUE /\ ~env.sigchld_ignored => child.status = 0

\* Whatever fails, the result, the error and the progress reports tell the same
\* story, and it is the child's.
HonestEnd == ErrorIffFalse /\ SuccessMeansExitZero /\ ReportsPaired

\* "Returns: whether the @argv was successfully executed (no error and exit
\* code 0) or not", which says nothing of SIGCHLD.
SuccessAsDocumented == Returned /\ ret = TRUE => child.status = 0

\* Caller and child both wait for the other to read.
Embrace ==
    /\ pc = "write" /\ left > 0 /\ pipe.in = PipeSize
    /\ child.state = "running"
    /\ \E s \in Streams : ThisOp.op = s /\ Len(pipe[s]) = PipeSize

\* Every call ends, or the caller is killed by SIGPIPE, unless the child fills
\* an output pipe before it has read the input: the input is written in full
\* before the first output is read.
CallEnds == <>(pc \in {"done", "killed"} \/ Embrace)

-----------------------------------------------------------------------------
(* The inductive invariant.                                                *)

\* The task is reported as started and not yet as finished; as both.
Begun(r) ==
    /\ r # <<>> /\ r[1] = "started"
    /\ \A i \in 2 .. Len(r) : r[i] = "progress"
Finished(r) ==
    /\ Len(r) > 1 /\ r[1] = "started" /\ r[Len(r)] = "finished"
    /\ \A i \in 2 .. Len(r) - 1 : r[i] = "progress"

\* Which pipe ends the caller has open where.
FdsInv ==
    /\ pc \in {"start", "reap", "wait", "done"} => fds = {}
    /\ pc = "write" => fds = Streams \cup {"in"}
    /\ pc \in {"poll", "out", "out_lines", "err", "err_lines", "sync"} => fds = Streams

\* What has been reported and found wrong where: success is FALSE, the error is
\* set and the end reported together.
ReportInv ==
    /\ pc \in {"start", "sync"} => reports = <<>> /\ success /\ error = NULL
    /\ pc \in {"write", "poll", "out", "out_lines", "err", "err_lines", "killed"} =>
         Begun(reports) /\ success /\ error = NULL
    /\ pc = "reap" => Finished(reports) /\ error = "FAILED"
    /\ pc = "wait" => IF success THEN Begun(reports) /\ error = NULL ELSE Finished(reports) /\ error = "FAILED"
    /\ pc = "done" => (reports = <<>> \/ Finished(reports)) /\ (ret = FALSE <=> error # NULL)

\* The child is reaped by the call, or by the kernel where SIGCHLD is ignored.
ReapInv ==
    /\ pc = "start" => child.state = "none"
    /\ child.state = "none" => pc \in {"start", "done"}
    /\ call.api = "status" => ~env.sigchld_ignored
    /\ child.state = "gone" /\ pc # "done" => env.sigchld_ignored
    /\ pc = "done" /\ "wait" \notin env.faults => child.state \in {"none", "gone"}
    /\ pc = "done" /\ ret = TRUE =>
         child.state = "gone" /\ (env.sigchld_ignored \/ child.status = 0)

BytesTypeOK == {rest, data, sent} \subseteq [Streams -> Seq(Bytes)]

\* A child that runs has open what its script has not closed.
ClosedInv ==
    child.state = "running" =>
        \A s \in Streams \ wopen :
            \E i \in 1 .. child.at - 1 : call.script[i].op = "close" /\ call.script[i].fd = s

\* After a hang-up nothing is written, and what the read () after it left is
\* nothing: HUP without IN means an empty pipe.
EventsInv ==
    /\ pc \in Streams \cup {"out_lines", "err_lines"} =>
         \A s \in Streams : "HUP" \in revents[s] =>
             s \notin wopen /\ ("IN" \notin revents[s] => pipe[s] = <<>>)
    /\ \A s \in Streams : pc = LinesOf[s] /\ last # "error" /\ Eof(s) =>
         s \notin wopen /\ pipe[s] = <<>>
    /\ \A s \in Streams : pc = LinesOf[s] => ~done[s]

\* How much of an output has been taken line by line.
Taken(s) == Len(sent[s]) - Len(rest[s]) - Len(pipe[s])

\* What was written is what was taken, whole lines of it, what waits in the
\* buffer and what waits in the pipe.
StreamInv(s) ==
    IF done[s]
    THEN s \notin wopen /\ pipe[s] = <<>> /\ Filtered(call.extract, data[s], sent[s])
    ELSE /\ Taken(s) \in Nat
         /\ Taken(s) = 0 \/ sent[s][Taken(s)] \in Ends
         /\ \A i \in 1 .. Len(rest[s]) : sent[s][Taken(s) + i] = rest[s][i]
         /\ \A i \in 1 .. Len(pipe[s]) : sent[s][Taken(s) + Len(rest[s]) + i] = pipe[s][i]
         /\ Picks(data[s], sent[s], WantedIn(call.extract, sent[s], Taken(s)))
StreamsInv == call.api # "status" => \A s \in Streams : StreamInv(s)

\* The status of a failed process comes with its output, read to the end.
QuoteInv ==
    /\ call.api = "status" => pc \in {"start", "sync", "done"} /\ done = Both(FALSE) /\ reports = <<>>
    /\ pc = "sync" => call.api = "status"
    /\ pc = "start" => done = Both(FALSE)
    /\ pc = "wait" /\ success => done = Both(TRUE)
    /\ pc # "done" => status = 0
    /\ pc = "done" /\ reports # <<>> /\ status \in 1 .. 127 /\ error = "FAILED" =>
         done = Both(TRUE) /\ message = Quoted

OutputInv == BytesTypeOK /\ ClosedInv /\ EventsInv /\ StreamsInv /\ QuoteInv

\* Type correctness, the pipe ends, the reports, the child and the bytes between
\* them: implies HonestEnd, NothingLeft and OutputExact.
IndInv == TypeOK /\ FdsInv /\ ReportInv /\ ReapInv /\ OutputInv
=============================================================================
