----------------------------- MODULE MCExecCall -----------------------------
(***************************************************************************)
(* Children that exercise every branch of a call: a filter, a program that *)
(* fails, one that ignores its input, one that talks before it listens,    *)
(* one that is killed and one that closes an output early.                 *)
(***************************************************************************)
EXTENDS ExecCall

Out(b) == [op |-> "out", byte |-> b]
Err(b) == [op |-> "err", byte |-> b]
Read1 == [op |-> "read"]
ReadAll == [op |-> "readall"]
Close(f) == [op |-> "close", fd |-> f]
Exit(c) == [op |-> "exit", status |-> c]

Filter == <<ReadAll, Out("t"), Out("nl"), Out("p"), Out("nul"), Out("t"), Exit(0)>>
Failing == <<Err("p"), Out("t"), Out("nul"), Err("nl"), Err("t"), Exit(1)>>
QuietlyFailing == <<Read1, Out("t"), Out("p"), Exit(2)>>
Deaf == <<Exit(0)>>
Talker == <<Out("t"), Out("t"), Out("t"), ReadAll, Exit(0)>>
Killed == <<Err("t"), Exit(Signal)>>
Closer == <<Out("p"), Close("out"), Err("t"), Err("nl"), Err("p"), Exit(0)>>

Scripts == {Filter, Failing, QuietlyFailing, Deaf, Talker, Killed, Closer}

MCCalls ==
    [api : {"progress"}, script : Scripts, input : {NULL}, extract : BOOLEAN]
      \cup [api : {"input"}, script : Scripts, input : {0, 3}, extract : {FALSE}]
      \cup [api : {"capture", "status"}, script : Scripts, input : {NULL},
            extract : {FALSE}]

MCFaults == {FaultKinds \ {"wait"}, FaultKinds}
MCEnvs ==
    [sigpipe_ignored : BOOLEAN, sigchld_ignored : BOOLEAN, faults : MCFaults]
MCEnvsNoChild ==
    [sigpipe_ignored : {TRUE}, sigchld_ignored : {TRUE}, faults : {{}}]
MCCallsNoChild == {c \in MCCalls : c.api = "progress"}
=============================================================================
