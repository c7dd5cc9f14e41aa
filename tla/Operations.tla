----------------------------- MODULE Operations -----------------------------
(***************************************************************************)
(* A caller of the plugins' functions.  The functions are given by Paths   *)
(* (see CallPaths); the environment - the kernel, the libraries and        *)
(* programs below the plugins - decides at every step that may fail        *)
(* whether it does.  The state is what the function holds, what it has     *)
(* given back, and what it has changed.                                    *)
(***************************************************************************)
EXTENDS Naturals, Sequences

CONSTANTS
    Paths,      \* the paths of each function, by its name
    Leaks,      \* <<function, resource>>: kept by a return of the function
    TwiceFreed, \* <<function, resource>>: released twice by the function
    LateRefusal,\* <<function, change>>: made before an argument is refused
    Partial     \* <<function, change>>: stays when the function fails

VARIABLES
    op,     \* the function that is running, or the last one
    path,   \* the path it takes
    at,     \* where on it the function is
    held,   \* resources it holds
    gone,   \* resources it has released
    twice,  \* resources it has released again
    done,   \* changes it has made and not taken back
    ret     \* how it ended: "none" while it runs, "idle" between calls

vars == <<op, path, at, held, gone, twice, done, ret>>

Results == {"idle", "none", "ok", "failed", "refused", "no", "crash"}

Init ==
    /\ op = "" /\ path = << >> /\ at = 1
    /\ held = {} /\ gone = {} /\ twice = {} /\ done = {} /\ ret = "idle"

\* The call of a function, with arguments and an environment that select one
\* of its paths.
Call ==
    /\ ret = "idle"
    /\ op' \in DOMAIN Paths
    /\ path' \in Paths[op'] /\ at' = 1
    /\ ret' = "none"
    /\ UNCHANGED <<held, gone, twice, done>>

\* What is not held may be released: the pointer is NULL, the descriptor was
\* never opened.  What has been released may not.
Release(R) ==
    /\ held' = held \ R
    /\ gone' = gone \cup (held \cap R)
    /\ twice' = twice \cup (gone \cap R)

Running(kinds) == ret = "none" /\ at <= Len(path) /\ path[at].kind \in kinds

\* The step succeeds, or the function goes on past it.
Go ==
    /\ Running({"go", "fail", "refuse", "no", "enough", "quote"})
    /\ LET s == path[at] IN
        /\ held' = (held \cup s.get) \ s.put
        /\ gone' = (gone \cup (held \cap s.put)) \ s.get
        /\ twice' = twice \cup (gone \cap s.put)
        /\ done' = done \cup ({s.act} \ {""})
    /\ at' = at + 1
    /\ UNCHANGED <<op, path, ret>>

TakeBack ==
    /\ Running({"undo"})
    /\ done' = done \ {path[at].act}
    /\ at' = at + 1
    /\ UNCHANGED <<op, path, held, gone, twice, ret>>

\* The function returns early.
End(kinds, result) ==
    /\ Running(kinds)
    /\ Release(path[at].lose)
    /\ ret' = result
    /\ path' = << >> /\ at' = 1
    /\ UNCHANGED <<op, done>>

Fails == End({"fail", "fail!", "quote"}, "failed")
Refuses == End({"refuse", "refuse!"}, "refused")
AnswersNo == End({"no"}, "no")
HasEnough == End({"enough"}, "ok")
ReadsNoError == End({"quote"}, "crash")

Return ==
    /\ ret = "none" /\ at > Len(path)
    /\ ret' = "ok"
    /\ path' = << >> /\ at' = 1
    /\ UNCHANGED <<op, held, gone, twice, done>>

\* The caller has seen the result; what the function kept is lost.
Forget ==
    /\ ret \notin {"idle", "none"}
    /\ op' = "" /\ path' = << >> /\ at' = 1
    /\ held' = {} /\ gone' = {} /\ twice' = {} /\ done' = {} /\ ret' = "idle"

Next ==
    \/ Call \/ Go \/ TakeBack \/ Fails \/ Refuses \/ AnswersNo \/ HasEnough
    \/ ReadsNoError \/ Return \/ Forget

Spec == Init /\ [][Next]_vars

-----------------------------------------------------------------------------
\* A function that has returned holds nothing: every descriptor is closed,
\* every context, key buffer and temporary mount released, and the progress
\* task it started reported as finished - whatever failed, and where.  Leaks
\* names the returns that are known to keep something.
AllReleased == ret # "none" /\ ret # "crash" => \A r \in held : <<op, r>> \in Leaks

\* Nothing is released twice: no double free of a context, no second
\* bd_utils_report_finished of a task.
ReleasedOnce == \A r \in twice : <<op, r>> \in TwiceFreed

\* A call that is refused for its arguments has changed nothing, but for the
\* changes that LateRefusal names: those stand before the argument is looked at.
RefusedFirst == ret = "refused" => \A a \in done : <<op, a>> \in LateRefusal

\* A call that reports failure has changed nothing, or has taken back what it
\* changed.  Partial names the changes that stay, one by one: every other change
\* of the same functions is the last thing they do, or is undone.
FailsWhole == ret \in {"failed", "no"} => \A a \in done : <<op, a>> \in Partial

\* An LV takes the name that was given for a pool only once it is that pool
\* (bd_lvm_thpool_convert, bd_lvm_cache_pool_convert).
PoolsNamed == "pool renamed" \in done => "converted" \in done

-----------------------------------------------------------------------------
(* What a path says by itself, without being run.                          *)

EndKinds == {"fail", "fail!", "quote", "refuse", "refuse!", "no", "enough"}
GoKinds == {"go", "fail", "refuse", "no", "enough", "quote"}

Steps ==
    [kind : EndKinds \cup GoKinds \cup {"undo"}, get : SUBSET STRING, put : SUBSET STRING,
     lose : SUBSET STRING, act : STRING]

\* A step that takes back a change acquires and releases nothing.
ASSUME PathsAssumption ==
    \A f \in DOMAIN Paths : \A p \in Paths[f] :
        /\ p \in Seq(Steps)
        /\ \A i \in 1 .. Len(p) : p[i].kind = "undo" => p[i].get = {} /\ p[i].put = {}

\* What a step before i has brought and no step since, itself included, has
\* taken away.
Since(brought, taken, i) ==
    UNION {{x \in brought[j] : \A k \in j .. i - 1 : x \notin taken[k]} : j \in 1 .. i - 1}

Gets(p) == [k \in 1 .. Len(p) |-> p[k].get]
Puts(p) == [k \in 1 .. Len(p) |-> p[k].put]
Makes(p) == [k \in 1 .. Len(p) |-> IF p[k].kind = "undo" THEN {} ELSE {p[k].act} \ {""}]
Undoes(p) == [k \in 1 .. Len(p) |-> IF p[k].kind = "undo" THEN {p[k].act} ELSE {}]

\* What a function on path p holds, has released and has changed before step i.
HeldAt(p, i) == Since(Gets(p), Puts(p), i)
GoneAt(p, i) == Since([k \in 1 .. Len(p) |-> HeldAt(p, k) \cap p[k].put], Gets(p), i)
DoneAt(p, i) == Since(Makes(p), Undoes(p), i)

\* No step before i ends every call that comes to it.
Reached(p, i) == \A k \in 1 .. i - 1 : p[k].kind \notin {"fail!", "refuse!"}

\* What step s may release, whether the function goes on or ends there.
Releases(s) ==
    (IF s.kind \in GoKinds THEN s.put ELSE {}) \cup (IF s.kind \in EndKinds THEN s.lose ELSE {})

\* Function f may be at step i of path p, or at its end, and whatever happens
\* there keeps the promises below.
KeepsAtEnd(f, p) == \A r \in HeldAt(p, Len(p) + 1) : <<f, r>> \in Leaks
KeepsAt(f, p, i) ==
    /\ p[i].kind \in EndKinds => \A r \in HeldAt(p, i) \ p[i].lose : <<f, r>> \in Leaks
    /\ \A r \in GoneAt(p, i) \cap Releases(p[i]) : <<f, r>> \in TwiceFreed
    /\ p[i].kind \in {"refuse", "refuse!"} => \A a \in DoneAt(p, i) : <<f, a>> \in LateRefusal
    /\ p[i].kind \in {"fail", "fail!", "quote", "no"} => \A a \in DoneAt(p, i) : <<f, a>> \in Partial
Keeps(f, p) ==
    /\ \A i \in 1 .. Len(p) : Reached(p, i) => KeepsAt(f, p, i)
    /\ Reached(p, Len(p) + 1) => KeepsAtEnd(f, p)

\* Every path of every function does.
PathsKeep == \A f \in DOMAIN Paths : \A p \in Paths[f] : Keeps(f, p)
=============================================================================
