----------------------------- MODULE CallPaths -----------------------------
(***************************************************************************)
(* What the functions of the plugins do, as sets of paths.                 *)
(*                                                                         *)
(* A path is one way through a function that does not stop early: the      *)
(* sequence of its steps, for one choice of arguments and of the branches  *)
(* they select.  A step says what it acquires, what it changes, and how    *)
(* the function may end there: with an error, refused for its arguments,   *)
(* with a negative answer, or early with success.  With every early end    *)
(* goes the set of what the code releases on its way out, as it stands at  *)
(* that return statement: nothing is derived from what is held.            *)
(*                                                                         *)
(* Resources are named after the variables that hold them: a descriptor, a *)
(* context of a library, a buffer with a key, a progress task ("task",     *)
(* acquired by bd_utils_report_started and given back by                   *)
(* bd_utils_report_finished).  Memory that is freed before anything can    *)
(* fail, or by g_autofree, is left out.                                    *)
(***************************************************************************)
EXTENDS Sequences

\* P, then Q.
P ## Q == {p \o q : p \in P, q \in Q}
Nothing == {<< >>}
Opt(P) == P \cup Nothing
\* No pass of a loop, one, two or three: more add nothing (OperationsProofs).
Loop(P) == Nothing \cup P \cup (P ## P) \cup (P ## P ## P)

Step(kind, get, put, lose, act) ==
    {<<[kind |-> kind, get |-> get, put |-> put, lose |-> lose, act |-> act]>>}

\* Acquires a resource; cannot fail.
Take(r) == Step("go", {r}, {}, {}, "")
\* Releases resources, or hands them over to the caller.
Free(R) == Step("go", {}, R, {}, "")
\* Acquires a resource, or fails.
Open(r, R) == Step("fail", {r}, {}, R, "")
\* Something that may fail and changes nothing.
Try(R) == Step("fail", {}, {}, R, "")
\* A change of the device, of its stack or of the system, that may fail.
Do(a, R) == Step("fail", {}, {}, R, a)
\* A change that cannot fail, or whose failure the code ignores.
Just(a) == Step("go", {}, {}, {}, a)
\* A change that may fail, after which the code goes on as if it had not.
Attempt(a) == Just(a) \cup Nothing
\* Takes back an earlier change; Undo(a) \cup Nothing if it can fail.
Undo(a) == Step("undo", {}, {}, {}, a)
\* A release that may fail for good: it was tried, what it left behind counts
\* as a change.
Left(R) == Free(R) ## Just("left behind")
\* The arguments may be refused here; with Refuse, they are.
Check(R) == Step("refuse", {}, {}, R, "")
Refuse(R) == Step("refuse!", {}, {}, R, "")
\* The path ends here with an error.
Fail(R) == Step("fail!", {}, {}, R, "")
\* May answer FALSE, NULL or 0 without an error.
Ask(R) == Step("no", {}, {}, R, "")
\* Nothing is left to do: may return success here.
Enough(R) == Step("enough", {}, {}, R, "")
\* A callee may report failure without an error, and the code reads the
\* message of the error it expects.
Quote(R) == Step("quote", {}, {}, R, "")

Kinds == {"go", "fail", "fail!", "undo", "refuse", "refuse!", "no", "enough", "quote"}
=============================================================================
