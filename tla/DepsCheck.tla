----------------------------- MODULE DepsCheck -----------------------------
(***************************************************************************)
(* The run-time dependency checks every plugin does before it works        *)
(* (src/src/plugins/check_deps.c): check_deps (utilities and versions),    *)
(* check_module_deps (kernel modules), check_dbus_deps (D-Bus services)    *)
(* and check_features (features of a utility).                             *)
(*                                                                         *)
(* What was found is cached in a bit mask per kind of dependency, read     *)
(* with an atomic load outside the lock and, when that is not enough,      *)
(* again under the lock the masks of one plugin share.  The four functions *)
(* have the same control flow; they differ in the probe they call and in   *)
(* whether a probe that fails silently makes them set an error.            *)
(*                                                                         *)
(* The environment may install and remove what is probed for at any time.  *)
(***************************************************************************)
EXTENDS Integers, FiniteSets

CONSTANTS
    Threads,     \* threads of the application
    NoThread,    \* deps_check_lock is not held
    Kinds,       \* which of the four functions the plugin uses
    NDeps,       \* l_deps: number of dependencies of each kind
    Requests,    \* the req_deps masks callers pass, as sets of bits
    MaxChanges   \* bound on the changes of the environment

AllKinds == {"util", "module", "dbus", "feature"}
Deps == 0 .. NDeps - 1

ASSUME DepsAssumption ==
    /\ NoThread \notin Threads
    /\ Kinds \subseteq AllKinds
    /\ NDeps \in Nat
    /\ Requests \subseteq SUBSET Deps
    /\ MaxChanges \in Nat

VARIABLES
    avail_deps,  \* [Kinds -> SUBSET Deps], the masks
    lock,        \* the holder of deps_check_lock
    pc,          \* [Threads -> ...], where the thread is in its call
    kind, req,   \* the call: the function and its req_deps
    val,         \* the local copy of the mask
    i,           \* the loop counter
    error,       \* the dependencies the message in *error is about
    ret,         \* what the last call returned
    present,     \* environment: what a probe would find now
    changes,     \* environment: changes so far
    found,       \* history: bits of the masks a probe has vouched for
    failed       \* history: probes that failed during the current call

callVars == <<kind, req>>
envVars == <<present, changes>>
vars == <<avail_deps, lock, pc, kind, req, val, i, error, ret, present,
          changes, found, failed>>

PCs == {"idle", "lock", "loop", "reread"}

TypeOK ==
    /\ avail_deps \in [Kinds -> SUBSET Deps]
    /\ lock \in Threads \cup {NoThread}
    /\ pc \in [Threads -> PCs]
    /\ kind \in [Threads -> Kinds]
    /\ req \in [Threads -> SUBSET Deps]
    /\ val \in [Threads -> SUBSET Deps]
    /\ i \in [Threads -> 0 .. NDeps]
    /\ error \in [Threads -> SUBSET Deps]
    /\ ret \in [Threads -> BOOLEAN]
    /\ present \in [Kinds -> SUBSET Deps]
    /\ changes \in Nat
    /\ found \in [Kinds -> SUBSET Deps]
    /\ failed \in [Threads -> SUBSET Deps]

\* The masks are static and zero; any set of tools may be installed.
Init ==
    /\ avail_deps = [k \in Kinds |-> {}]
    /\ lock = NoThread
    /\ pc = [t \in Threads |-> "idle"]
    /\ kind \in {[t \in Threads |-> k] : k \in Kinds}
    /\ req = [t \in Threads |-> {}]
    /\ val = [t \in Threads |-> {}]
    /\ i = [t \in Threads |-> 0]
    /\ error = [t \in Threads |-> {}]
    /\ ret = [t \in Threads |-> FALSE]
    /\ present \in [Kinds -> SUBSET Deps]
    /\ changes = 0
    /\ found = [k \in Kinds |-> {}]
    /\ failed = [t \in Threads |-> {}]

-----------------------------------------------------------------------------
\* (val & req_deps) == req_deps
Have(mask, deps) == deps \subseteq mask

\* The call and the unlocked test: the whole answer if the cache suffices.
Call(t) ==
    /\ pc[t] = "idle"
    /\ \E k \in Kinds, r \in Requests :
        /\ kind' = [kind EXCEPT ![t] = k]
        /\ req' = [req EXCEPT ![t] = r]
        /\ val' = [val EXCEPT ![t] = avail_deps[k]]
        /\ IF Have(avail_deps[k], r)
             THEN /\ ret' = [ret EXCEPT ![t] = TRUE]
                  /\ UNCHANGED pc
             ELSE /\ pc' = [pc EXCEPT ![t] = "lock"]
                  /\ UNCHANGED ret
    /\ error' = [error EXCEPT ![t] = {}]
    /\ failed' = [failed EXCEPT ![t] = {}]
    /\ UNCHANGED <<avail_deps, lock, i, found>> /\ UNCHANGED envVars

\* Mutant: the mask is not read again once the lock is held.
Recheck_stale(t) == val[t]

\* The second atomic load, made under the lock.
Recheck(t) == avail_deps[kind[t]]

\* g_mutex_lock, the second test and, if it succeeds, g_mutex_unlock.  Nothing
\* but a holder of the lock writes the mask, so the three are one step.
Lock(t) ==
    /\ pc[t] = "lock" /\ lock = NoThread
    /\ val' = [val EXCEPT ![t] = Recheck(t)]
    /\ IF Have(Recheck(t), req[t])
         THEN /\ ret' = [ret EXCEPT ![t] = TRUE]
              /\ pc' = [pc EXCEPT ![t] = "idle"]
              /\ UNCHANGED lock
         ELSE /\ lock' = t
              /\ pc' = [pc EXCEPT ![t] = "loop"]
              /\ UNCHANGED ret
    /\ i' = [i EXCEPT ![t] = 0]
    /\ UNCHANGED <<avail_deps, error, found, failed>>
    /\ UNCHANGED callVars /\ UNCHANGED envVars

\* Whether the probe of a kind may fail and leave its error unset, and whether
\* the function then makes up a message of its own (it does, but for features,
\* where _check_util_feature keeps the error of a failed spawn to itself).
MayBeSilent(k) == k \in {"module", "dbus", "feature"}
NamesSilent(k) == k # "feature"

\* i < l_deps
More(t) == i[t] < NDeps

\* ((1 << i) & req_deps) && !((1 << i) & val)
Probes(t) == i[t] \in req[t] \ val[t]

\* Mutant: the bit is set whatever the probe answered.
ProbeFails_sets(t, silent) ==
    /\ i[t] \notin present[kind[t]]
    /\ silent => MayBeSilent(kind[t])
    /\ avail_deps' = [avail_deps EXCEPT ![kind[t]] = @ \cup {i[t]}]
    /\ failed' = [failed EXCEPT ![t] = @ \cup {i[t]}]
    /\ UNCHANGED <<error, found>>

\* The message is set, or prepended to what is already there.
ProbeFails(t, silent) ==
    /\ i[t] \notin present[kind[t]]
    /\ silent => MayBeSilent(kind[t])
    /\ error' = IF silent /\ ~NamesSilent(kind[t]) THEN error
                ELSE [error EXCEPT ![t] = @ \cup {i[t]}]
    /\ failed' = [failed EXCEPT ![t] = @ \cup {i[t]}]
    /\ UNCHANGED <<avail_deps, found>>

\* g_atomic_int_or (avail_deps, 1 << i)
ProbeSucceeds(t) ==
    /\ i[t] \in present[kind[t]]
    /\ avail_deps' = [avail_deps EXCEPT ![kind[t]] = @ \cup {i[t]}]
    /\ found' = [found EXCEPT ![kind[t]] = @ \cup {i[t]}]
    /\ UNCHANGED <<error, failed>>

\* Mutant: the loop does not advance past a bit it has nothing to do for.
Probe_stuck(t) ==
    /\ pc[t] = "loop" /\ More(t)
    /\ \/ /\ Probes(t) /\ (ProbeSucceeds(t) \/ \E s \in BOOLEAN : ProbeFails(t, s))
          /\ i' = [i EXCEPT ![t] = @ + 1]
       \/ ~Probes(t) /\ UNCHANGED <<avail_deps, i, error, found, failed>>
    /\ UNCHANGED <<lock, pc, val, ret>> /\ UNCHANGED callVars /\ UNCHANGED envVars

\* One turn of the loop.
Probe(t) ==
    /\ pc[t] = "loop" /\ More(t)
    /\ \/ Probes(t) /\ (ProbeSucceeds(t) \/ \E s \in BOOLEAN : ProbeFails(t, s))
       \/ ~Probes(t) /\ UNCHANGED <<avail_deps, error, found, failed>>
    /\ i' = [i EXCEPT ![t] = @ + 1]
    /\ UNCHANGED <<lock, pc, val, ret>> /\ UNCHANGED callVars /\ UNCHANGED envVars

Unlock(t) ==
    /\ pc[t] = "loop" /\ ~More(t)
    /\ lock' = NoThread
    /\ pc' = [pc EXCEPT ![t] = "reread"]
    /\ UNCHANGED <<avail_deps, val, i, error, ret, found, failed>>
    /\ UNCHANGED callVars /\ UNCHANGED envVars

\* The third atomic load, after the lock was given up.
Reread(t) ==
    /\ pc[t] = "reread"
    /\ val' = [val EXCEPT ![t] = avail_deps[kind[t]]]
    /\ ret' = [ret EXCEPT ![t] = Have(avail_deps[kind[t]], req[t])]
    /\ pc' = [pc EXCEPT ![t] = "idle"]
    /\ UNCHANGED <<avail_deps, lock, i, error, found, failed>>
    /\ UNCHANGED callVars /\ UNCHANGED envVars

\* The administrator installs, upgrades or removes something.
Change ==
    /\ changes < MaxChanges
    /\ changes' = changes + 1
    /\ \E k \in Kinds, d \in Deps :
        present' = [present EXCEPT ![k] = IF d \in @ THEN @ \ {d} ELSE @ \cup {d}]
    /\ UNCHANGED <<avail_deps, lock, pc, val, i, error, ret, found, failed>>
    /\ UNCHANGED callVars

Next ==
    \/ \E t \in Threads : Call(t) \/ Lock(t) \/ Probe(t) \/ Unlock(t) \/ Reread(t)
    \/ Change

Spec == Init /\ [][Next]_vars

\* A thread that can run does; the mutex is not starved.  Calls are optional.
FairSpec ==
    /\ Spec
    /\ \A t \in Threads :
        /\ SF_vars(Lock(t))
        /\ WF_vars(Probe(t) \/ Unlock(t) \/ Reread(t))

-----------------------------------------------------------------------------
Returned(t) == pc[t] = "idle"

\* A call returns TRUE only if every dependency it asked for was seen working
\* by a probe of this process, its own or another thread's.
TrueMeansFound ==
    \A t \in Threads : Returned(t) /\ ret[t] => req[t] \subseteq found[kind[t]]

\* A call returns FALSE only if one of its own probes failed: it never fails
\* for a dependency that another thread found before it took the lock.
FalseMeansFailed ==
    \A t \in Threads :
        Returned(t) /\ ~ret[t] /\ req[t] # {} => failed[t] \cap req[t] # {}

\* A call that returns FALSE has set an error that names a dependency, except
\* that check_features may fail with no error at all (a spawn that failed).
FalseHasError ==
    \A t \in Threads :
        Returned(t) /\ ~ret[t] /\ req[t] # {} /\ kind[t] # "feature" =>
            error[t] # {}

\* Without changes of the environment a call that returns TRUE leaves *error
\* unset.  (With them another thread may set the missing bit between the unlock
\* and the last load, and TRUE comes with an error.)
TrueHasNoError ==
    changes = 0 => \A t \in Threads : Returned(t) /\ ret[t] => error[t] = {}

\* The answer of a call and its error agree with each other and with what was
\* probed.
HonestAnswers == TrueMeansFound /\ FalseMeansFailed /\ FalseHasError /\ TrueHasNoError

\* What is in the cache is never probed again: a probe runs only for a bit that
\* is clear at that moment, however many threads wait for the lock.
NoReprobe ==
    \A t \in Threads :
        pc[t] = "loop" /\ More(t) /\ Probes(t) =>
            i[t] \notin avail_deps[kind[t]]

\* A bit that is set stays set, whatever is removed from the system later: an
\* answer may be stale, but it never changes from TRUE to FALSE.
CacheStep == \A k \in Kinds : avail_deps[k] \subseteq avail_deps'[k]
CacheGrows == [][CacheStep]_vars

\* Every call returns.
CallReturns == \A t \in Threads : pc[t] # "idle" ~> pc[t] = "idle"

-----------------------------------------------------------------------------
\* The inductive invariant.
LockInv ==
    \A t \in Threads : pc[t] = "loop" <=> lock = t
CacheInv ==
    \A k \in Kinds : avail_deps[k] = found[k]
LoopInv ==
    \A t \in Threads : pc[t] = "loop" =>
        /\ val[t] \subseteq avail_deps[kind[t]]
        /\ ~Have(val[t], req[t])
        /\ \A d \in avail_deps[kind[t]] \ val[t] : d < i[t]
        /\ \A d \in req[t] \ avail_deps[kind[t]] : d < i[t] => d \in failed[t]
FailInv ==
    \A t \in Threads :
        /\ kind[t] # "feature" => error[t] = failed[t]
        /\ error[t] \subseteq failed[t] /\ failed[t] \subseteq req[t]
        /\ pc[t] \in {"lock", "loop", "reread"} => req[t] # {}
        /\ pc[t] = "lock" => failed[t] = {}
        /\ pc[t] = "reread" =>
             \A d \in req[t] \ avail_deps[kind[t]] : d \in failed[t]
StaticInv ==
    changes = 0 =>
        /\ \A k \in Kinds : found[k] \subseteq present[k]
        /\ \A t \in Threads : failed[t] \cap present[kind[t]] = {}
IndInv ==
    TypeOK /\ LockInv /\ CacheInv /\ LoopInv /\ FailInv /\ StaticInv
        /\ TrueMeansFound /\ FalseMeansFailed
=============================================================================
