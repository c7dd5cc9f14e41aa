-------------------------- MODULE DepsCheckProofs --------------------------
(***************************************************************************)
(* Proofs about DepsCheck for any number of threads and dependencies.      *)
(***************************************************************************)
EXTENDS DepsCheck, TLAPS

\* A call in progress: what the loop has done so far, kept by every action of
\* another thread because only the holder of the lock writes the masks.
LEMMA InitIndInv == Init => IndInv
  BY DepsAssumption DEF Init, IndInv, TypeOK, LockInv, CacheInv, LoopInv,
     FailInv, StaticInv, TrueMeansFound, FalseMeansFailed, Returned, PCs, Deps

LEMMA CallKeeps ==
    ASSUME IndInv, NEW t \in Threads, Call(t) PROVE IndInv'
  <1> USE DepsAssumption DEF IndInv, Call, callVars, envVars
  <1>a. pc' \in [Threads -> PCs] /\ ret' \in [Threads -> BOOLEAN]
    <2>1. pc' \in {pc, [pc EXCEPT ![t] = "lock"]}
      OBVIOUS
    <2>2. ret' \in {ret, [ret EXCEPT ![t] = TRUE]}
      OBVIOUS
    <2>3. pc' \in [Threads -> PCs]
      BY <2>1 DEF TypeOK, PCs
    <2>4. ret' \in [Threads -> BOOLEAN]
      BY <2>2 DEF TypeOK
    <2> QED BY <2>3, <2>4
  <1>b. val' \in [Threads -> SUBSET Deps] BY DEF TypeOK
  <1>c. req' \in [Threads -> SUBSET Deps] /\ kind' \in [Threads -> Kinds]
    BY DEF TypeOK
  <1>1. TypeOK' BY <1>a, <1>b, <1>c DEF TypeOK
  <1>2. LockInv' BY DEF TypeOK, LockInv
  <1>3. CacheInv' BY DEF TypeOK, CacheInv
  <1>4. LoopInv' BY DEF TypeOK, LoopInv
  <1>5. FailInv' BY DEF TypeOK, FailInv, Have
  <1>6. TrueMeansFound'
    BY DEF TypeOK, CacheInv, TrueMeansFound, Returned, Have
  <1>7. FalseMeansFailed' BY DEF TypeOK, FalseMeansFailed, Returned
  <1>8. StaticInv' BY DEF TypeOK, StaticInv
  <1> QED BY <1>1, <1>2, <1>3, <1>4, <1>5, <1>6, <1>7, <1>8

LEMMA LockKeeps ==
    ASSUME IndInv, NEW t \in Threads, Lock(t) PROVE IndInv'
  <1> USE DepsAssumption DEF IndInv, Lock, Recheck, callVars, envVars
  <1>a. pc' \in [Threads -> PCs] /\ ret' \in [Threads -> BOOLEAN]
    BY DEF TypeOK, PCs
  <1>b. val' \in [Threads -> SUBSET Deps] BY DEF TypeOK
  <1>c. i' \in [Threads -> 0 .. NDeps] BY DEF TypeOK
  <1>1. TypeOK' BY <1>a, <1>b, <1>c DEF TypeOK
  <1>2. LockInv' BY DEF TypeOK, LockInv
  <1>3. CacheInv' BY DEF TypeOK, CacheInv
  <1>4. LoopInv' BY DEF TypeOK, LoopInv, FailInv, Deps
  <1>5. FailInv' BY DEF TypeOK, FailInv
  <1>6. TrueMeansFound'
    BY DEF TypeOK, CacheInv, TrueMeansFound, Returned, Have
  <1>7. FalseMeansFailed' BY DEF TypeOK, FalseMeansFailed, Returned
  <1>8. StaticInv' BY DEF TypeOK, StaticInv
  <1> QED BY <1>1, <1>2, <1>3, <1>4, <1>5, <1>6, <1>7, <1>8
LEMMA ProbeKeeps ==
    ASSUME IndInv, NEW t \in Threads, Probe(t) PROVE IndInv'
  <1> USE DepsAssumption DEF IndInv, Probe, More, callVars, envVars
  <1>0. /\ i[t] \in Deps /\ i[t] \in Int /\ kind[t] \in Kinds
        /\ pc[t] = "loop" /\ i' = [i EXCEPT ![t] = i[t] + 1]
    BY DEF TypeOK, Deps
  <1>a. i' \in [Threads -> 0 .. NDeps] BY <1>0 DEF TypeOK
  <1>b. UNCHANGED <<lock, pc, val, ret, kind, req, present, changes>>
    OBVIOUS
  <1>s. CASE Probes(t) /\ ProbeSucceeds(t)
    <2> USE <1>s DEF ProbeSucceeds
    <2>1. TypeOK' BY <1>0, <1>a, <1>b DEF TypeOK
    <2>2. LockInv' BY <1>b DEF LockInv
    <2>3. CacheInv' BY <1>0 DEF TypeOK, CacheInv
    <2>4. LoopInv'
      <3> DEFINE a == avail_deps[kind[t]]
                 b == avail_deps'[kind[t]]
      <3>1. /\ val[t] \subseteq a /\ ~Have(val[t], req[t])
            /\ \A d \in a \ val[t] : d < i[t]
            /\ \A d \in req[t] \ a : d < i[t] => d \in failed[t]
            /\ i'[t] = i[t] + 1
            /\ a \subseteq Deps /\ req[t] \subseteq Deps
        BY <1>0 DEF LoopInv, TypeOK
      <3>2. b = a \cup {i[t]} /\ failed' = failed
        BY <1>0 DEF TypeOK
      <3>3. /\ val[t] \subseteq b
            /\ \A d \in b \ val[t] : d < i'[t]
            /\ \A d \in req[t] \ b : d < i'[t] => d \in failed'[t]
        BY <1>0, <3>1, <3>2 DEF Deps
      <3>4. \A u \in Threads : pc'[u] = "loop" => u = t
        BY <1>0, <1>b DEF LockInv
      <3> QED BY <1>b, <3>1, <3>3, <3>4 DEF LoopInv
    <2>5. FailInv' BY <1>0, <1>b DEF TypeOK, FailInv
    <2>6. TrueMeansFound' BY <1>0, <1>b DEF TypeOK, TrueMeansFound, Returned
    <2>7. FalseMeansFailed' BY <1>b DEF TypeOK, FalseMeansFailed, Returned
    <2>8. StaticInv' BY <1>0, <1>b DEF TypeOK, StaticInv
    <2> QED BY <2>1, <2>2, <2>3, <2>4, <2>5, <2>6, <2>7, <2>8
  <1>f. ASSUME Probes(t), NEW s \in BOOLEAN, ProbeFails(t, s) PROVE IndInv'
    <2> USE <1>f DEF ProbeFails
    <2>1. TypeOK' BY <1>0, <1>a, <1>b DEF TypeOK
    <2>2. LockInv' BY <1>b DEF LockInv
    <2>3. CacheInv' BY <1>0 DEF TypeOK, CacheInv
    <2>4. LoopInv'
      <3> DEFINE a == avail_deps[kind[t]]
                 b == avail_deps'[kind[t]]
      <3>1. /\ val[t] \subseteq a /\ ~Have(val[t], req[t])
            /\ \A d \in a \ val[t] : d < i[t]
            /\ \A d \in req[t] \ a : d < i[t] => d \in failed[t]
            /\ i'[t] = i[t] + 1
            /\ a \subseteq Deps /\ req[t] \subseteq Deps
        BY <1>0 DEF LoopInv, TypeOK
      <3>2. b = a /\ failed'[t] = failed[t] \cup {i[t]}
        BY <1>0 DEF TypeOK
      <3>3. /\ val[t] \subseteq b
            /\ \A d \in b \ val[t] : d < i'[t]
            /\ \A d \in req[t] \ b : d < i'[t] => d \in failed'[t]
        BY <1>0, <3>1, <3>2 DEF Deps
      <3>4. \A u \in Threads : pc'[u] = "loop" => u = t
        BY <1>0, <1>b DEF LockInv
      <3> QED BY <1>b, <3>1, <3>3, <3>4 DEF LoopInv
    <2>5. FailInv'
      <3>1. /\ failed'[t] = failed[t] \cup {i[t]}
            /\ \A u \in Threads \ {t} : failed'[u] = failed[u] /\ error'[u] = error[u]
        BY DEF TypeOK
      <3>2. error'[t] \in {error[t], error[t] \cup {i[t]}}
        BY DEF TypeOK
      <3>3. kind[t] # "feature" => error'[t] = error[t] \cup {i[t]}
        BY DEF TypeOK, NamesSilent
      <3>4. /\ kind[t] # "feature" => error'[t] = failed'[t]
            /\ error'[t] \subseteq failed'[t] /\ failed'[t] \subseteq req[t]
        BY <3>1, <3>2, <3>3 DEF FailInv, Probes
      <3>5. req[t] # {}
        BY <1>0 DEF FailInv
      <3>6. UNCHANGED <<avail_deps, kind, req, pc>>
        BY <1>b
      <3> HIDE <1>f DEF ProbeFails, Probe
      <3>7. ASSUME NEW u \in Threads \ {t}
            PROVE  /\ kind'[u] # "feature" => error'[u] = failed'[u]
                   /\ error'[u] \subseteq failed'[u] /\ failed'[u] \subseteq req'[u]
                   /\ pc'[u] \in {"lock", "loop", "reread"} => req'[u] # {}
                   /\ pc'[u] = "lock" => failed'[u] = {}
                   /\ pc'[u] = "reread" =>
                        \A d \in req'[u] \ avail_deps'[kind'[u]] : d \in failed'[u]
        BY <3>1, <3>6 DEF FailInv
      <3>8. /\ kind'[t] # "feature" => error'[t] = failed'[t]
            /\ error'[t] \subseteq failed'[t] /\ failed'[t] \subseteq req'[t]
            /\ pc'[t] = "loop" /\ req'[t] # {}
        BY <1>0, <3>4, <3>5, <3>6
      <3> QED BY <3>7, <3>8 DEF FailInv
    <2>6. TrueMeansFound' BY <1>0, <1>b DEF TypeOK, TrueMeansFound, Returned
    <2>7. FalseMeansFailed' BY <1>0, <1>b DEF TypeOK, FalseMeansFailed, Returned
    <2>8. StaticInv' BY <1>0, <1>b DEF TypeOK, StaticInv
    <2> QED BY <2>1, <2>2, <2>3, <2>4, <2>5, <2>6, <2>7, <2>8
  <1>n. CASE ~Probes(t) /\ UNCHANGED <<avail_deps, error, found, failed>>
    <2> USE <1>n
    <2>1. TypeOK' BY <1>0, <1>a, <1>b DEF TypeOK
    <2>2. LockInv' BY <1>b DEF LockInv
    <2>3. CacheInv' BY DEF CacheInv
    <2>4. LoopInv' BY <1>0, <1>b DEF TypeOK, LoopInv, LockInv, Probes, Deps
    <2>5. FailInv' BY <1>b DEF FailInv
    <2>6. TrueMeansFound' BY <1>b DEF TrueMeansFound, Returned
    <2>7. FalseMeansFailed' BY <1>b DEF FalseMeansFailed, Returned
    <2>8. StaticInv' BY <1>0, <1>b DEF TypeOK, StaticInv
    <2> QED BY <2>1, <2>2, <2>3, <2>4, <2>5, <2>6, <2>7, <2>8
  <1> QED BY <1>s, <1>f, <1>n

LEMMA UnlockKeeps ==
    ASSUME IndInv, NEW t \in Threads, Unlock(t) PROVE IndInv'
  <1> USE DepsAssumption DEF IndInv, Unlock, More, callVars, envVars
  <1>1. TypeOK' BY DEF TypeOK, PCs
  <1>2. LockInv' BY DEF TypeOK, LockInv
  <1>3. CacheInv' BY DEF CacheInv
  <1>4. LoopInv' BY DEF TypeOK, LoopInv
  <1>5. FailInv' BY DEF TypeOK, FailInv, LoopInv, Deps
  <1>6. TrueMeansFound' BY DEF TypeOK, TrueMeansFound, Returned
  <1>7. FalseMeansFailed' BY DEF TypeOK, FalseMeansFailed, Returned
  <1>8. StaticInv' BY DEF TypeOK, StaticInv
  <1> QED BY <1>1, <1>2, <1>3, <1>4, <1>5, <1>6, <1>7, <1>8

LEMMA RereadKeeps ==
    ASSUME IndInv, NEW t \in Threads, Reread(t) PROVE IndInv'
  <1> USE DepsAssumption DEF IndInv, Reread, callVars, envVars
  <1>a. pc' \in [Threads -> PCs] /\ ret' \in [Threads -> BOOLEAN]
    BY DEF TypeOK, PCs, Have
  <1>b. val' \in [Threads -> SUBSET Deps] BY DEF TypeOK
  <1>1. TypeOK' BY <1>a, <1>b DEF TypeOK
  <1>2. LockInv' BY DEF TypeOK, LockInv
  <1>3. CacheInv' BY DEF CacheInv
  <1>4. LoopInv' BY DEF TypeOK, LoopInv
  <1>5. FailInv' BY DEF TypeOK, FailInv
  <1>6. TrueMeansFound'
    BY DEF TypeOK, CacheInv, TrueMeansFound, Returned, Have
  <1>7. FalseMeansFailed'
    BY DEF TypeOK, FalseMeansFailed, FailInv, Returned, Have
  <1>8. StaticInv' BY DEF TypeOK, StaticInv
  <1> QED BY <1>1, <1>2, <1>3, <1>4, <1>5, <1>6, <1>7, <1>8

LEMMA ChangeKeeps == ASSUME IndInv, Change PROVE IndInv'
  <1> USE DepsAssumption DEF IndInv, Change, callVars
  <1>1. TypeOK'
    <2>1. present' \in [Kinds -> SUBSET Deps] BY DEF TypeOK
    <2> QED BY <2>1 DEF TypeOK
  <1>2. LockInv' /\ CacheInv' BY DEF LockInv, CacheInv
  <1>3. LoopInv' /\ FailInv' BY DEF LoopInv, FailInv
  <1>4. TrueMeansFound' /\ FalseMeansFailed'
    BY DEF TrueMeansFound, FalseMeansFailed, Returned
  <1>5. StaticInv' BY DEF TypeOK, StaticInv
  <1> QED BY <1>1, <1>2, <1>3, <1>4, <1>5

LEMMA NextIndInv == IndInv /\ [Next]_vars => IndInv'
  <1> SUFFICES ASSUME IndInv, [Next]_vars PROVE IndInv' OBVIOUS
  <1>1. CASE UNCHANGED vars
    BY <1>1 DEF vars, IndInv, TypeOK, LockInv, CacheInv, LoopInv, FailInv,
       StaticInv, TrueMeansFound, FalseMeansFailed, Returned
  <1>2. ASSUME NEW t \in Threads,
               Call(t) \/ Lock(t) \/ Probe(t) \/ Unlock(t) \/ Reread(t)
        PROVE IndInv'
    BY <1>2, CallKeeps, LockKeeps, ProbeKeeps, UnlockKeeps, RereadKeeps
  <1>3. CASE Change BY <1>3, ChangeKeeps
  <1> QED BY <1>1, <1>2, <1>3 DEF Next

\* The inductive invariant holds for every number of threads, dependencies and
\* changes of the environment.
THEOREM IndInvCorrect == Spec => []IndInv
  BY InitIndInv, NextIndInv, PTL DEF Spec

\* check_deps and its siblings answer TRUE only for what a probe has found, and
\* FALSE only after a probe of their own has failed.
THEOREM AnswersCorrect == Spec => [](TrueMeansFound /\ FalseMeansFailed)
  <1>1. IndInv => TrueMeansFound /\ FalseMeansFailed BY DEF IndInv
  <1> QED BY <1>1, IndInvCorrect, PTL

\* A call that fails has set its error, check_features excepted.
THEOREM ErrorCorrect == Spec => []FalseHasError
  <1>1. IndInv => FalseHasError
    BY DEF IndInv, FalseHasError, FalseMeansFailed, FailInv
  <1> QED BY <1>1, IndInvCorrect, PTL

\* As long as nothing is installed or removed, TRUE comes without an error.
THEOREM NoErrorCorrect == Spec => []TrueHasNoError
  <1>1. IndInv => TrueHasNoError
    BY DEF IndInv, TypeOK, TrueHasNoError, TrueMeansFound, FailInv, StaticInv
  <1> QED BY <1>1, IndInvCorrect, PTL

\* Answers and errors agree with each other and with what was probed.
THEOREM HonestCorrect == Spec => []HonestAnswers
  <1>1. TrueMeansFound /\ FalseMeansFailed /\ FalseHasError /\ TrueHasNoError => HonestAnswers
    BY DEF HonestAnswers
  <1> QED BY AnswersCorrect, ErrorCorrect, NoErrorCorrect, <1>1, PTL

\* No thread probes for what is already in the cache: the second load of the
\* mask, made under the lock, is what guarantees it.
THEOREM NoReprobeCorrect == Spec => []NoReprobe
  <1>1. IndInv => NoReprobe
    BY DEF IndInv, NoReprobe, LoopInv, Probes, TypeOK
  <1> QED BY <1>1, IndInvCorrect, PTL

\* The cached masks only grow.
THEOREM CacheCorrect == Spec => CacheGrows
  <1>1. IndInv /\ [Next]_vars => [CacheStep]_vars
    <2> SUFFICES ASSUME IndInv, Next PROVE CacheStep OBVIOUS
    <2> USE DEF CacheStep
    <2>1. ASSUME NEW t \in Threads, Probe(t) PROVE CacheStep
      BY <2>1 DEF Probe, ProbeSucceeds, ProbeFails, IndInv, TypeOK
    <2>2. ASSUME NEW t \in Threads,
                 Call(t) \/ Lock(t) \/ Unlock(t) \/ Reread(t)
          PROVE CacheStep
      BY <2>2 DEF Call, Lock, Unlock, Reread
    <2>3. CASE Change BY <2>3 DEF Change
    <2> QED BY <2>1, <2>2, <2>3 DEF Next
  <1> QED BY <1>1, IndInvCorrect, PTL DEF Spec, CacheGrows
=============================================================================
