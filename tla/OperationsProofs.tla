-------------------------- MODULE OperationsProofs --------------------------
(***************************************************************************)
(* Proofs about Operations: a function whose paths keep the promises when  *)
(* they are read keeps them in every call, wherever the call ends; and     *)
(* three passes of a loop say what any number of them would do.            *)
(***************************************************************************)
EXTENDS Operations, TLAPS, SequenceTheorems, WellFoundedInduction

-----------------------------------------------------------------------------
(* What one more step does to what a path has brought about.               *)

LEMMA SinceStep ==
    ASSUME NEW brought, NEW taken, NEW i \in Nat \ {0}
    PROVE  Since(brought, taken, i + 1) = (Since(brought, taken, i) \cup brought[i]) \ taken[i]
<1>1. ASSUME NEW x \in Since(brought, taken, i + 1)
      PROVE  x \in (Since(brought, taken, i) \cup brought[i]) \ taken[i]
  <2>1. PICK j \in 1 .. i : x \in brought[j] /\ \A k \in j .. i : x \notin taken[k]
    BY <1>1 DEF Since
  <2>2. CASE j = i
    BY <2>1, <2>2
  <2>3. CASE j # i
    <3>1. j \in 1 .. i - 1 /\ i \in j .. i /\ \A k \in j .. i - 1 : k \in j .. i
      BY <2>3
    <3>2. x \notin taken[i] /\ \A k \in j .. i - 1 : x \notin taken[k]
      BY <2>1, <3>1
    <3> QED BY <2>1, <3>1, <3>2 DEF Since
  <2> QED BY <2>2, <2>3
<1>2. ASSUME NEW x \in (Since(brought, taken, i) \cup brought[i]) \ taken[i]
      PROVE  x \in Since(brought, taken, i + 1)
  <2>1. (i + 1) - 1 = i
    OBVIOUS
  <2>2. CASE x \in brought[i]
    <3>1. \A k \in i .. i : x \notin taken[k]
      BY <1>2
    <3> QED BY <2>1, <2>2, <3>1 DEF Since
  <2>3. CASE x \in Since(brought, taken, i)
    <3>1. PICK j \in 1 .. i - 1 : x \in brought[j] /\ \A k \in j .. i - 1 : x \notin taken[k]
      BY <2>3 DEF Since
    <3>2. j \in 1 .. i /\ \A k \in j .. i : x \notin taken[k]
      BY <1>2, <3>1
    <3> QED BY <2>1, <3>1, <3>2 DEF Since
  <2> QED BY <1>2, <2>2, <2>3
<1> QED BY <1>1, <1>2

LEMMA SinceStart ==
    ASSUME NEW brought, NEW taken PROVE Since(brought, taken, 1) = {}
BY DEF Since

LEMMA HeldStep ==
    ASSUME NEW p \in Seq(Steps), NEW i \in 1 .. Len(p)
    PROVE  /\ HeldAt(p, i + 1) = (HeldAt(p, i) \cup p[i].get) \ p[i].put
           /\ GoneAt(p, i + 1) = (GoneAt(p, i) \cup (HeldAt(p, i) \cap p[i].put)) \ p[i].get
<1>1. i \in Nat \ {0}
  OBVIOUS
<1>2. Gets(p)[i] = p[i].get /\ Puts(p)[i] = p[i].put
  BY DEF Gets, Puts
<1>3. HeldAt(p, i + 1) = (HeldAt(p, i) \cup Gets(p)[i]) \ Puts(p)[i]
  BY <1>1, SinceStep DEF HeldAt
<1> DEFINE freed == [k \in 1 .. Len(p) |-> HeldAt(p, k) \cap p[k].put]
<1>4. freed[i] = HeldAt(p, i) \cap p[i].put
  OBVIOUS
<1>5. GoneAt(p, i + 1) = (GoneAt(p, i) \cup freed[i]) \ Gets(p)[i]
  <2> HIDE DEF freed
  <2>1. Since(freed, Gets(p), i + 1) = (Since(freed, Gets(p), i) \cup freed[i]) \ Gets(p)[i]
    BY <1>1, SinceStep
  <2> QED BY <2>1 DEF GoneAt, freed
<1> QED BY <1>2, <1>3, <1>4, <1>5

LEMMA DoneStep ==
    ASSUME NEW p \in Seq(Steps), NEW i \in 1 .. Len(p)
    PROVE  /\ p[i].kind # "undo" => DoneAt(p, i + 1) = DoneAt(p, i) \cup ({p[i].act} \ {""})
           /\ p[i].kind = "undo" => DoneAt(p, i + 1) = DoneAt(p, i) \ {p[i].act}
<1>1. i \in Nat \ {0}
  OBVIOUS
<1>2. DoneAt(p, i + 1) = (DoneAt(p, i) \cup Makes(p)[i]) \ Undoes(p)[i]
  BY <1>1, SinceStep DEF DoneAt
<1>3. CASE p[i].kind = "undo"
  BY <1>2, <1>3 DEF Makes, Undoes
<1>4. CASE p[i].kind # "undo"
  BY <1>2, <1>4 DEF Makes, Undoes
<1> QED BY <1>3, <1>4

LEMMA ReachedStep ==
    ASSUME NEW p \in Seq(Steps), NEW i \in 1 .. Len(p), Reached(p, i),
           p[i].kind \notin {"fail!", "refuse!"}
    PROVE  Reached(p, i + 1)
<1>1. \A k \in 1 .. (i + 1) - 1 : k \in 1 .. i - 1 \/ k = i
  OBVIOUS
<1> QED BY <1>1 DEF Reached

-----------------------------------------------------------------------------
(* Every call does what its path says.                                     *)

\* A function that runs holds, has released and has changed what its path says
\* it has before the step it is at.
FollowsPath ==
    ret = "none" =>
        /\ op \in DOMAIN Paths /\ path \in Paths[op] /\ at \in 1 .. Len(path) + 1
        /\ Reached(path, at)
        /\ held = HeldAt(path, at) /\ gone = GoneAt(path, at) /\ done = DoneAt(path, at)

Promises == AllReleased /\ ReleasedOnce /\ RefusedFirst /\ FailsWhole

\* Nothing is left of the last call between two calls.
BetweenCalls == ret = "idle" => held = {} /\ gone = {} /\ twice = {} /\ done = {}

OpsInv == FollowsPath /\ BetweenCalls /\ Promises

LEMMA OpsInit == Init => OpsInv
BY DEF Init, OpsInv, FollowsPath, BetweenCalls, Promises, AllReleased, ReleasedOnce, RefusedFirst,
       FailsWhole

\* The path of a running call, its steps and what it keeps.
LEMMA OnPath ==
    ASSUME PathsKeep, OpsInv, ret = "none"
    PROVE  /\ op \in DOMAIN Paths /\ path \in Seq(Steps) /\ at \in 1 .. Len(path) + 1
           /\ Reached(path, at) /\ Keeps(op, path)
           /\ held = HeldAt(path, at) /\ gone = GoneAt(path, at) /\ done = DoneAt(path, at)
           /\ \A i \in 1 .. Len(path) : path[i].kind = "undo" => path[i].get = {} /\ path[i].put = {}
BY PathsAssumption DEF OpsInv, FollowsPath, PathsKeep

LEMMA OpsCall == ASSUME PathsKeep, OpsInv, Call PROVE OpsInv'
<1>1. op' \in DOMAIN Paths /\ path' \in Paths[op'] /\ at' = 1 /\ ret' = "none"
      /\ held' = {} /\ gone' = {} /\ twice' = {} /\ done' = {}
  BY DEF Call, OpsInv, BetweenCalls
<1>2. path' \in Seq(Steps) /\ Keeps(op', path')
  BY <1>1, PathsAssumption DEF PathsKeep
<1>3. at' \in 1 .. Len(path') + 1 /\ Reached(path', at')
  BY <1>1, <1>2 DEF Reached
<1>4. HeldAt(path', at') = {} /\ GoneAt(path', at') = {} /\ DoneAt(path', at') = {}
  BY <1>1, SinceStart DEF HeldAt, GoneAt, DoneAt
<1>5. FollowsPath'
  BY <1>1, <1>2, <1>3, <1>4 DEF FollowsPath
<1>6. BetweenCalls' /\ Promises'
  BY <1>1 DEF BetweenCalls, Promises, AllReleased, ReleasedOnce, RefusedFirst, FailsWhole
<1> QED BY <1>5, <1>6 DEF OpsInv

LEMMA OpsGo == ASSUME PathsKeep, OpsInv, Go PROVE OpsInv'
<1> DEFINE s == path[at]
<1>0. at <= Len(path) /\ at' = at + 1
  BY DEF Go, Running
<1>1. /\ ret = "none" /\ at <= Len(path) /\ s.kind \in GoKinds
      /\ held' = (held \cup s.get) \ s.put
      /\ gone' = (gone \cup (held \cap s.put)) \ s.get
      /\ twice' = twice \cup (gone \cap s.put)
      /\ done' = done \cup ({s.act} \ {""})
      /\ at' = at + 1 /\ UNCHANGED <<op, path, ret>>
  BY DEF Go, Running, GoKinds
<1>2. at \in 1 .. Len(path) /\ path \in Seq(Steps) /\ Reached(path, at)
      /\ op \in DOMAIN Paths /\ path \in Paths[op] /\ Keeps(op, path)
      /\ held = HeldAt(path, at) /\ gone = GoneAt(path, at) /\ done = DoneAt(path, at)
  <2>1. path \in Seq(Steps) /\ at \in 1 .. Len(path) + 1
    BY <1>1, OnPath
  <2>2. at \in 1 .. Len(path)
    BY <1>0, <2>1
  <2>3. path \in Paths[op]
    BY <1>1 DEF OpsInv, FollowsPath
  <2> QED BY <1>1, <2>2, <2>3, OnPath
<1>3. held' = HeldAt(path, at') /\ gone' = GoneAt(path, at')
  BY <1>1, <1>2, HeldStep
<1>4. done' = DoneAt(path, at')
  BY <1>1, <1>2, DoneStep DEF GoKinds
<1>5. Reached(path, at')
  BY <1>1, <1>2, ReachedStep DEF GoKinds
<1>6. at' \in 1 .. Len(path) + 1
  <2>1. Len(path) \in Nat
    BY <1>2
  <2> QED BY <1>0, <1>2, <2>1
<1>7. FollowsPath'
  BY <1>1, <1>2, <1>3, <1>4, <1>5, <1>6 DEF FollowsPath
<1>8. \A r \in gone \cap s.put : <<op, r>> \in TwiceFreed
  <2>1. KeepsAt(op, path, at) /\ s.put \subseteq Releases(s)
    BY <1>1, <1>2 DEF Keeps, Releases
  <2> QED BY <1>2, <2>1 DEF KeepsAt
<1>9. ReleasedOnce'
  BY <1>1, <1>8 DEF ReleasedOnce, OpsInv, Promises
<1> QED
  BY <1>1, <1>7, <1>9 DEF OpsInv, BetweenCalls, Promises, AllReleased, RefusedFirst, FailsWhole

LEMMA OpsTakeBack == ASSUME PathsKeep, OpsInv, TakeBack PROVE OpsInv'
<1>1. /\ ret = "none" /\ at <= Len(path) /\ path[at].kind = "undo"
      /\ done' = done \ {path[at].act}
      /\ at' = at + 1 /\ UNCHANGED <<op, path, held, gone, twice, ret>>
  BY DEF TakeBack, Running
<1>2. at \in 1 .. Len(path) /\ path \in Seq(Steps) /\ Reached(path, at)
      /\ op \in DOMAIN Paths /\ path \in Paths[op] /\ Keeps(op, path)
      /\ held = HeldAt(path, at) /\ gone = GoneAt(path, at) /\ done = DoneAt(path, at)
      /\ path[at].get = {} /\ path[at].put = {}
  BY <1>1, OnPath DEF OpsInv, FollowsPath
<1>3. held' = HeldAt(path, at') /\ gone' = GoneAt(path, at')
  <2>1. HeldAt(path, at + 1) = HeldAt(path, at) /\ GoneAt(path, at + 1) = GoneAt(path, at)
    <3>1. /\ HeldAt(path, at + 1) = (HeldAt(path, at) \cup path[at].get) \ path[at].put
          /\ GoneAt(path, at + 1) =
               (GoneAt(path, at) \cup (HeldAt(path, at) \cap path[at].put)) \ path[at].get
      BY <1>2, HeldStep
    <3> QED BY <1>2, <3>1, Zenon
  <2> QED BY <1>1, <1>2, <2>1
<1>4. done' = DoneAt(path, at')
  BY <1>1, <1>2, DoneStep
<1>5. Reached(path, at')
  BY <1>1, <1>2, ReachedStep
<1>6. at' \in 1 .. Len(path) + 1
  <2>1. Len(path) \in Nat
    BY <1>2
  <2> QED BY <1>1, <1>2, <2>1
<1>7. FollowsPath'
  BY <1>1, <1>2, <1>3, <1>4, <1>5, <1>6 DEF FollowsPath
<1> QED
  BY <1>1, <1>7 DEF OpsInv, BetweenCalls, Promises, AllReleased, ReleasedOnce, RefusedFirst,
                    FailsWhole

LEMMA OpsEnd ==
    ASSUME PathsKeep, OpsInv, NEW kinds \in SUBSET EndKinds, NEW result, End(kinds, result),
           result \in {"ok", "failed", "refused", "no", "crash"},
           result = "refused" => kinds \subseteq {"refuse", "refuse!"},
           result \in {"failed", "no"} => kinds \subseteq {"fail", "fail!", "quote", "no"}
    PROVE  OpsInv'
<1> DEFINE s == path[at]
<1>1. /\ ret = "none" /\ at <= Len(path) /\ s.kind \in kinds
      /\ held' = held \ s.lose /\ twice' = twice \cup (gone \cap s.lose)
      /\ ret' = result /\ UNCHANGED <<op, done>>
  BY DEF End, Running, Release
<1>2. /\ at \in 1 .. Len(path) /\ Reached(path, at) /\ Keeps(op, path)
      /\ held = HeldAt(path, at) /\ gone = GoneAt(path, at) /\ done = DoneAt(path, at)
  BY <1>1, OnPath
<1>3. KeepsAt(op, path, at) /\ s.kind \in EndKinds /\ s.lose \subseteq Releases(s)
  BY <1>1, <1>2 DEF Keeps, Releases
<1>4. AllReleased'
  BY <1>1, <1>2, <1>3 DEF AllReleased, KeepsAt
<1>5. ReleasedOnce'
  <2>1. \A r \in gone \cap s.lose : <<op, r>> \in TwiceFreed
    BY <1>2, <1>3 DEF KeepsAt
  <2> QED BY <1>1, <2>1 DEF ReleasedOnce, OpsInv, Promises
<1>6. RefusedFirst'
  BY <1>1, <1>2, <1>3 DEF RefusedFirst, KeepsAt
<1>7. FailsWhole'
  BY <1>1, <1>2, <1>3 DEF FailsWhole, KeepsAt
<1>9. FollowsPath' /\ BetweenCalls'
  BY <1>1 DEF FollowsPath, BetweenCalls
<1> QED BY <1>4, <1>5, <1>6, <1>7, <1>9 DEF OpsInv, Promises

LEMMA OpsReturn == ASSUME PathsKeep, OpsInv, Return PROVE OpsInv'
<1>1. ret = "none" /\ at > Len(path) /\ ret' = "ok" /\ UNCHANGED <<op, held, gone, twice, done>>
  BY DEF Return
<1>2. path \in Seq(Steps) /\ at \in 1 .. Len(path) + 1 /\ Reached(path, at) /\ Keeps(op, path)
      /\ held = HeldAt(path, at)
  BY <1>1, OnPath
<1>3. at = Len(path) + 1
  BY <1>1, <1>2
<1>4. \A r \in held : <<op, r>> \in Leaks
  BY <1>2, <1>3 DEF Keeps, KeepsAtEnd
<1> QED
  BY <1>1, <1>4 DEF OpsInv, FollowsPath, BetweenCalls, Promises, AllReleased, ReleasedOnce,
                    RefusedFirst, FailsWhole

LEMMA OpsStep == PathsKeep /\ OpsInv /\ [Next]_vars => OpsInv'
<1> SUFFICES ASSUME PathsKeep, OpsInv, [Next]_vars PROVE OpsInv'
  OBVIOUS
<1>1. CASE Call BY <1>1, OpsCall
<1>2. CASE Go BY <1>2, OpsGo
<1>3. CASE TakeBack BY <1>3, OpsTakeBack
<1>4. CASE Fails BY <1>4, OpsEnd DEF Fails, EndKinds
<1>5. CASE Refuses BY <1>5, OpsEnd DEF Refuses, EndKinds
<1>6. CASE AnswersNo BY <1>6, OpsEnd DEF AnswersNo, EndKinds
<1>7. CASE HasEnough BY <1>7, OpsEnd DEF HasEnough, EndKinds
<1>8. CASE ReadsNoError BY <1>8, OpsEnd DEF ReadsNoError, EndKinds
<1>9. CASE Return BY <1>9, OpsReturn
<1>10. CASE Forget
  BY <1>10 DEF Forget, OpsInv, FollowsPath, BetweenCalls, Promises, AllReleased, ReleasedOnce,
               RefusedFirst, FailsWhole
<1>11. CASE UNCHANGED vars
  BY <1>11 DEF vars, OpsInv, FollowsPath, BetweenCalls, Promises, AllReleased, ReleasedOnce,
               RefusedFirst, FailsWhole
<1> QED
  BY <1>1, <1>2, <1>3, <1>4, <1>5, <1>6, <1>7, <1>8, <1>9, <1>10, <1>11 DEF Next

\* For any functions whose paths keep the promises, a call that has returned,
\* wherever it ended, holds nothing but what Leaks allows its function.
THEOREM ReleasedCorrect == ASSUME PathsKeep PROVE Spec => []AllReleased
<1>1. OpsInv /\ [Next]_vars => OpsInv'
  BY OpsStep
<1>2. OpsInv => AllReleased
  BY DEF OpsInv, Promises
<1> QED BY OpsInit, <1>1, <1>2, PTL DEF Spec

\* For any functions whose paths keep the promises, a resource that was released
\* by a step that succeeded is not released again by a later error path.
THEOREM OnceCorrect == ASSUME PathsKeep PROVE Spec => []ReleasedOnce
<1>1. OpsInv /\ [Next]_vars => OpsInv'
  BY OpsStep
<1>2. OpsInv => ReleasedOnce
  BY DEF OpsInv, Promises
<1> QED BY OpsInit, <1>1, <1>2, PTL DEF Spec

\* For any functions whose paths keep the promises, a refused call has changed
\* nothing, whichever of its steps succeeded before the refusal.
THEOREM RefusedCorrect == ASSUME PathsKeep PROVE Spec => []RefusedFirst
<1>1. OpsInv /\ [Next]_vars => OpsInv'
  BY OpsStep
<1>2. OpsInv => RefusedFirst
  BY DEF OpsInv, Promises
<1> QED BY OpsInit, <1>1, <1>2, PTL DEF Spec

\* For any functions whose paths keep the promises, a call that failed has
\* changed nothing, or has taken all of its changes back before it returned.
THEOREM WholeCorrect == ASSUME PathsKeep PROVE Spec => []FailsWhole
<1>1. OpsInv /\ [Next]_vars => OpsInv'
  BY OpsStep
<1>2. OpsInv => FailsWhole
  BY DEF OpsInv, Promises
<1> QED BY OpsInit, <1>1, <1>2, PTL DEF Spec

-----------------------------------------------------------------------------
(* Passes of a loop.  A path of four passes or more does nothing that one  *)
(* of the paths with a pass less does not do: for something to be held or  *)
(* changed at a step one earlier step counts, for something to be released *)
(* again two, and the other passes can be left out.                        *)

\* q is p without the m steps after its n-th.
Without(p, q, n, m) ==
    /\ p \in Seq(Steps) /\ q \in Seq(Steps) /\ n \in 0 .. Len(q) /\ m \in Nat
    /\ Len(p) = Len(q) + m
    /\ \A k \in 1 .. n : q[k] = p[k]
    /\ \A k \in n + 1 .. Len(q) : q[k] = p[k + m]

LEMMA WithoutMiddle ==
    ASSUME NEW u \in Seq(Steps), NEW v \in Seq(Steps), NEW w \in Seq(Steps)
    PROVE  Without((u \o v) \o w, u \o w, Len(u), Len(v))
<1>1. /\ (u \o v) \o w \in Seq(Steps) /\ u \o w \in Seq(Steps)
      /\ Len(u) \in Nat /\ Len(v) \in Nat /\ Len(w) \in Nat
      /\ Len((u \o v) \o w) = Len(u) + Len(v) + Len(w) /\ Len(u \o w) = Len(u) + Len(w)
  OBVIOUS
<1>2. \A k \in 1 .. Len(u) : (u \o w)[k] = u[k] /\ (u \o v)[k] = u[k]
  OBVIOUS
<1>3. \A k \in 1 .. Len(u) : ((u \o v) \o w)[k] = (u \o v)[k]
  OBVIOUS
<1>4. \A k \in Len(u) + 1 .. Len(u) + Len(w) : (u \o w)[k] = w[k - Len(u)]
  OBVIOUS
<1>5. \A k \in Len(u) + 1 .. Len(u) + Len(w) : ((u \o v) \o w)[k + Len(v)] = w[k - Len(u)]
  <2> TAKE k \in Len(u) + 1 .. Len(u) + Len(w)
  <2> DEFINE x == u \o v
  <2>1. x \in Seq(Steps) /\ Len(x) = Len(u) + Len(v)
    OBVIOUS
  <2> HIDE DEF x
  <2>2. (x \o w)[k + Len(v)] = w[(k + Len(v)) - Len(x)]
    BY <1>1, <2>1, ConcatProperties
  <2>3. (k + Len(v)) - Len(x) = k - Len(u)
    BY <1>1, <2>1
  <2> QED BY <2>2, <2>3 DEF x
<1> QED BY <1>1, <1>2, <1>3, <1>4, <1>5 DEF Without

LEMMA SincePrefix ==
    ASSUME NEW i \in Nat, NEW b1, NEW t1, NEW b2, NEW t2,
           \A k \in 1 .. i - 1 : b1[k] = b2[k] /\ t1[k] = t2[k]
    PROVE  Since(b1, t1, i) \subseteq Since(b2, t2, i)
<1> SUFFICES ASSUME NEW x \in Since(b1, t1, i) PROVE x \in Since(b2, t2, i)
  OBVIOUS
<1>1. PICK j \in 1 .. i - 1 : x \in b1[j] /\ \A k \in j .. i - 1 : x \notin t1[k]
  BY DEF Since
<1>2. x \in b2[j] /\ \A k \in j .. i - 1 : x \notin t2[k]
  BY <1>1
<1> QED BY <1>2 DEF Since

\* The place of step j of p on q, and how the steps after it compare.
Shifted(j, n, m) == IF j <= n THEN j ELSE j - m

LEMMA ShiftedPlaces ==
    ASSUME NEW n \in Nat, NEW m \in Nat, NEW i \in Nat, i > n + m,
           NEW j \in 1 .. i - 1, j \notin n + 1 .. n + m
    PROVE  /\ Shifted(j, n, m) \in 1 .. (i - m) - 1
           /\ \A k \in Shifted(j, n, m) .. (i - m) - 1 :
                /\ k <= n => k \in 1 .. n /\ k \in j .. i - 1
                /\ k > n => k \in n + 1 .. (i - m) - 1 /\ k + m \in j .. i - 1
<1>1. CASE j <= n
  BY <1>1 DEF Shifted
<1>2. CASE j > n
  BY <1>2 DEF Shifted
<1> QED BY <1>1, <1>2

\* The steps before i are the same on both paths.
SameBefore(p, q, i) ==
    /\ p \in Seq(Steps) /\ q \in Seq(Steps) /\ i \in Nat
    /\ i - 1 <= Len(p) /\ i - 1 <= Len(q)
    /\ \A k \in 1 .. i - 1 : p[k] = q[k]

LEMMA SameEarlier ==
    ASSUME NEW p, NEW q, NEW i, SameBefore(p, q, i), NEW j \in 1 .. i PROVE SameBefore(p, q, j)
<1>1. i \in Nat /\ Len(p) \in Nat /\ Len(q) \in Nat
  BY DEF SameBefore
<1>2. j \in Nat /\ j - 1 <= Len(p) /\ j - 1 <= Len(q)
  BY <1>1 DEF SameBefore
<1>3. ASSUME NEW k \in 1 .. j - 1 PROVE k \in 1 .. i - 1
  BY <1>1
<1> QED BY <1>2, <1>3 DEF SameBefore

LEMMA PrefixHeld == ASSUME NEW p, NEW q, NEW i, SameBefore(p, q, i) PROVE HeldAt(p, i) = HeldAt(q, i)
<1>1. \A k \in 1 .. i - 1 : Gets(p)[k] = Gets(q)[k] /\ Puts(p)[k] = Puts(q)[k]
  BY DEF SameBefore, Gets, Puts
<1>2. i \in Nat
  BY DEF SameBefore
<1>3. HeldAt(p, i) \subseteq HeldAt(q, i)
  BY <1>1, <1>2, SincePrefix DEF HeldAt
<1>4. HeldAt(q, i) \subseteq HeldAt(p, i)
  BY <1>1, <1>2, SincePrefix DEF HeldAt
<1> QED BY <1>3, <1>4

LEMMA PrefixDone == ASSUME NEW p, NEW q, NEW i, SameBefore(p, q, i) PROVE DoneAt(p, i) = DoneAt(q, i)
<1>1. ASSUME NEW k \in 1 .. i - 1
      PROVE  Makes(p)[k] = Makes(q)[k] /\ Undoes(p)[k] = Undoes(q)[k]
  <2>1. k \in 1 .. Len(p) /\ k \in 1 .. Len(q) /\ p[k] = q[k]
    BY DEF SameBefore
  <2> QED BY <2>1 DEF Makes, Undoes
<1>2. i \in Nat
  BY DEF SameBefore
<1>3. DoneAt(p, i) \subseteq DoneAt(q, i)
  BY <1>1, <1>2, SincePrefix DEF DoneAt
<1>4. DoneAt(q, i) \subseteq DoneAt(p, i)
  BY <1>1, <1>2, SincePrefix DEF DoneAt
<1> QED BY <1>3, <1>4

LEMMA PrefixGone == ASSUME NEW p, NEW q, NEW i, SameBefore(p, q, i) PROVE GoneAt(p, i) = GoneAt(q, i)
<1> DEFINE freed(s) == [k \in 1 .. Len(s) |-> HeldAt(s, k) \cap s[k].put]
<1>1. ASSUME NEW k \in 1 .. i - 1 PROVE freed(p)[k] = freed(q)[k] /\ Gets(p)[k] = Gets(q)[k]
  <2>1. SameBefore(p, q, k)
    BY DEF SameBefore
  <2>2. HeldAt(p, k) = HeldAt(q, k)
    BY <2>1, PrefixHeld
  <2>3. k \in 1 .. Len(p) /\ k \in 1 .. Len(q) /\ p[k] = q[k]
    BY DEF SameBefore
  <2> QED BY <2>2, <2>3 DEF Gets
<1>2. i \in Nat
  BY DEF SameBefore
<1> HIDE DEF freed
<1>3. Since(freed(p), Gets(p), i) = Since(freed(q), Gets(q), i)
  <2>1. Since(freed(p), Gets(p), i) \subseteq Since(freed(q), Gets(q), i)
    BY <1>1, <1>2, SincePrefix
  <2>2. Since(freed(q), Gets(q), i) \subseteq Since(freed(p), Gets(p), i)
    BY <1>1, <1>2, SincePrefix
  <2> QED BY <2>1, <2>2
<1> QED BY <1>3 DEF GoneAt, freed

\* Where a path goes on after the steps that were left out, so does the other.
LEMMA WithoutAfter ==
    ASSUME NEW p, NEW q, NEW n, NEW m, Without(p, q, n, m), NEW i \in n + m + 1 .. Len(p) + 1
    PROVE  /\ n \in Nat /\ m \in Nat /\ i \in Nat /\ i > n + m /\ Len(p) \in Nat /\ Len(q) \in Nat
           /\ i - m \in 1 .. Len(q) + 1 /\ (i = Len(p) + 1 <=> i - m = Len(q) + 1)
           /\ i \in 1 .. Len(p) => i - m \in 1 .. Len(q) /\ q[i - m] = p[i]
           /\ \A k \in 1 .. n : k \in 1 .. Len(p) /\ k \in 1 .. Len(q) /\ q[k] = p[k]
           /\ \A k \in n + 1 .. (i - m) - 1 :
                k \in 1 .. Len(q) /\ k + m \in 1 .. Len(p) /\ q[k] = p[k + m]
           /\ SameBefore(p, q, n + 1)
<1>1. n \in Nat /\ m \in Nat /\ i \in Nat /\ i > n + m /\ Len(p) \in Nat /\ Len(q) \in Nat
      /\ n <= Len(q) /\ Len(p) = Len(q) + m
  BY DEF Without
<1>2. i - m \in 1 .. Len(q) + 1 /\ (i = Len(p) + 1 <=> i - m = Len(q) + 1)
  BY <1>1
<1>3. ASSUME i \in 1 .. Len(p) PROVE i - m \in 1 .. Len(q) /\ q[i - m] = p[i]
  <2>1. i - m \in n + 1 .. Len(q) /\ (i - m) + m = i
    BY <1>1, <1>3
  <2> QED BY <1>1, <2>1 DEF Without
<1>4. \A k \in 1 .. n : k \in 1 .. Len(p) /\ k \in 1 .. Len(q) /\ q[k] = p[k]
  BY <1>1 DEF Without
<1>5. ASSUME NEW k \in n + 1 .. (i - m) - 1
      PROVE  k \in 1 .. Len(q) /\ k + m \in 1 .. Len(p) /\ q[k] = p[k + m]
  <2>1. k \in n + 1 .. Len(q) /\ k \in 1 .. Len(q) /\ k + m \in 1 .. Len(p)
    BY <1>1
  <2> QED BY <2>1 DEF Without
<1>6. SameBefore(p, q, n + 1)
  BY <1>1, <1>4 DEF SameBefore, Without
<1> QED BY <1>1, <1>2, <1>3, <1>4, <1>5, <1>6

LEMMA WithoutReached ==
    ASSUME NEW p, NEW q, NEW n, NEW m, Without(p, q, n, m), NEW i \in n + m + 1 .. Len(p) + 1,
           Reached(p, i)
    PROVE  Reached(q, i - m)
<1> SUFFICES ASSUME NEW k \in 1 .. (i - m) - 1 PROVE q[k].kind \notin {"fail!", "refuse!"}
  BY DEF Reached
<1>1. n \in Nat /\ m \in Nat /\ i \in Nat /\ i > n + m
  BY WithoutAfter
<1>2. CASE k <= n
  <2>1. k \in 1 .. n /\ k \in 1 .. i - 1
    BY <1>1, <1>2
  <2>2. q[k] = p[k]
    BY <2>1, WithoutAfter
  <2> QED BY <2>1, <2>2 DEF Reached
<1>3. CASE k > n
  <2>1. k \in n + 1 .. (i - m) - 1 /\ k + m \in 1 .. i - 1
    BY <1>1, <1>3
  <2>2. q[k] = p[k + m]
    BY <2>1, WithoutAfter
  <2> QED BY <2>1, <2>2 DEF Reached
<1> QED BY <1>1, <1>2, <1>3

\* What is held for a step that was not left out is held on the other path.
LEMMA WithoutHeld ==
    ASSUME NEW p, NEW q, NEW n, NEW m, Without(p, q, n, m), NEW i \in n + m + 1 .. Len(p) + 1,
           NEW j \in 1 .. i - 1, j \notin n + 1 .. n + m, NEW r,
           r \in Gets(p)[j], \A k \in j .. i - 1 : r \notin Puts(p)[k]
    PROVE  r \in HeldAt(q, i - m)
<1> DEFINE jj == Shifted(j, n, m)
<1>1. n \in Nat /\ m \in Nat /\ i \in Nat /\ i > n + m
  BY WithoutAfter
<1>2. ASSUME NEW k \in 1 .. n PROVE Puts(q)[k] = Puts(p)[k] /\ Gets(q)[k] = Gets(p)[k]
  <2>1. k \in 1 .. Len(p) /\ k \in 1 .. Len(q) /\ q[k] = p[k]
    BY WithoutAfter
  <2> QED BY <2>1 DEF Puts, Gets
<1>3. ASSUME NEW k \in n + 1 .. (i - m) - 1
      PROVE  Puts(q)[k] = Puts(p)[k + m] /\ Gets(q)[k] = Gets(p)[k + m]
  <2>1. k \in 1 .. Len(q) /\ k + m \in 1 .. Len(p) /\ q[k] = p[k + m]
    <3>1. \A h \in n + 1 .. (i - m) - 1 :
             h \in 1 .. Len(q) /\ h + m \in 1 .. Len(p) /\ q[h] = p[h + m]
      BY WithoutAfter
    <3> QED BY <3>1, Zenon
  <2> QED BY <2>1 DEF Puts, Gets
<1>4. r \in Gets(q)[jj]
  <2>1. CASE j <= n
    BY <1>1, <1>2, <2>1 DEF Shifted
  <2>2. CASE j > n
    <3>1. jj \in n + 1 .. (i - m) - 1 /\ jj + m = j
      BY <1>1, <2>2 DEF Shifted
    <3> QED BY <1>3, <3>1
  <2> QED BY <1>1, <2>1, <2>2
<1>5. ASSUME NEW k \in jj .. (i - m) - 1 PROVE r \notin Puts(q)[k]
  <2>1. CASE k <= n
    BY <1>1, <1>2, <2>1, ShiftedPlaces
  <2>2. CASE k > n
    BY <1>1, <1>3, <2>2, ShiftedPlaces
  <2>3. k \in Int
    OBVIOUS
  <2> QED BY <1>1, <2>1, <2>2, <2>3
<1>6. jj \in 1 .. (i - m) - 1
  BY <1>1, ShiftedPlaces
<1> HIDE DEF jj
<1> QED BY <1>4, <1>5, <1>6 DEF HeldAt, Since

LEMMA WithoutDone ==
    ASSUME NEW p, NEW q, NEW n, NEW m, Without(p, q, n, m), NEW i \in n + m + 1 .. Len(p) + 1,
           NEW j \in 1 .. i - 1, j \notin n + 1 .. n + m, NEW a,
           a \in Makes(p)[j], \A k \in j .. i - 1 : a \notin Undoes(p)[k]
    PROVE  a \in DoneAt(q, i - m)
<1> DEFINE jj == Shifted(j, n, m)
<1>1. n \in Nat /\ m \in Nat /\ i \in Nat /\ i > n + m
  BY WithoutAfter
<1>2. ASSUME NEW k \in 1 .. n PROVE Undoes(q)[k] = Undoes(p)[k] /\ Makes(q)[k] = Makes(p)[k]
  <2>1. k \in 1 .. Len(p) /\ k \in 1 .. Len(q) /\ q[k] = p[k]
    BY WithoutAfter
  <2> QED BY <2>1 DEF Undoes, Makes
<1>3. ASSUME NEW k \in n + 1 .. (i - m) - 1
      PROVE  Undoes(q)[k] = Undoes(p)[k + m] /\ Makes(q)[k] = Makes(p)[k + m]
  <2>1. k \in 1 .. Len(q) /\ k + m \in 1 .. Len(p) /\ q[k] = p[k + m]
    <3>1. \A h \in n + 1 .. (i - m) - 1 :
             h \in 1 .. Len(q) /\ h + m \in 1 .. Len(p) /\ q[h] = p[h + m]
      BY WithoutAfter
    <3> QED BY <3>1, Zenon
  <2> QED BY <2>1 DEF Undoes, Makes
<1>4. a \in Makes(q)[jj]
  <2>1. CASE j <= n
    BY <1>1, <1>2, <2>1 DEF Shifted
  <2>2. CASE j > n
    <3>1. jj \in n + 1 .. (i - m) - 1 /\ jj + m = j
      BY <1>1, <2>2 DEF Shifted
    <3> QED BY <1>3, <3>1
  <2> QED BY <1>1, <2>1, <2>2
<1>5. ASSUME NEW k \in jj .. (i - m) - 1 PROVE a \notin Undoes(q)[k]
  <2>1. CASE k <= n
    BY <1>1, <1>2, <2>1, ShiftedPlaces
  <2>2. CASE k > n
    BY <1>1, <1>3, <2>2, ShiftedPlaces
  <2>3. k \in Int
    OBVIOUS
  <2> QED BY <1>1, <2>1, <2>2, <2>3
<1>6. jj \in 1 .. (i - m) - 1
  BY <1>1, ShiftedPlaces
<1> HIDE DEF jj
<1> QED BY <1>4, <1>5, <1>6 DEF DoneAt, Since

\* What was acquired at j0 and released at j, neither left out, is released on
\* the other path.
LEMMA WithoutGone ==
    ASSUME NEW p, NEW q, NEW n, NEW m, Without(p, q, n, m), NEW i \in n + m + 1 .. Len(p) + 1,
           NEW j \in 1 .. i - 1, j \notin n + 1 .. n + m, NEW r,
           NEW j0 \in 1 .. j - 1, j0 \notin n + 1 .. n + m,
           r \in Gets(p)[j0], \A k \in j0 .. j - 1 : r \notin Puts(p)[k],
           r \in Puts(p)[j], \A k \in j .. i - 1 : r \notin Gets(p)[k]
    PROVE  r \in GoneAt(q, i - m)
<1> DEFINE freed == [k \in 1 .. Len(q) |-> HeldAt(q, k) \cap q[k].put]
<1>1. n \in Nat /\ m \in Nat /\ i \in Nat /\ i > n + m /\ Len(p) \in Nat /\ Len(q) \in Nat
  BY WithoutAfter
<1>2. ASSUME NEW k \in 1 .. n PROVE Gets(q)[k] = Gets(p)[k]
  <2>1. k \in 1 .. Len(p) /\ k \in 1 .. Len(q) /\ q[k] = p[k]
    BY WithoutAfter
  <2> QED BY <2>1 DEF Gets
<1>3. ASSUME NEW k \in n + 1 .. (i - m) - 1 PROVE Gets(q)[k] = Gets(p)[k + m]
  <2>1. k \in 1 .. Len(q) /\ k + m \in 1 .. Len(p) /\ q[k] = p[k + m]
    <3>1. \A h \in n + 1 .. (i - m) - 1 :
             h \in 1 .. Len(q) /\ h + m \in 1 .. Len(p) /\ q[h] = p[h + m]
      BY WithoutAfter
    <3> QED BY <3>1, Zenon
  <2> QED BY <2>1 DEF Gets
<1>4. ASSUME j <= n PROVE r \in freed[j]
  <2>1. j \in 1 .. Len(p) /\ j \in 1 .. Len(q) /\ q[j] = p[j]
    <3>1. j \in 1 .. n
      BY <1>1, <1>4
    <3> QED BY <3>1, WithoutAfter
  <2>2. r \in HeldAt(p, j)
    BY DEF HeldAt, Since
  <2>3. SameBefore(p, q, j)
    <3>1. SameBefore(p, q, n + 1)
      BY WithoutAfter
    <3>2. j \in 1 .. n + 1
      BY <1>1, <1>4
    <3> QED BY <3>1, <3>2, SameEarlier
  <2>4. r \in HeldAt(q, j)
    BY <2>2, <2>3, PrefixHeld
  <2>5. r \in q[j].put
    BY <2>1 DEF Puts
  <2> QED BY <2>1, <2>4, <2>5
<1>5. ASSUME j > n PROVE r \in freed[j - m]
  <2>1. j - m \in n + 1 .. (i - m) - 1 /\ (j - m) + m = j /\ j \in n + m + 1 .. Len(p) + 1
    BY <1>1, <1>5
  <2>2. j - m \in 1 .. Len(q) /\ j \in 1 .. Len(p) /\ q[j - m] = p[j]
    BY <2>1, WithoutAfter
  <2>3. r \in HeldAt(q, j - m)
    BY <2>1, WithoutHeld
  <2>4. r \in q[j - m].put
    BY <2>2 DEF Puts
  <2> QED BY <2>2, <2>3, <2>4
<1> HIDE DEF freed
<1> DEFINE jj == Shifted(j, n, m)
<1>6. r \in Since(freed, Gets(q), i - m)
  <2>1. r \in freed[jj]
    BY <1>1, <1>4, <1>5 DEF Shifted
  <2>2. ASSUME NEW k \in jj .. (i - m) - 1 PROVE r \notin Gets(q)[k]
    <3>1. CASE k <= n
      BY <1>1, <1>2, <3>1, ShiftedPlaces
    <3>2. CASE k > n
      BY <1>1, <1>3, <3>2, ShiftedPlaces
    <3>3. k \in Int
      OBVIOUS
    <3> QED BY <1>1, <3>1, <3>2, <3>3
  <2>3. jj \in 1 .. (i - m) - 1
    BY <1>1, ShiftedPlaces
  <2> HIDE DEF jj
  <2> QED BY <2>1, <2>2, <2>3 DEF Since
<1> QED BY <1>6 DEF GoneAt, freed

-----------------------------------------------------------------------------
(* One pass more.                                                          *)

\* q1 to q4 are p without one of four passes, the last of which ends at n4.
Passes(p, q1, q2, q3, q4, n0, n1, n2, n3, n4) ==
    /\ n0 \in Nat /\ n1 \in Nat /\ n2 \in Nat /\ n3 \in Nat /\ n4 \in Nat
    /\ n0 <= n1 /\ n1 <= n2 /\ n2 <= n3 /\ n3 <= n4
    /\ Without(p, q1, n0, n1 - n0) /\ Without(p, q2, n1, n2 - n1)
    /\ Without(p, q3, n2, n3 - n2) /\ Without(p, q4, n3, n4 - n3)

LEMMA HeldOnceMore ==
    ASSUME NEW p, NEW q1, NEW q2, NEW q3, NEW q4, NEW n0, NEW n1, NEW n2, NEW n3, NEW n4,
           Passes(p, q1, q2, q3, q4, n0, n1, n2, n3, n4), NEW i \in n3 + 1 .. Len(p) + 1
    PROVE  /\ HeldAt(p, i) \subseteq HeldAt(q1, i - (n1 - n0)) \cup HeldAt(q2, i - (n2 - n1))
           /\ DoneAt(p, i) \subseteq DoneAt(q1, i - (n1 - n0)) \cup DoneAt(q2, i - (n2 - n1))
<1> DEFINE m1 == n1 - n0
           m2 == n2 - n1
<1>1. Len(p) \in Nat /\ n0 \in Nat /\ n1 \in Nat /\ n2 \in Nat /\ n3 \in Nat /\ m1 \in Nat /\ m2 \in Nat
      /\ n0 + m1 = n1 /\ n1 + m2 = n2 /\ n0 <= n1 /\ n1 <= n2 /\ n2 <= n3
  BY DEF Passes, Without
<1>2. Without(p, q1, n0, m1) /\ Without(p, q2, n1, m2)
  BY DEF Passes
<1>3. i \in n0 + m1 + 1 .. Len(p) + 1 /\ i \in n1 + m2 + 1 .. Len(p) + 1
  BY <1>1
<1>4. \A j : j \notin n0 + 1 .. n0 + m1 \/ j \notin n1 + 1 .. n1 + m2
  BY <1>1
<1> HIDE DEF m1, m2
<1>5. ASSUME NEW r \in HeldAt(p, i) PROVE r \in HeldAt(q1, i - m1) \cup HeldAt(q2, i - m2)
  <2>1. PICK j \in 1 .. i - 1 : r \in Gets(p)[j] /\ \A k \in j .. i - 1 : r \notin Puts(p)[k]
    BY DEF HeldAt, Since
  <2>2. CASE j \notin n0 + 1 .. n0 + m1
    BY <1>2, <1>3, <2>1, <2>2, WithoutHeld
  <2>3. CASE j \notin n1 + 1 .. n1 + m2
    BY <1>2, <1>3, <2>1, <2>3, WithoutHeld
  <2> QED BY <1>4, <2>2, <2>3
<1>6. ASSUME NEW a \in DoneAt(p, i) PROVE a \in DoneAt(q1, i - m1) \cup DoneAt(q2, i - m2)
  <2>1. PICK j \in 1 .. i - 1 : a \in Makes(p)[j] /\ \A k \in j .. i - 1 : a \notin Undoes(p)[k]
    BY DEF DoneAt, Since
  <2>2. CASE j \notin n0 + 1 .. n0 + m1
    BY <1>2, <1>3, <2>1, <2>2, WithoutDone
  <2>3. CASE j \notin n1 + 1 .. n1 + m2
    BY <1>2, <1>3, <2>1, <2>3, WithoutDone
  <2> QED BY <1>4, <2>2, <2>3
<1> QED BY <1>5, <1>6 DEF m1, m2

LEMMA GoneOnceMore ==
    ASSUME NEW p, NEW q1, NEW q2, NEW q3, NEW q4, NEW n0, NEW n1, NEW n2, NEW n3, NEW n4,
           Passes(p, q1, q2, q3, q4, n0, n1, n2, n3, n4), NEW i \in n3 + 1 .. Len(p) + 1
    PROVE  GoneAt(p, i) \subseteq GoneAt(q1, i - (n1 - n0)) \cup GoneAt(q2, i - (n2 - n1))
                                   \cup GoneAt(q3, i - (n3 - n2))
<1> DEFINE m1 == n1 - n0
           m2 == n2 - n1
           m3 == n3 - n2
<1>1. Len(p) \in Nat /\ n0 \in Nat /\ n1 \in Nat /\ n2 \in Nat /\ n3 \in Nat
      /\ m1 \in Nat /\ m2 \in Nat /\ m3 \in Nat
      /\ n0 + m1 = n1 /\ n1 + m2 = n2 /\ n2 + m3 = n3 /\ n0 <= n1 /\ n1 <= n2 /\ n2 <= n3
  BY DEF Passes, Without
<1>2. Without(p, q1, n0, m1) /\ Without(p, q2, n1, m2) /\ Without(p, q3, n2, m3)
  BY DEF Passes
<1>3. i \in n0 + m1 + 1 .. Len(p) + 1 /\ i \in n1 + m2 + 1 .. Len(p) + 1
      /\ i \in n2 + m3 + 1 .. Len(p) + 1
  BY <1>1
<1> DEFINE C1 == n0 + 1 .. n0 + m1
           C2 == n1 + 1 .. n1 + m2
           C3 == n2 + 1 .. n2 + m3
<1>4. C1 \cap C2 = {} /\ C1 \cap C3 = {} /\ C2 \cap C3 = {}
  BY <1>1
<1> HIDE DEF m1, m2, m3
<1> DEFINE freed == [k \in 1 .. Len(p) |-> HeldAt(p, k) \cap p[k].put]
<1>5. ASSUME NEW r \in GoneAt(p, i)
      PROVE  r \in GoneAt(q1, i - m1) \cup GoneAt(q2, i - m2) \cup GoneAt(q3, i - m3)
  <2>1. PICK j \in 1 .. i - 1 : r \in freed[j] /\ \A k \in j .. i - 1 : r \notin Gets(p)[k]
    <3> HIDE DEF freed
    <3>1. r \in Since(freed, Gets(p), i)
      BY DEF GoneAt, freed
    <3> QED BY <3>1 DEF Since
  <2>2. j \in 1 .. Len(p)
    BY <1>1
  <2>3. r \in HeldAt(p, j) /\ r \in Puts(p)[j]
    BY <2>1, <2>2 DEF Puts
  <2>4. PICK j0 \in 1 .. j - 1 : r \in Gets(p)[j0] /\ \A k \in j0 .. j - 1 : r \notin Puts(p)[k]
    BY <2>3 DEF HeldAt, Since
  <2> HIDE DEF freed
  <2>5. \/ j \notin C1 /\ j0 \notin C1
        \/ j \notin C2 /\ j0 \notin C2
        \/ j \notin C3 /\ j0 \notin C3
    <3> HIDE DEF C1, C2, C3
    <3> QED BY <1>4
  <2>6. CASE j \notin C1 /\ j0 \notin C1
    BY <1>2, <1>3, <2>1, <2>3, <2>4, <2>6, WithoutGone
  <2>7. CASE j \notin C2 /\ j0 \notin C2
    BY <1>2, <1>3, <2>1, <2>3, <2>4, <2>7, WithoutGone
  <2>8. CASE j \notin C3 /\ j0 \notin C3
    BY <1>2, <1>3, <2>1, <2>3, <2>4, <2>8, WithoutGone
  <2> QED BY <2>5, <2>6, <2>7, <2>8
<1> QED BY <1>5 DEF m1, m2, m3

\* Before the last pass ends nothing can tell that there is one.
LEMMA BeforeLastPass ==
    ASSUME NEW f, NEW p, NEW q, NEW n, NEW m, Without(p, q, n, m), Keeps(f, q),
           NEW i \in 1 .. n, Reached(p, i)
    PROVE  KeepsAt(f, p, i)
<1>1. /\ i \in 1 .. Len(q) /\ i \in 1 .. Len(p) /\ p \in Seq(Steps) /\ q \in Seq(Steps)
      /\ \A k \in 1 .. i : p[k] = q[k]
  BY DEF Without
<1>2. SameBefore(p, q, i)
  BY <1>1 DEF SameBefore
<1>3. Reached(q, i)
  BY <1>1 DEF Reached
<1>4. HeldAt(p, i) = HeldAt(q, i) /\ GoneAt(p, i) = GoneAt(q, i) /\ DoneAt(p, i) = DoneAt(q, i)
  BY <1>2, PrefixHeld, PrefixGone, PrefixDone
<1>5. KeepsAt(f, q, i)
  BY <1>1, <1>3 DEF Keeps
<1>6. p[i] = q[i]
  BY <1>1
<1> QED BY <1>4, <1>5, <1>6 DEF KeepsAt

\* The end of path p, and the same end on the path without a pass.
LEMMA AfterLastPass ==
    ASSUME NEW f, NEW p, NEW q, NEW n, NEW m, Without(p, q, n, m), Keeps(f, q),
           NEW i \in n + m + 1 .. Len(p) + 1, Reached(p, i)
    PROVE  /\ i \in 1 .. Len(p) => KeepsAt(f, q, i - m) /\ q[i - m] = p[i]
           /\ i = Len(p) + 1 => KeepsAtEnd(f, q) /\ i - m = Len(q) + 1
<1>1. Reached(q, i - m)
  BY WithoutReached
<1>2. ASSUME i \in 1 .. Len(p) PROVE KeepsAt(f, q, i - m) /\ q[i - m] = p[i]
  <2>1. i - m \in 1 .. Len(q) /\ q[i - m] = p[i]
    BY <1>2, WithoutAfter
  <2> QED BY <1>1, <2>1 DEF Keeps
<1>3. ASSUME i = Len(p) + 1 PROVE KeepsAtEnd(f, q) /\ i - m = Len(q) + 1
  <2>1. i - m = Len(q) + 1
    BY <1>3, WithoutAfter
  <2> QED BY <1>1, <2>1 DEF Keeps
<1> QED BY <1>2, <1>3

LEMMA OneMorePass ==
    ASSUME NEW f,
           NEW p, NEW q1, NEW q2, NEW q3, NEW q4, NEW n0, NEW n1, NEW n2, NEW n3, NEW n4,
           Passes(p, q1, q2, q3, q4, n0, n1, n2, n3, n4),
           Keeps(f, q1), Keeps(f, q2), Keeps(f, q3), Keeps(f, q4)
    PROVE  Keeps(f, p)
<1> DEFINE m1 == n1 - n0
           m2 == n2 - n1
           m3 == n3 - n2
<1>1. Len(p) \in Nat /\ n0 \in Nat /\ n1 \in Nat /\ n2 \in Nat /\ n3 \in Nat
      /\ m1 \in Nat /\ m2 \in Nat /\ m3 \in Nat /\ n3 <= Len(p)
      /\ n0 + m1 = n1 /\ n1 + m2 = n2 /\ n2 + m3 = n3 /\ n0 <= n1 /\ n1 <= n2 /\ n2 <= n3
  BY DEF Passes, Without
<1>2. Without(p, q1, n0, m1) /\ Without(p, q2, n1, m2) /\ Without(p, q3, n2, m3)
      /\ Without(p, q4, n3, n4 - n3)
  BY DEF Passes
<1>3. ASSUME NEW i \in n3 + 1 .. Len(p) + 1
      PROVE  i \in n0 + m1 + 1 .. Len(p) + 1 /\ i \in n1 + m2 + 1 .. Len(p) + 1
             /\ i \in n2 + m3 + 1 .. Len(p) + 1
  BY <1>1
<1>4. ASSUME NEW i \in n3 + 1 .. Len(p) + 1
      PROVE  /\ HeldAt(p, i) \subseteq HeldAt(q1, i - m1) \cup HeldAt(q2, i - m2)
             /\ DoneAt(p, i) \subseteq DoneAt(q1, i - m1) \cup DoneAt(q2, i - m2)
             /\ GoneAt(p, i) \subseteq GoneAt(q1, i - m1) \cup GoneAt(q2, i - m2) \cup GoneAt(q3, i - m3)
  BY HeldOnceMore, GoneOnceMore
<1> HIDE DEF m1, m2, m3
<1>5. ASSUME NEW i \in 1 .. Len(p), Reached(p, i) PROVE KeepsAt(f, p, i)
  <2>1. CASE i \in 1 .. n3
    BY <1>2, <1>5, <2>1, BeforeLastPass
  <2>2. CASE i \notin 1 .. n3
    <3>1. i \in n3 + 1 .. Len(p) + 1
      BY <1>1, <2>2
    <3>2. KeepsAt(f, q1, i - m1) /\ q1[i - m1] = p[i]
      BY <1>2, <1>3, <1>5, <3>1, AfterLastPass
    <3>3. KeepsAt(f, q2, i - m2) /\ q2[i - m2] = p[i]
      BY <1>2, <1>3, <1>5, <3>1, AfterLastPass
    <3>4. KeepsAt(f, q3, i - m3) /\ q3[i - m3] = p[i]
      BY <1>2, <1>3, <1>5, <3>1, AfterLastPass
    <3>5. p[i].kind \in EndKinds => \A r \in HeldAt(p, i) \ p[i].lose : <<f, r>> \in Leaks
      BY <1>4, <3>1, <3>2, <3>3 DEF KeepsAt
    <3>6. \A r \in GoneAt(p, i) \cap Releases(p[i]) : <<f, r>> \in TwiceFreed
      BY <1>4, <3>1, <3>2, <3>3, <3>4 DEF KeepsAt
    <3>7. p[i].kind \in {"refuse", "refuse!"} => \A a \in DoneAt(p, i) : <<f, a>> \in LateRefusal
      BY <1>4, <3>1, <3>2, <3>3 DEF KeepsAt
    <3>8. p[i].kind \in {"fail", "fail!", "quote", "no"} => \A a \in DoneAt(p, i) : <<f, a>> \in Partial
      BY <1>4, <3>1, <3>2, <3>3 DEF KeepsAt
    <3> QED BY <3>5, <3>6, <3>7, <3>8 DEF KeepsAt
  <2> QED BY <2>1, <2>2
<1>6. ASSUME Reached(p, Len(p) + 1) PROVE KeepsAtEnd(f, p)
  <2> DEFINE i == Len(p) + 1
  <2>1. i \in n3 + 1 .. Len(p) + 1
    BY <1>1
  <2>2. KeepsAtEnd(f, q1) /\ i - m1 = Len(q1) + 1
    BY <1>2, <1>3, <1>6, <2>1, AfterLastPass
  <2>3. KeepsAtEnd(f, q2) /\ i - m2 = Len(q2) + 1
    BY <1>2, <1>3, <1>6, <2>1, AfterLastPass
  <2>4. HeldAt(p, i) \subseteq HeldAt(q1, Len(q1) + 1) \cup HeldAt(q2, Len(q2) + 1)
    BY <1>4, <2>1, <2>2, <2>3
  <2> QED BY <2>2, <2>3, <2>4 DEF KeepsAtEnd
<1> QED BY <1>5, <1>6 DEF Keeps

\* One path after another.
Then(x, y) == x \o y

LEMMA Associative ==
    ASSUME NEW x \in Seq(Steps), NEW y \in Seq(Steps), NEW z \in Seq(Steps)
    PROVE  Then(Then(x, y), z) = Then(x, Then(y, z))
BY DEF Then

LEMMA Concatenates ==
    ASSUME NEW x \in Seq(Steps), NEW y \in Seq(Steps)
    PROVE  Then(x, y) \in Seq(Steps) /\ Len(Then(x, y)) = Len(x) + Len(y)
BY DEF Then

\* A path of n + 1 passes is one of n and a way through the body.
LEMMA LastPass ==
    ASSUME NEW passes, NEW body,
           \A n \in Nat : passes[n + 1] = {Then(x, b) : x \in passes[n], b \in body}
    PROVE  \A n \in Nat : \A x \in passes[n + 1] : \E y \in passes[n], b \in body : x = Then(y, b)
OBVIOUS

LEMMA NextPass ==
    ASSUME NEW passes, NEW body,
           \A n \in Nat : passes[n + 1] = {Then(x, b) : x \in passes[n], b \in body}
    PROVE  \A n \in Nat : \A x \in passes[n], b \in body : Then(x, b) \in passes[n + 1]
OBVIOUS

LEMMA FourPasses ==
    ASSUME NEW u \in Seq(Steps), NEW b1 \in Seq(Steps), NEW b2 \in Seq(Steps),
           NEW b3 \in Seq(Steps), NEW b4 \in Seq(Steps), NEW c \in Seq(Steps)
    PROVE  Passes(Then(Then(Then(Then(Then(u, b1), b2), b3), b4), c),
                  Then(Then(Then(Then(u, b2), b3), b4), c), Then(Then(Then(Then(u, b1), b3), b4), c),
                  Then(Then(Then(Then(u, b1), b2), b4), c), Then(Then(Then(Then(u, b1), b2), b3), c),
                  Len(u), Len(Then(u, b1)), Len(Then(Then(u, b1), b2)), Len(Then(Then(Then(u, b1), b2), b3)),
                  Len(Then(Then(Then(Then(u, b1), b2), b3), b4)))
<1> DEFINE u1 == Then(u, b1)
           u2 == Then(u1, b2)
           u3 == Then(u2, b3)
           u4 == Then(u3, b4)
           c3 == Then(b4, c)
           c2 == Then(b3, c3)
           c1 == Then(b2, c2)
<1>1. /\ u1 \in Seq(Steps) /\ u2 \in Seq(Steps) /\ u3 \in Seq(Steps)
      /\ c3 \in Seq(Steps) /\ c2 \in Seq(Steps) /\ c1 \in Seq(Steps)
  BY Concatenates
<1>2. /\ Len(u) \in Nat /\ Len(b1) \in Nat /\ Len(b2) \in Nat /\ Len(b3) \in Nat /\ Len(b4) \in Nat
      /\ Len(u1) = Len(u) + Len(b1) /\ Len(u2) = Len(u1) + Len(b2)
      /\ Len(u3) = Len(u2) + Len(b3) /\ Len(u4) = Len(u3) + Len(b4)
  <2>1. /\ Len(u) \in Nat /\ Len(b1) \in Nat /\ Len(b2) \in Nat /\ Len(b3) \in Nat
        /\ Len(b4) \in Nat
    OBVIOUS
  <2>2. Len(u1) = Len(u) + Len(b1)
    BY Concatenates
  <2> HIDE DEF u1
  <2>3. Len(u2) = Len(u1) + Len(b2)
    BY <1>1, Concatenates
  <2> HIDE DEF u2
  <2>4. Len(u3) = Len(u2) + Len(b3)
    BY <1>1, Concatenates
  <2> HIDE DEF u3
  <2>5. Len(u4) = Len(u3) + Len(b4)
    BY <1>1, Concatenates
  <2> QED BY <2>1, <2>2, <2>3, <2>4, <2>5
<1>3. ASSUME NEW x \in Seq(Steps), NEW y \in Seq(Steps)
      PROVE  Then(Then(x, y), c) = Then(x, Then(y, c)) /\ Then(Then(x, b4), c) = Then(x, c3)
             /\ Then(Then(Then(x, b3), b4), c) = Then(x, c2)
             /\ Then(Then(Then(Then(x, b2), b3), b4), c) = Then(x, c1)
  <2>1. Then(Then(x, y), c) = Then(x, Then(y, c)) /\ Then(Then(x, b4), c) = Then(x, c3)
    BY Associative
  <2>2. Then(x, b3) \in Seq(Steps) /\ Then(x, b2) \in Seq(Steps)
    BY Concatenates
  <2>3. Then(Then(Then(x, b3), b4), c) = Then(Then(x, b3), c3)
    BY <2>2, Associative
  <2>4. Then(Then(x, b3), c3) = Then(x, c2)
    BY <1>1, Associative
  <2>5. Then(Then(Then(Then(x, b2), b3), b4), c) = Then(Then(x, b2), c2)
    <3> DEFINE z == Then(x, b2)
    <3>1. z \in Seq(Steps) BY <2>2
    <3> HIDE DEF z
    <3>2. Then(z, b3) \in Seq(Steps) BY <3>1, Concatenates
    <3>3. Then(Then(Then(z, b3), b4), c) = Then(Then(z, b3), c3)
      BY <3>2, Associative
    <3>4. Then(Then(z, b3), c3) = Then(z, c2)
      BY <1>1, <3>1, Associative
    <3> QED BY <3>3, <3>4 DEF z
  <2>6. Then(Then(x, b2), c2) = Then(x, c1)
    BY <1>1, Associative
  <2> QED BY <2>1, <2>3, <2>4, <2>5, <2>6
<1> HIDE DEF u1, u2, u3, c1, c2, c3
<1>4. Without(Then(u1, c1), Then(u, c1), Len(u), Len(b1))
  BY <1>1, WithoutMiddle DEF u1, Then
<1>5. Without(Then(u2, c2), Then(u1, c2), Len(u1), Len(b2))
  BY <1>1, WithoutMiddle DEF u2, Then
<1>6. Without(Then(u3, c3), Then(u2, c3), Len(u2), Len(b3))
  BY <1>1, WithoutMiddle DEF u3, Then
<1>7. Without(Then(u4, c), Then(u3, c), Len(u3), Len(b4))
  BY <1>1, WithoutMiddle DEF Then
<1>8. /\ Then(u4, c) = Then(u3, c3) /\ Then(u4, c) = Then(u2, c2) /\ Then(u4, c) = Then(u1, c1)
      /\ Then(Then(Then(Then(u, b2), b3), b4), c) = Then(u, c1)
      /\ Then(Then(Then(u1, b3), b4), c) = Then(u1, c2)
      /\ Then(Then(u2, b4), c) = Then(u2, c3)
  BY <1>1, <1>3 DEF u2, u3
<1>9. Len(u1) - Len(u) = Len(b1) /\ Len(u2) - Len(u1) = Len(b2) /\ Len(u3) - Len(u2) = Len(b3)
      /\ Len(u4) - Len(u3) = Len(b4)
      /\ Len(u1) \in Nat /\ Len(u2) \in Nat /\ Len(u3) \in Nat /\ Len(u4) \in Nat
      /\ Len(u) <= Len(u1) /\ Len(u1) <= Len(u2) /\ Len(u2) <= Len(u3) /\ Len(u3) <= Len(u4)
  BY <1>2
<1>10. Passes(Then(u4, c), Then(u, c1), Then(u1, c2), Then(u2, c3), Then(u3, c), Len(u), Len(u1), Len(u2), Len(u3), Len(u4))
  BY <1>2, <1>4, <1>5, <1>6, <1>7, <1>8, <1>9 DEF Passes
<1> QED BY <1>8, <1>10 DEF u1, u2, u3

\* However often a loop runs and whichever way it takes through its body each
\* time, the function keeps its promises if it does so for up to three passes:
\* what Loop in CallPaths leaves out shows nothing that it does not.
THEOREM ThreePassesSuffice ==
    ASSUME NEW f, NEW before \in Seq(Steps), NEW after \in Seq(Steps),
           NEW body \in SUBSET Seq(Steps), NEW passes,
           passes[0] = {<< >>},
           \A n \in Nat : passes[n + 1] = {Then(x, b) : x \in passes[n], b \in body},
           \A n \in 0 .. 3 : \A x \in passes[n] : Keeps(f, Then(Then(before, x), after))
    PROVE  \A n \in Nat : \A x \in passes[n] : Keeps(f, Then(Then(before, x), after))
<1>a. ASSUME NEW n \in Nat, NEW x \in passes[n + 1]
      PROVE  \E y \in passes[n], b \in body : x = Then(y, b)
  BY LastPass
<1>b. ASSUME NEW n \in Nat, NEW x \in passes[n], NEW b \in body
      PROVE  Then(x, b) \in passes[n + 1]
  BY NextPass
<1> DEFINE Good(n) == \A x \in passes[n] : x \in Seq(Steps) /\ Keeps(f, Then(Then(before, x), after))
           Bad == {n \in Nat : ~Good(n)}
<1>1. SUFFICES ASSUME Bad # {} PROVE FALSE
  BY <1>1
<1>2. PICK m \in Bad : \A y \in Bad : ~(<<y, m>> \in OpToRel(<, Nat))
  <2>1. IsWellFoundedOn(OpToRel(<, Nat), Nat)
    BY NatLessThanWellFounded
  <2>2. Bad \subseteq Nat
    OBVIOUS
  <2> HIDE DEF Bad
  <2> QED BY <1>1, <2>1, <2>2, WFMin
<1>3. \A k \in Nat : k < m => Good(k)
  <2> SUFFICES ASSUME NEW k \in Nat, k < m, k \in Bad PROVE FALSE
    OBVIOUS
  <2>1. m \in Nat /\ <<k, m>> \in OpToRel(<, Nat)
    BY DEF OpToRel
  <2> QED BY <1>2, <2>1
<1>4. m \in Nat /\ ~Good(m)
  BY <1>2
<1> HIDE DEF Bad
<1>7. m # 0
  <2>1. << >> \in Seq(Steps) /\ 0 \in 0 .. 3
    OBVIOUS
  <2>2. Good(0)
    BY <2>1
  <2> QED BY <1>4, <2>2
<1>8. \A x \in passes[m] : x \in Seq(Steps)
  <2>1. m - 1 \in Nat /\ (m - 1) + 1 = m /\ Good(m - 1)
    BY <1>3, <1>4, <1>7
  <2> TAKE x \in passes[m]
  <2>2. PICK y \in passes[m - 1], b \in body : x = Then(y, b)
    BY <1>a, <2>1
  <2> QED BY <2>1, <2>2, Concatenates
<1>9. m \notin 0 .. 3
  BY <1>4, <1>8
<1>10. PICK x \in passes[m] : ~Keeps(f, Then(Then(before, x), after))
  BY <1>4, <1>8
<1>11. /\ m - 4 \in Nat /\ m - 3 \in Nat /\ m - 2 \in Nat /\ m - 1 \in Nat
       /\ (m - 4) + 1 = m - 3 /\ (m - 3) + 1 = m - 2 /\ (m - 2) + 1 = m - 1 /\ (m - 1) + 1 = m
       /\ m - 4 < m /\ m - 3 < m /\ m - 2 < m /\ m - 1 < m
  BY <1>4, <1>9
<1>12. Good(m - 4) /\ Good(m - 3) /\ Good(m - 2) /\ Good(m - 1)
  BY <1>3, <1>11
<1> HIDE DEF Good
<1>13. PICK y3 \in passes[m - 1], b4 \in body : x = Then(y3, b4)
  <2>1. x \in passes[(m - 1) + 1]
    BY <1>11
  <2> QED BY <1>a, <1>11, <2>1
<1>14. PICK y2 \in passes[m - 2], b3 \in body : y3 = Then(y2, b3)
  <2>1. y3 \in passes[(m - 2) + 1]
    BY <1>11
  <2> QED BY <1>a, <1>11, <2>1
<1>15. PICK y1 \in passes[m - 3], b2 \in body : y2 = Then(y1, b2)
  <2>1. y2 \in passes[(m - 3) + 1]
    BY <1>11
  <2> QED BY <1>a, <1>11, <2>1
<1>16. PICK w \in passes[m - 4], b1 \in body : y1 = Then(w, b1)
  <2>1. y1 \in passes[(m - 4) + 1]
    BY <1>11
  <2> QED BY <1>a, <1>11, <2>1
<1>17. w \in Seq(Steps) /\ b1 \in Seq(Steps) /\ b2 \in Seq(Steps) /\ b3 \in Seq(Steps)
       /\ b4 \in Seq(Steps)
  BY <1>12 DEF Good
<1> DEFINE u == Then(before, w)
<1>18. u \in Seq(Steps)
  BY <1>17, Concatenates
<1>19. ASSUME NEW d1 \in Seq(Steps), NEW d2 \in Seq(Steps), NEW d3 \in Seq(Steps)
       PROVE  Then(before, Then(Then(Then(w, d1), d2), d3)) = Then(Then(Then(u, d1), d2), d3)
  <2>1. Then(w, d1) \in Seq(Steps) /\ Then(Then(w, d1), d2) \in Seq(Steps)
    BY <1>17, Concatenates
  <2>2. Then(before, Then(w, d1)) = Then(u, d1)
    BY <1>17, Associative
  <2>3. Then(before, Then(Then(w, d1), d2)) = Then(Then(before, Then(w, d1)), d2)
    BY <2>1, Associative
  <2>4. Then(before, Then(Then(Then(w, d1), d2), d3)) = Then(Then(before, Then(Then(w, d1), d2)), d3)
    BY <2>1, Associative
  <2> QED BY <2>2, <2>3, <2>4
<1>20. ASSUME NEW d1 \in body, NEW d2 \in body, NEW d3 \in body
       PROVE  Keeps(f, Then(Then(Then(Then(u, d1), d2), d3), after))
  <2>1. Then(w, d1) \in passes[m - 3]
    BY <1>b, <1>11, <1>16
  <2>2. Then(Then(w, d1), d2) \in passes[m - 2]
    BY <1>b, <1>11, <2>1
  <2>3. Then(Then(Then(w, d1), d2), d3) \in passes[m - 1]
    BY <1>b, <1>11, <2>2
  <2>4. Keeps(f, Then(Then(before, Then(Then(Then(w, d1), d2), d3)), after))
    BY <1>12, <2>3 DEF Good
  <2> QED BY <1>19, <2>4
<1>21. Then(before, x) = Then(Then(Then(Then(u, b1), b2), b3), b4)
  <2>1. x = Then(Then(Then(Then(w, b1), b2), b3), b4)
    BY <1>13, <1>14, <1>15, <1>16
  <2>2. Then(Then(Then(w, b1), b2), b3) \in Seq(Steps)
    BY <1>17, Concatenates
  <2>3. Then(before, x) = Then(Then(before, Then(Then(Then(w, b1), b2), b3)), b4)
    BY <1>17, <2>1, <2>2, Associative
  <2> QED BY <1>17, <1>19, <2>3
<1> HIDE DEF u
<1>22. Keeps(f, Then(Then(Then(Then(Then(u, b1), b2), b3), b4), after))
  <2>1. Passes(Then(Then(Then(Then(Then(u, b1), b2), b3), b4), after),
               Then(Then(Then(Then(u, b2), b3), b4), after),
               Then(Then(Then(Then(u, b1), b3), b4), after),
               Then(Then(Then(Then(u, b1), b2), b4), after),
               Then(Then(Then(Then(u, b1), b2), b3), after),
               Len(u), Len(Then(u, b1)), Len(Then(Then(u, b1), b2)),
               Len(Then(Then(Then(u, b1), b2), b3)),
               Len(Then(Then(Then(Then(u, b1), b2), b3), b4)))
    BY <1>17, <1>18, FourPasses
  <2>2. /\ Keeps(f, Then(Then(Then(Then(u, b2), b3), b4), after))
        /\ Keeps(f, Then(Then(Then(Then(u, b1), b3), b4), after))
        /\ Keeps(f, Then(Then(Then(Then(u, b1), b2), b4), after))
        /\ Keeps(f, Then(Then(Then(Then(u, b1), b2), b3), after))
    BY <1>20
  <2> QED BY <2>1, <2>2, OneMorePass
<1> QED BY <1>10, <1>21, <1>22

=============================================================================
