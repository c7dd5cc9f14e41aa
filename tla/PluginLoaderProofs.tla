------------------------- MODULE PluginLoaderProofs -------------------------
(***************************************************************************)
(* Proofs about PluginLoader for any number of threads, plugins, shared    *)
(* objects and functions.                                                  *)
(***************************************************************************)
EXTENDS PluginLoader, TLAPS, SequenceTheorems, WellFoundedInduction

\* A non-empty set of positions has a last one, and that is the one whose
\* so_name overrides the configuration.
LEMMA ExplicitSoPosition ==
    ASSUME NEW req \in RequestType, NEW p \in Plugins, ExplicitAt(req, p) # {}
    PROVE  \E k \in ExplicitAt(req, p) : ExplicitSo(req, p) = req.specs[k].so
<1> DEFINE E == ExplicitAt(req, p)
           L == Len(req.specs)
           T == {L - i : i \in E}
           R == OpToRel(<, Nat)
<1>1. req.specs \in Seq([name : Nat, so : SoNames \cup {NULL}])
  BY DEF RequestType
<1>2. L \in Nat /\ DOMAIN req.specs = 1 .. L
  BY <1>1
<1>3. E \subseteq 1 .. L
  BY <1>2 DEF ExplicitAt
<1>4. T \subseteq Nat /\ T # {}
  BY <1>2, <1>3
<1>5. PICK x \in T : \A y \in T : ~ (<<y, x>> \in R)
  <2>1. IsWellFoundedOn(R, Nat)
    BY NatLessThanWellFounded
  <2> QED BY <2>1, <1>4, WFMin
<1>6. PICK i \in E : x = L - i
  BY <1>5
<1>7. \A j \in E : j <= i
  <2> TAKE j \in E
  <2>1. L - j \in T /\ L - j \in Nat /\ L - i \in Nat
    BY <1>4, <1>6
  <2>2. ~ (L - j < L - i)
    BY <2>1, <1>5, <1>6 DEF OpToRel
  <2> QED BY <2>1, <2>2, <1>2, <1>3
<1>8. PICK k \in E : /\ \A j \in E : j <= k
                     /\ k = CHOOSE c \in E : \A j \in E : j <= c
  BY <1>6, <1>7
<1>9. ExplicitSo(req, p) = req.specs[k].so
  BY <1>8 DEF ExplicitSo
<1> QED BY <1>9

\* The so_name that overrides the configuration is one the request brought along.
LEMMA ExplicitSoType ==
    ASSUME NEW req \in RequestType, NEW p \in Plugins, ExplicitAt(req, p) # {}
    PROVE  ExplicitSo(req, p) \in SoNames
<1>1. PICK k \in ExplicitAt(req, p) : ExplicitSo(req, p) = req.specs[k].so
  BY ExplicitSoPosition
<1>2. req.specs \in Seq([name : Nat, so : SoNames \cup {NULL}])
  BY DEF RequestType
<1>3. k \in 1 .. Len(req.specs) /\ req.specs[k].so # NULL
  BY <1>2 DEF ExplicitAt
<1>4. req.specs[k] \in [name : Nat, so : SoNames \cup {NULL}]
  BY <1>2, <1>3, ElementOfSeq
<1> QED BY <1>1, <1>3, <1>4

LEMMA PluginsSonamesType ==
    ASSUME NEW req \in RequestType, NEW conf \in Configs
    PROVE  PluginsSonames(req, conf) \in ConfigType
<1> SUFFICES ASSUME NEW p \in Plugins
             PROVE  PluginsSonames(req, conf)[p] \in Seq(SoNames)
  BY DEF PluginsSonames, ConfigType
<1>1. conf[p] \in Seq(SoNames)
  BY ConstantsAssumption DEF ConfigType
<1>2. <<>> \in Seq(SoNames)
  OBVIOUS
<1>3. ExplicitAt(req, p) # {} => <<ExplicitSo(req, p)>> \in Seq(SoNames)
  BY ExplicitSoType
<1> QED BY <1>1, <1>2, <1>3 DEF PluginsSonames

-----------------------------------------------------------------------------
LEMMA PCFacts ==
    /\ {"idle", "lock", "infn", "query"} \subseteq PCs
    /\ {"stubs", "dlclose", "nohandle", "free", "clear"} \subseteq PCs
    /\ {"load", "initfn", "dlsym", "nosym", "soname"} \subseteq PCs
BY DEF PCs, LoaderSteps, UnloadSteps, FreeSteps, LoadSteps

LEMMA CursorFacts ==
    /\ 0 \in 0 .. UNDEF
    /\ \A p \in Plugins : p \in Nat /\ p + 1 \in 0 .. UNDEF
BY ConstantsAssumption DEF Plugins

\* What the loops guarantee about the plugin at the cursor.
LEMMA HolderFacts ==
    ASSUME LoopInv, NEW t \in Threads
    PROVE  /\ pc[t] \in {"dlclose", "nohandle", "clear"} => cur \in Plugins
           /\ pc[t] = "dlclose" =>
                  handle[cur] \in SoNames /\ refs[cur][handle[cur]] = 1
           /\ pc[t] \in {"initfn", "dlsym", "nosym", "soname"} =>
                  cur \in Plugins /\ lib \in SoNames /\ refs[cur][lib] = 1
           /\ pc[t] = "nosym" => sym \in Funcs
BY DEF LoopInv, Phase, Unloading, Opened, HoldsOnly

\* Every step keeps the types; a dlclose () needs LoopInv, which says that the
\* reference it gives up exists.
LEMMA TypeStep ==
    IndInv /\ [Next]_vars => TypeOK'
<1> SUFFICES ASSUME IndInv, [Next]_vars PROVE TypeOK'
  OBVIOUS
<1> USE ConstantsAssumption DEF IndInv
<1>1. CASE UNCHANGED vars
  BY <1>1, PCFacts, CursorFacts DEF vars, Goto, Return, TypeOK, shared,
       loader, args, threads
<1>2. ASSUME NEW t \in Threads, NEW kind \in Kinds, NEW req \in Requests,
             NEW reload \in BOOLEAN, CallInit(t, kind, req, reload)
      PROVE  TypeOK'
  BY <1>2, PCFacts DEF CallInit, CallType, Goto, Return, TypeOK, shared,
       loader, args, threads
<1>3. ASSUME NEW t \in Threads, NEW p \in Plugins, NEW f \in Funcs,
       CallFunction(t, p, f)
      PROVE  TypeOK'
  BY <1>3, PCFacts DEF CallFunction, Goto, Return, TypeOK, shared, loader,
       args, threads
<1>4. ASSUME NEW t \in Threads, NEW p \in Plugins, QuerySoname(t, p)
      PROVE  TypeOK'
  BY <1>4, PCFacts, CursorFacts DEF QuerySoname, Goto, Return, TypeOK,
       shared, loader, args, threads
<1>5. ASSUME NEW t \in Threads, NEW conf \in Configs, EnterAndLoad(t, conf)
      PROVE  TypeOK'
  BY <1>5, PCFacts, CursorFacts, PluginsSonamesType DEF EnterAndLoad,
       CallType, Goto, Return, TypeOK, shared, loader, args, threads
<1>6. ASSUME NEW t \in Threads, ReturnFunction(t)
      PROVE  TypeOK'
  BY <1>6, PCFacts DEF ReturnFunction, Goto, Return, TypeOK, shared, loader,
       args, threads
<1>7. ASSUME NEW t \in Threads, CopySoname(t)
      PROVE  TypeOK'
  BY <1>7, PCFacts DEF CopySoname, Goto, Return, TypeOK, shared, loader,
       args, threads
<1>8. ASSUME NEW t \in Threads, IsInitialized(t)
      PROVE  TypeOK'
  BY <1>8, PCFacts DEF IsInitialized, Goto, Return, TypeOK, shared, loader,
       args, threads
<1>9. ASSUME NEW t \in Threads, EnterAndReturn(t)
      PROVE  TypeOK'
  BY <1>9, PCFacts DEF EnterAndReturn, Goto, Return, TypeOK, shared, loader,
       args, threads
<1>10. ASSUME NEW t \in Threads, UnloadSkip(t)
      PROVE  TypeOK'
  BY <1>10, PCFacts, CursorFacts DEF UnloadSkip, Goto, Return, TypeOK,
       shared, loader, args, threads
<1>11. ASSUME NEW t \in Threads, UnloadStubs(t)
      PROVE  TypeOK'
  BY <1>11, PCFacts, CursorFacts DEF UnloadStubs, Goto, Return, TypeOK,
       shared, loader, args, threads
<1>12. ASSUME NEW t \in Threads, UnloadDlclose(t)
      PROVE  TypeOK'
  BY <1>12, PCFacts, CursorFacts, HolderFacts DEF UnloadDlclose, Goto,
       Return, TypeOK, shared, loader, args, threads
<1>13. ASSUME NEW t \in Threads, UnloadHandle(t)
      PROVE  TypeOK'
  BY <1>13, PCFacts, CursorFacts, HolderFacts DEF UnloadHandle, Goto, Return,
       TypeOK, shared, loader, args, threads
<1>14. ASSUME NEW t \in Threads, UnloadDone(t)
      PROVE  TypeOK'
  BY <1>14, PCFacts, CursorFacts DEF UnloadDone, Goto, Return, TypeOK,
       shared, loader, args, threads
<1>15. ASSUME NEW t \in Threads, FreeSoname(t)
      PROVE  TypeOK'
  BY <1>15, PCFacts, CursorFacts DEF FreeSoname, Goto, Return, TypeOK,
       shared, loader, args, threads
<1>16. ASSUME NEW t \in Threads, ClearSoname(t)
      PROVE  TypeOK'
  BY <1>16, PCFacts, CursorFacts, HolderFacts DEF ClearSoname, Goto, Return,
       TypeOK, shared, loader, args, threads
<1>17. ASSUME NEW t \in Threads, FreeDone(t)
      PROVE  TypeOK'
  BY <1>17, PCFacts, CursorFacts DEF FreeDone, Goto, Return, TypeOK, shared,
       loader, args, threads
<1>18. ASSUME NEW t \in Threads, LoadSkip(t)
      PROVE  TypeOK'
  BY <1>18, PCFacts, CursorFacts DEF LoadSkip, Goto, Return, TypeOK, shared,
       loader, args, threads
<1>19. ASSUME NEW t \in Threads, DlopenFails(t)
      PROVE  TypeOK'
  <2>1. Tail(sonames[cur]) \in Seq(SoNames)
    BY <1>19, HeadTailProperties DEF DlopenFails, NextName, ConfigType, TypeOK
  <2> QED BY <1>19, <2>1
          DEF DlopenFails, NextName, ConfigType, Goto, Return, TypeOK,
       shared, loader, args, threads
<1>20. ASSUME NEW t \in Threads, Dlopen(t)
      PROVE  TypeOK'
  <2>1. Head(sonames[cur]) \in SoNames /\ Tail(sonames[cur]) \in Seq(SoNames)
    BY <1>20, HeadTailProperties DEF Dlopen, NextName, ConfigType, TypeOK
  <2> QED BY <1>20, <2>1, PCFacts
          DEF Dlopen, NextName, ConfigType, Goto, Return, TypeOK, shared,
       loader, args, threads
<1>21. ASSUME NEW t \in Threads, InitFnFails(t)
      PROVE  TypeOK'
  BY <1>21, PCFacts, CursorFacts, HolderFacts DEF InitFnFails, Goto, Return,
       TypeOK, shared, loader, args, threads
<1>22. ASSUME NEW t \in Threads, InitFnSucceeds(t)
      PROVE  TypeOK'
  BY <1>22, PCFacts, CursorFacts DEF InitFnSucceeds, Goto, Return, TypeOK,
       shared, loader, args, threads
<1>23. ASSUME NEW t \in Threads, ResolvePresent(t)
      PROVE  TypeOK'
  BY <1>23, PCFacts, CursorFacts, HolderFacts DEF ResolvePresent, Funcs,
       Goto, Return, TypeOK, shared, loader, args, threads
<1>24. ASSUME NEW t \in Threads, ResolveAbsent(t)
      PROVE  TypeOK'
  BY <1>24, PCFacts, CursorFacts DEF ResolveAbsent, Goto, Return, TypeOK,
       shared, loader, args, threads
<1>25. ASSUME NEW t \in Threads, RestoreStub(t)
      PROVE  TypeOK'
  BY <1>25, PCFacts, CursorFacts, HolderFacts DEF RestoreStub, Funcs, Goto,
       Return, TypeOK, shared, loader, args, threads
<1>26. ASSUME NEW t \in Threads, SetHandle(t)
      PROVE  TypeOK'
  BY <1>26, PCFacts, CursorFacts DEF SetHandle, Goto, Return, TypeOK, shared,
       loader, args, threads
<1>27. ASSUME NEW t \in Threads, SetSoname(t)
      PROVE  TypeOK'
  BY <1>27, PCFacts, CursorFacts, HolderFacts DEF SetSoname, Goto, Return,
       TypeOK, shared, loader, args, threads
<1>28. ASSUME NEW t \in Threads, Finish(t)
      PROVE  TypeOK'
  BY <1>28, PCFacts DEF Finish, InitializedBy, ConfigType, Goto, Return,
       TypeOK, shared, loader, args, threads
<1> QED
  BY <1>1, <1>2, <1>3, <1>4, <1>5, <1>6, <1>7, <1>8, <1>9, <1>10, <1>11,
       <1>12, <1>13, <1>14, <1>15, <1>16, <1>17, <1>18, <1>19, <1>20, <1>21,
       <1>22, <1>23, <1>24, <1>25, <1>26, <1>27, <1>28
     DEF Next, Use, Enter, Step, Unload, FreeNames, Load

\* The mutex excludes: a loader step is one of the thread that took the lock.
LEMMA LockStep ==
    IndInv /\ [Next]_vars => LockInv'
<1> SUFFICES ASSUME IndInv, [Next]_vars PROVE LockInv'
  OBVIOUS
<1> USE ConstantsAssumption
    DEF IndInv, LockInv, TypeOK, LoaderSteps, UnloadSteps, FreeSteps, LoadSteps
<1>1. CASE UNCHANGED vars
  BY <1>1 DEF vars, Goto, Return, shared, loader, args, threads
<1>2. ASSUME NEW t \in Threads, NEW kind \in Kinds, NEW req \in Requests,
             NEW reload \in BOOLEAN, CallInit(t, kind, req, reload)
      PROVE  LockInv'
  BY <1>2 DEF CallInit, Goto, Return, shared, loader, args, threads
<1>3. ASSUME NEW t \in Threads, NEW p \in Plugins, NEW f \in Funcs,
       CallFunction(t, p, f)
      PROVE  LockInv'
  BY <1>3 DEF CallFunction, Goto, Return, shared, loader, args, threads
<1>4. ASSUME NEW t \in Threads, NEW p \in Plugins, QuerySoname(t, p)
      PROVE  LockInv'
  BY <1>4 DEF QuerySoname, Goto, Return, shared, loader, args, threads
<1>5. ASSUME NEW t \in Threads, NEW conf \in Configs, EnterAndLoad(t, conf)
      PROVE  LockInv'
  BY <1>5 DEF EnterAndLoad, Goto, Return, shared, loader, args, threads
<1>6. ASSUME NEW t \in Threads, ReturnFunction(t)
      PROVE  LockInv'
  BY <1>6 DEF ReturnFunction, Goto, Return, shared, loader, args, threads
<1>7. ASSUME NEW t \in Threads, CopySoname(t)
      PROVE  LockInv'
  BY <1>7 DEF CopySoname, Goto, Return, shared, loader, args, threads
<1>8. ASSUME NEW t \in Threads, IsInitialized(t)
      PROVE  LockInv'
  BY <1>8 DEF IsInitialized, Goto, Return, shared, loader, args, threads
<1>9. ASSUME NEW t \in Threads, EnterAndReturn(t)
      PROVE  LockInv'
  BY <1>9 DEF EnterAndReturn, Goto, Return, shared, loader, args, threads
<1>10. ASSUME NEW t \in Threads, UnloadSkip(t)
      PROVE  LockInv'
  BY <1>10 DEF UnloadSkip, Goto, Return, shared, loader, args, threads
<1>11. ASSUME NEW t \in Threads, UnloadStubs(t)
      PROVE  LockInv'
  BY <1>11 DEF UnloadStubs, Goto, Return, shared, loader, args, threads
<1>12. ASSUME NEW t \in Threads, UnloadDlclose(t)
      PROVE  LockInv'
  BY <1>12 DEF UnloadDlclose, Goto, Return, shared, loader, args, threads
<1>13. ASSUME NEW t \in Threads, UnloadHandle(t)
      PROVE  LockInv'
  BY <1>13 DEF UnloadHandle, Goto, Return, shared, loader, args, threads
<1>14. ASSUME NEW t \in Threads, UnloadDone(t)
      PROVE  LockInv'
  BY <1>14 DEF UnloadDone, Goto, Return, shared, loader, args, threads
<1>15. ASSUME NEW t \in Threads, FreeSoname(t)
      PROVE  LockInv'
  BY <1>15 DEF FreeSoname, Goto, Return, shared, loader, args, threads
<1>16. ASSUME NEW t \in Threads, ClearSoname(t)
      PROVE  LockInv'
  BY <1>16 DEF ClearSoname, Goto, Return, shared, loader, args, threads
<1>17. ASSUME NEW t \in Threads, FreeDone(t)
      PROVE  LockInv'
  BY <1>17 DEF FreeDone, Goto, Return, shared, loader, args, threads
<1>18. ASSUME NEW t \in Threads, LoadSkip(t)
      PROVE  LockInv'
  BY <1>18 DEF LoadSkip, Goto, Return, shared, loader, args, threads
<1>19. ASSUME NEW t \in Threads, DlopenFails(t)
      PROVE  LockInv'
  BY <1>19 DEF DlopenFails, NextName, Goto, Return, shared, loader, args,
       threads
<1>20. ASSUME NEW t \in Threads, Dlopen(t)
      PROVE  LockInv'
  BY <1>20 DEF Dlopen, NextName, Goto, Return, shared, loader, args, threads
<1>21. ASSUME NEW t \in Threads, InitFnFails(t)
      PROVE  LockInv'
  BY <1>21 DEF InitFnFails, Goto, Return, shared, loader, args, threads
<1>22. ASSUME NEW t \in Threads, InitFnSucceeds(t)
      PROVE  LockInv'
  BY <1>22 DEF InitFnSucceeds, Goto, Return, shared, loader, args, threads
<1>23. ASSUME NEW t \in Threads, ResolvePresent(t)
      PROVE  LockInv'
  BY <1>23 DEF ResolvePresent, Goto, Return, shared, loader, args, threads
<1>24. ASSUME NEW t \in Threads, ResolveAbsent(t)
      PROVE  LockInv'
  BY <1>24 DEF ResolveAbsent, Goto, Return, shared, loader, args, threads
<1>25. ASSUME NEW t \in Threads, RestoreStub(t)
      PROVE  LockInv'
  BY <1>25 DEF RestoreStub, Goto, Return, shared, loader, args, threads
<1>26. ASSUME NEW t \in Threads, SetHandle(t)
      PROVE  LockInv'
  BY <1>26 DEF SetHandle, Goto, Return, shared, loader, args, threads
<1>27. ASSUME NEW t \in Threads, SetSoname(t)
      PROVE  LockInv'
  BY <1>27 DEF SetSoname, Goto, Return, shared, loader, args, threads
<1>28. ASSUME NEW t \in Threads, Finish(t)
      PROVE  LockInv'
  BY <1>28 DEF Finish, Goto, Return, shared, loader, args, threads
<1> QED
  BY <1>1, <1>2, <1>3, <1>4, <1>5, <1>6, <1>7, <1>8, <1>9, <1>10, <1>11,
       <1>12, <1>13, <1>14, <1>15, <1>16, <1>17, <1>18, <1>19, <1>20, <1>21,
       <1>22, <1>23, <1>24, <1>25, <1>26, <1>27, <1>28
     DEF Next, Use, Enter, Step, Unload, FreeNames, Load

\* Outside load_plugins a thread is in no phase.
LEMMA PhaseOutside ==
    ASSUME NEW where, where \notin LoaderSteps
    PROVE  Phase(where) /\ Phase(where)'
BY DEF Phase, LoaderSteps, UnloadSteps, FreeSteps, LoadSteps

\* A step of the thread in load_plugins need only establish its own next phase.
LEMMA HolderStep ==
    ASSUME IndInv, LockInv', NEW t \in Threads, NEW where \in LoaderSteps,
           pc[t] \in LoaderSteps, pc' = [pc EXCEPT ![t] = where],
           Phase(where)'
    PROVE  LoopInv'
<1>1. pc'[t] = where
  BY DEF IndInv, TypeOK
<1>2. init_lock' = t /\ init_lock' # NoThread
  BY <1>1, ConstantsAssumption DEF LockInv
<1>3. ASSUME NEW u \in Threads PROVE Phase(pc[u])'
  <2>1. CASE u = t
    BY <2>1, <1>1
  <2>2. CASE u # t
    <3>1. pc'[u] \notin LoaderSteps
      BY <2>2, <1>2 DEF LockInv
    <3> QED BY <3>1 DEF Phase, LoaderSteps, UnloadSteps, FreeSteps, LoadSteps
  <2> QED BY <2>1, <2>2
<1> QED BY <1>2, <1>3 DEF LoopInv

\* The predicates about a plugin depend on its own row of the tables only.
LEMMA Frame ==
    ASSUME NEW p, UNCHANGED <<handle[p], so_name[p], fn[p], refs[p]>>
    PROVE  (Settled(p)' <=> Settled(p)) /\ (Emptied(p)' <=> Emptied(p))
BY DEF Settled, Emptied, HoldsOnly, AllStubs, Dispatch

\* A plugin that is not loaded has nothing mapped and only stubs.
LEMMA SettledNothing ==
    ASSUME NEW p \in Plugins, Settled(p), handle[p] = NULL
    PROVE  Emptied(p) /\ so_name[p] = NULL
BY DEF Settled, Emptied, HoldsOnly, AllStubs, Dispatch

LEMMA LoaderFacts ==
    /\ {"stubs", "dlclose", "nohandle", "free", "clear"} \subseteq LoaderSteps
    /\ {"load", "initfn", "dlsym", "nosym", "soname"} \subseteq LoaderSteps
BY DEF LoaderSteps, UnloadSteps, FreeSteps, LoadSteps

\* A step outside load_plugins leaves the tables and the loader alone.
LEMMA QuietStep ==
    ASSUME IndInv, NEW t \in Threads,
           UNCHANGED <<init_lock, handle, so_name, fn, refs, cur, sym, lib>>,
           \E where \in PCs \ LoaderSteps : pc' = [pc EXCEPT ![t] = where],
           pc[t] \notin LoaderSteps
    PROVE  LoopInv'
<1>1. \A p \in Plugins : Settled(p) <=> Settled(p)'
  BY DEF Settled, HoldsOnly, Dispatch
<1>2. ASSUME NEW u \in Threads PROVE Phase(pc[u])'
  <2>1. CASE u = t
    <3>1. pc'[u] \notin LoaderSteps
      BY <2>1 DEF IndInv, TypeOK
    <3> QED BY <3>1 DEF Phase, LoaderSteps, UnloadSteps, FreeSteps, LoadSteps
  <2>2. CASE u # t
    <3>1. pc'[u] = pc[u]
      BY <2>2 DEF IndInv, TypeOK
    <3>2. Phase(pc[u])
      BY DEF IndInv, LoopInv
    <3> QED BY <3>1, <3>2 DEF Phase, Unloading, Freeing, Opened, OthersSettled,
               Settled, Emptied, HoldsOnly, AllStubs, Dispatch
  <2> QED BY <2>1, <2>2
<1> QED BY <1>1, <1>2 DEF IndInv, LoopInv

\* Every step keeps what the loops of load_plugins have done.
LEMMA LoopStep ==
    IndInv /\ [Next]_vars => LoopInv'
<1> SUFFICES ASSUME IndInv, [Next]_vars PROVE LoopInv'
  OBVIOUS
<1>0. LockInv' /\ TypeOK'
  BY LockStep, TypeStep
<1> USE <1>0 DEF IndInv
<1>1. CASE UNCHANGED vars
  BY <1>1 DEF vars, LoopInv, Phase, Unloading, Freeing, Opened, OthersSettled,
     Settled, Emptied, HoldsOnly, AllStubs, Dispatch
<1>2. ASSUME NEW t \in Threads, NEW kind \in Kinds, NEW req \in Requests,
             NEW reload \in BOOLEAN, CallInit(t, kind, req, reload)
      PROVE  LoopInv'
  <2>1. /\ UNCHANGED <<init_lock, handle, so_name, fn, refs, cur, sym, lib>>
        /\ \E where \in PCs \ LoaderSteps : pc' = [pc EXCEPT ![t] = where]
        /\ pc[t] \notin LoaderSteps
    BY <1>2 DEF CallInit, Goto, Return, shared, loader, args, threads, PCs,
       LoaderSteps, UnloadSteps,
       FreeSteps, LoadSteps
  <2> QED BY <2>1, QuietStep
<1>3. ASSUME NEW t \in Threads, NEW p \in Plugins, NEW f \in Funcs,
       CallFunction(t, p, f)
      PROVE  LoopInv'
  <2>1. /\ UNCHANGED <<init_lock, handle, so_name, fn, refs, cur, sym, lib>>
        /\ \E where \in PCs \ LoaderSteps : pc' = [pc EXCEPT ![t] = where]
        /\ pc[t] \notin LoaderSteps
    BY <1>3 DEF CallFunction, Goto, Return, shared, loader, args, threads,
       PCs, LoaderSteps, UnloadSteps,
       FreeSteps, LoadSteps
  <2> QED BY <2>1, QuietStep
<1>4. ASSUME NEW t \in Threads, NEW p \in Plugins, QuerySoname(t, p)
      PROVE  LoopInv'
  <2>1. /\ UNCHANGED <<init_lock, handle, so_name, fn, refs, cur, sym, lib>>
        /\ \E where \in PCs \ LoaderSteps : pc' = [pc EXCEPT ![t] = where]
        /\ pc[t] \notin LoaderSteps
    BY <1>4 DEF QuerySoname, Goto, Return, shared, loader, args, threads,
       PCs, LoaderSteps, UnloadSteps,
       FreeSteps, LoadSteps
  <2> QED BY <2>1, QuietStep
<1>5. ASSUME NEW t \in Threads, NEW conf \in Configs, EnterAndLoad(t, conf)
      PROVE  LoopInv'
  <2>1. init_lock' = t /\ t # NoThread
    BY <1>5, ConstantsAssumption DEF EnterAndLoad
  <2>2. \A p \in Plugins : Settled(p)'
    BY <1>5 DEF EnterAndLoad, LoopInv, Settled, HoldsOnly, Dispatch
  <2>3. ASSUME NEW u \in Threads PROVE Phase(pc[u])'
    <3>1. CASE u = t
      <4>1. pc'[u] \in {"stubs", "load"} /\ cur' = 0
        BY <1>5, <3>1 DEF EnterAndLoad, Goto, TypeOK
      <4> QED BY <4>1, <2>2, CursorFacts DEF Phase
    <3>2. CASE u # t
      <4>1. pc'[u] \notin LoaderSteps
        BY <2>1, <3>2 DEF LockInv
      <4> QED BY <4>1 DEF Phase, LoaderSteps, UnloadSteps, FreeSteps, LoadSteps
    <3> QED BY <3>1, <3>2
  <2> QED BY <2>1, <2>3 DEF LoopInv
<1>6. ASSUME NEW t \in Threads, ReturnFunction(t)
      PROVE  LoopInv'
  <2>1. /\ UNCHANGED <<init_lock, handle, so_name, fn, refs, cur, sym, lib>>
        /\ \E where \in PCs \ LoaderSteps : pc' = [pc EXCEPT ![t] = where]
        /\ pc[t] \notin LoaderSteps
    BY <1>6 DEF ReturnFunction, Goto, Return, shared, loader, args, threads,
       PCs, LoaderSteps, UnloadSteps,
       FreeSteps, LoadSteps
  <2> QED BY <2>1, QuietStep
<1>7. ASSUME NEW t \in Threads, CopySoname(t)
      PROVE  LoopInv'
  <2>1. /\ UNCHANGED <<init_lock, handle, so_name, fn, refs, cur, sym, lib>>
        /\ \E where \in PCs \ LoaderSteps : pc' = [pc EXCEPT ![t] = where]
        /\ pc[t] \notin LoaderSteps
    BY <1>7 DEF CopySoname, Goto, Return, shared, loader, args, threads, PCs,
       LoaderSteps, UnloadSteps,
       FreeSteps, LoadSteps
  <2> QED BY <2>1, QuietStep
<1>8. ASSUME NEW t \in Threads, IsInitialized(t)
      PROVE  LoopInv'
  <2>1. /\ UNCHANGED <<init_lock, handle, so_name, fn, refs, cur, sym, lib>>
        /\ \E where \in PCs \ LoaderSteps : pc' = [pc EXCEPT ![t] = where]
        /\ pc[t] \notin LoaderSteps
    BY <1>8 DEF IsInitialized, Goto, Return, shared, loader, args, threads,
       PCs, LoaderSteps, UnloadSteps,
       FreeSteps, LoadSteps
  <2> QED BY <2>1, QuietStep
<1>9. ASSUME NEW t \in Threads, EnterAndReturn(t)
      PROVE  LoopInv'
  <2>1. /\ UNCHANGED <<init_lock, handle, so_name, fn, refs, cur, sym, lib>>
        /\ \E where \in PCs \ LoaderSteps : pc' = [pc EXCEPT ![t] = where]
        /\ pc[t] \notin LoaderSteps
    BY <1>9 DEF EnterAndReturn, Goto, Return, shared, loader, args, threads,
       PCs, LoaderSteps, UnloadSteps,
       FreeSteps, LoadSteps
  <2> QED BY <2>1, QuietStep
<1>10. ASSUME NEW t \in Threads, UnloadSkip(t)
      PROVE  LoopInv'
  <2>1. pc[t] = "stubs" /\ pc' = [pc EXCEPT ![t] = "stubs"]
    BY <1>10 DEF UnloadSkip, Goto, Return, shared, loader, args, threads,
       TypeOK
  <2>2. Phase("stubs")
    BY <2>1 DEF LoopInv
  <2>3. Phase("stubs")'
    <3>1. cur \in Plugins /\ cur' = cur + 1 /\ UNCHANGED shared
      BY <1>10 DEF UnloadSkip
    <3>2. Emptied(cur) /\ so_name[cur] # Freed
      BY <1>10, <2>2, CursorFacts, SettledNothing, AddressAssumption
         DEF UnloadSkip, Phase
    <3>3. ASSUME NEW p \in Plugins
          PROVE  IF p < cur + 1 THEN Emptied(p) /\ so_name[p] # Freed
                 ELSE Settled(p)
      BY <2>2, <3>1, <3>2, CursorFacts DEF Phase
    <3> QED BY <3>1, <3>3, Frame DEF Phase, shared
  <2> QED BY <2>1, <2>3, HolderStep, LoaderFacts
<1>11. ASSUME NEW t \in Threads, UnloadStubs(t)
      PROVE  LoopInv'
  <2>1. pc[t] = "stubs" /\ pc' = [pc EXCEPT ![t] = "dlclose"]
    BY <1>11 DEF UnloadStubs, Goto
  <2>2. Phase("stubs")
    BY <2>1 DEF LoopInv
  <2>3. Phase("dlclose")'
    BY <1>11, <2>2, AddressAssumption, ConstantsAssumption, CursorFacts
       DEF UnloadStubs, Goto, Return, shared, loader, args, threads, TypeOK,
       Phase, Unloading, Settled, Emptied, HoldsOnly, AllStubs, Dispatch
  <2> QED BY <2>1, <2>3, HolderStep, LoaderFacts
<1>12. ASSUME NEW t \in Threads, UnloadDlclose(t)
      PROVE  LoopInv'
  <2>1. pc[t] = "dlclose" /\ pc' = [pc EXCEPT ![t] = "nohandle"]
    BY <1>12 DEF UnloadDlclose, Goto
  <2>2. Phase("dlclose")
    BY <2>1 DEF LoopInv
  <2>3. Phase("nohandle")'
    BY <1>12, <2>2, AddressAssumption, ConstantsAssumption, CursorFacts
       DEF UnloadDlclose, Goto, Return, shared, loader, args, threads,
       TypeOK, Phase, Unloading, Settled, Emptied, HoldsOnly, AllStubs,
       Dispatch
  <2> QED BY <2>1, <2>3, HolderStep, LoaderFacts
<1>13. ASSUME NEW t \in Threads, UnloadHandle(t)
      PROVE  LoopInv'
  <2>1. pc[t] = "nohandle" /\ pc' = [pc EXCEPT ![t] = "stubs"]
    BY <1>13 DEF UnloadHandle, Goto
  <2>2. Phase("nohandle")
    BY <2>1 DEF LoopInv
  <2>3. Phase("stubs")'
    <3>1. /\ cur \in Plugins /\ cur' = cur + 1
          /\ handle' = [handle EXCEPT ![cur] = NULL]
          /\ UNCHANGED <<so_name, fn, refs>>
      BY <1>13, <2>2 DEF UnloadHandle, Phase, Unloading
    <3>2. \A p \in Plugins : p = cur => Emptied(p)' /\ so_name'[p] # Freed
      BY <2>2, <3>1, AddressAssumption
         DEF Phase, Unloading, Emptied, HoldsOnly, AllStubs, TypeOK
    <3>3. ASSUME NEW p \in Plugins, p # cur
          PROVE  IF p < cur + 1 THEN Emptied(p)' /\ so_name'[p] # Freed
                 ELSE Settled(p)'
      <4>1. /\ p < cur + 1 => Emptied(p) /\ so_name[p] # Freed
            /\ ~ (p < cur + 1) => Settled(p)
        BY <2>2, <3>1, <3>3, CursorFacts DEF Phase, Unloading
      <4>2. UNCHANGED <<handle[p], so_name[p], fn[p], refs[p]>>
        BY <3>1, <3>3 DEF TypeOK
      <4> QED BY <4>1, <4>2, Frame
    <3> QED BY <3>1, <3>2, <3>3, CursorFacts DEF Phase
  <2> QED BY <2>1, <2>3, HolderStep, LoaderFacts
<1>14. ASSUME NEW t \in Threads, UnloadDone(t)
      PROVE  LoopInv'
  <2>1. pc[t] = "stubs" /\ pc' = [pc EXCEPT ![t] = "free"]
    BY <1>14 DEF UnloadDone, Goto
  <2>2. Phase("stubs")
    BY <2>1 DEF LoopInv
  <2>3. Phase("free")'
    BY <1>14, <2>2, AddressAssumption, ConstantsAssumption, CursorFacts
       DEF UnloadDone, Goto, Return, shared, loader, args, threads, TypeOK,
       Phase, Freeing, Settled, Emptied, HoldsOnly, AllStubs, Dispatch
  <2> QED BY <2>1, <2>3, HolderStep, LoaderFacts
<1>15. ASSUME NEW t \in Threads, FreeSoname(t)
      PROVE  LoopInv'
  <2>1. pc[t] = "free" /\ pc' = [pc EXCEPT ![t] = "clear"]
    BY <1>15 DEF FreeSoname, Goto
  <2>2. Phase("free")
    BY <2>1 DEF LoopInv
  <2>3. Phase("clear")'
    BY <1>15, <2>2, AddressAssumption, ConstantsAssumption, CursorFacts
       DEF FreeSoname, Goto, Return, shared, loader, args, threads, TypeOK,
       Phase, Freeing, Settled, Emptied, HoldsOnly, AllStubs, Dispatch
  <2> QED BY <2>1, <2>3, HolderStep, LoaderFacts
<1>16. ASSUME NEW t \in Threads, ClearSoname(t)
      PROVE  LoopInv'
  <2>1. pc[t] = "clear" /\ pc' = [pc EXCEPT ![t] = "free"]
    BY <1>16 DEF ClearSoname, Goto
  <2>2. Phase("clear")
    BY <2>1 DEF LoopInv
  <2>3. Phase("free")'
    <3>1. /\ cur \in Plugins /\ cur' = cur + 1
          /\ so_name' = [so_name EXCEPT ![cur] = NULL]
          /\ UNCHANGED <<handle, fn, refs>>
      BY <1>16, <2>2 DEF ClearSoname, Phase
    <3>2. \A p \in Plugins : Emptied(p)'
      BY <2>2, <3>1 DEF Phase, Freeing, Emptied, HoldsOnly, AllStubs
    <3>3. \A p \in Plugins : /\ p < cur + 1 => so_name'[p] = NULL
                             /\ p > cur => so_name'[p] # Freed
      <4>1. \A p \in Plugins : /\ p < cur + 1 => p < cur \/ p = cur
                               /\ p > cur => p # cur
        BY <3>1, CursorFacts
      <4>2. \A p \in Plugins : so_name'[p] = IF p = cur THEN NULL ELSE so_name[p]
        BY <3>1 DEF TypeOK
      <4> QED BY <2>2, <4>1, <4>2 DEF Phase, Freeing
    <3> QED BY <3>1, <3>2, <3>3, CursorFacts DEF Phase, Freeing
  <2> QED BY <2>1, <2>3, HolderStep, LoaderFacts
<1>17. ASSUME NEW t \in Threads, FreeDone(t)
      PROVE  LoopInv'
  <2>1. pc[t] = "free" /\ pc' = [pc EXCEPT ![t] = "load"]
    BY <1>17 DEF FreeDone, Goto
  <2>2. Phase("free")
    BY <2>1 DEF LoopInv
  <2>3. Phase("load")'
    BY <1>17, <2>2, AddressAssumption, ConstantsAssumption, CursorFacts
       DEF FreeDone, Goto, Return, shared, loader, args, threads, TypeOK,
       Phase, Freeing, Settled, Emptied, HoldsOnly, AllStubs, Dispatch
  <2> QED BY <2>1, <2>3, HolderStep, LoaderFacts
<1>18. ASSUME NEW t \in Threads, LoadSkip(t)
      PROVE  LoopInv'
  <2>1. pc[t] = "load" /\ pc' = [pc EXCEPT ![t] = "load"]
    BY <1>18 DEF LoadSkip, Goto, Return, shared, loader, args, threads, TypeOK
  <2>2. Phase("load")
    BY <2>1 DEF LoopInv
  <2>3. Phase("load")'
    BY <1>18, <2>2, AddressAssumption, ConstantsAssumption, CursorFacts
       DEF LoadSkip, Goto, Return, shared, loader, args, threads, TypeOK,
       Phase, Settled, Emptied, HoldsOnly, AllStubs, Dispatch
  <2> QED BY <2>1, <2>3, HolderStep, LoaderFacts
<1>19. ASSUME NEW t \in Threads, DlopenFails(t)
      PROVE  LoopInv'
  <2>1. pc[t] = "load" /\ pc' = [pc EXCEPT ![t] = "load"]
    BY <1>19 DEF DlopenFails, NextName, Goto, Return, shared, loader, args,
       threads, TypeOK
  <2>2. Phase("load")
    BY <2>1 DEF LoopInv
  <2>3. Phase("load")'
    BY <1>19, <2>2, AddressAssumption, ConstantsAssumption, CursorFacts
       DEF DlopenFails, NextName, Goto, Return, shared, loader, args,
       threads, TypeOK, Phase, Settled, Emptied, HoldsOnly, AllStubs, Dispatch
  <2> QED BY <2>1, <2>3, HolderStep, LoaderFacts
<1>20. ASSUME NEW t \in Threads, Dlopen(t)
      PROVE  LoopInv'
  <2>1. pc[t] = "load" /\ pc' = [pc EXCEPT ![t] = "initfn"]
    BY <1>20 DEF Dlopen, NextName, Goto
  <2>2. Phase("load")
    BY <2>1 DEF LoopInv
  <2>3. Phase("initfn")'
    <3> DEFINE so == Head(sonames[cur])
    <3>1. /\ cur \in Plugins \ NotBuilt /\ cur' = cur /\ handle[cur] = NULL
          /\ so \in SoNames /\ lib' = so
          /\ refs' = [refs EXCEPT ![cur][so] = refs[cur][so] + 1]
          /\ UNCHANGED <<handle, so_name, fn>>
      BY <1>20, HeadTailProperties DEF Dlopen, NextName, TypeOK, ConfigType
    <3> HIDE DEF so
    <3>2. Settled(cur)
      BY <2>2, <3>1 DEF Phase
    <3>3. HoldsOnly(cur, lib)'
      BY <3>1, <3>2, AddressAssumption DEF Settled, HoldsOnly, TypeOK
    <3>4. OthersSettled'
      BY <2>2, <3>1, Frame DEF Phase, OthersSettled, TypeOK
    <3>5. so_name'[cur] = NULL /\ \A f \in Funcs : fn'[cur][f] = Stub
      BY <3>1, <3>2 DEF Settled, Dispatch
    <3>6. \A f \in Funcs : ~ (f < 0)
      BY DEF Funcs
    <3> QED BY <3>1, <3>3, <3>4, <3>5, <3>6 DEF Phase, Opened
  <2> QED BY <2>1, <2>3, HolderStep, LoaderFacts
<1>21. ASSUME NEW t \in Threads, InitFnFails(t)
      PROVE  LoopInv'
  <2>1. pc[t] = "initfn" /\ pc' = [pc EXCEPT ![t] = "load"]
    BY <1>21 DEF InitFnFails, Goto
  <2>2. Phase("initfn")
    BY <2>1 DEF LoopInv
  <2>3. Phase("load")'
    <3>1. /\ cur \in Plugins \ NotBuilt /\ handle[cur] = NULL
          /\ lib \in SoNames /\ so_name[cur] = NULL
          /\ HoldsOnly(cur, lib) /\ AllStubs(cur) /\ OthersSettled
      BY <2>2, CursorFacts DEF Phase, Opened, AllStubs, Funcs
    <3>2. /\ refs' = [refs EXCEPT ![cur][lib] = refs[cur][lib] - 1]
          /\ UNCHANGED <<handle, so_name, fn, cur>>
      BY <1>21 DEF InitFnFails
    <3>3. HoldsOnly(cur, handle[cur])'
      BY <3>1, <3>2, AddressAssumption DEF HoldsOnly, TypeOK
    <3>4. Settled(cur)'
      BY <3>1, <3>2, <3>3 DEF Settled, AllStubs, Dispatch
    <3>5. ASSUME NEW p \in Plugins \ {cur} PROVE Settled(p)'
      BY <3>1, <3>2, Frame DEF OthersSettled, TypeOK
    <3> QED BY <3>2, <3>4, <3>5 DEF Phase
  <2> QED BY <2>1, <2>3, HolderStep, LoaderFacts
<1>22. ASSUME NEW t \in Threads, InitFnSucceeds(t)
      PROVE  LoopInv'
  <2>1. pc[t] = "initfn" /\ pc' = [pc EXCEPT ![t] = "dlsym"]
    BY <1>22 DEF InitFnSucceeds, Goto
  <2>2. Phase("initfn")
    BY <2>1 DEF LoopInv
  <2>3. Phase("dlsym")'
    <3>1. sym' = 1 /\ UNCHANGED <<handle, so_name, fn, refs, cur, lib>>
      BY <1>22 DEF InitFnSucceeds, shared
    <3>2. OthersSettled'
      BY <2>2, <3>1, Frame DEF Phase, Opened, OthersSettled
    <3>3. \A f \in Funcs : ~ (f < 1) /\ f > 0
      BY DEF Funcs
    <3> QED BY <2>2, <3>1, <3>2, <3>3 DEF Phase, Opened, HoldsOnly
  <2> QED BY <2>1, <2>3, HolderStep, LoaderFacts
<1>23. ASSUME NEW t \in Threads, ResolvePresent(t)
      PROVE  LoopInv'
  <2>1. pc[t] = "dlsym" /\ pc' = [pc EXCEPT ![t] = "dlsym"]
    BY <1>23 DEF ResolvePresent, Goto, Return, shared, loader, args, threads,
       TypeOK
  <2>2. Phase("dlsym")
    BY <2>1 DEF LoopInv
  <2>3. Phase("dlsym")'
    <3>1. /\ sym' = sym + 1 /\ sym \in Funcs /\ cur \in Plugins
          /\ sym \in Provides[cur][lib]
          /\ fn' = [fn EXCEPT ![cur][sym] = lib]
          /\ UNCHANGED <<handle, so_name, refs, cur, lib>>
      BY <1>23, <2>2 DEF ResolvePresent, Phase, Opened
    <3>2. OthersSettled'
      BY <2>2, <3>1, Frame DEF Phase, Opened, OthersSettled, TypeOK
    <3>3. fn'[cur][sym] = lib /\ Dispatch(cur, lib, sym) = lib
      BY <2>2, <3>1, AddressAssumption DEF TypeOK, Dispatch, Phase, Opened
    <3>4. \A f \in Funcs : f # sym => fn'[cur][f] = fn[cur][f]
      BY <3>1 DEF TypeOK
    <3>5. \A f \in Funcs : /\ f < sym + 1 => f < sym \/ f = sym
                           /\ f > sym + 1 \/ f = sym + 1 => f > sym
      BY <3>1 DEF Funcs
    <3>6. \A f \in Funcs :
             /\ f < sym + 1 => fn'[cur][f] = Dispatch(cur, lib, f)
             /\ f > sym + 1 \/ f = sym + 1 => fn'[cur][f] = Stub
      BY <2>2, <3>3, <3>4, <3>5, <3>1 DEF Phase, Opened, Funcs
    <3> QED BY <2>2, <3>1, <3>2, <3>6 DEF Phase, Opened, HoldsOnly, Dispatch
  <2> QED BY <2>1, <2>3, HolderStep, LoaderFacts
<1>24. ASSUME NEW t \in Threads, ResolveAbsent(t)
      PROVE  LoopInv'
  <2>1. pc[t] = "dlsym" /\ pc' = [pc EXCEPT ![t] = "nosym"]
    BY <1>24 DEF ResolveAbsent, Goto
  <2>2. Phase("dlsym")
    BY <2>1 DEF LoopInv
  <2>3. Phase("nosym")'
    <3>1. /\ sym \in Funcs /\ cur \in Plugins
          /\ sym \notin Provides[cur][lib]
          /\ fn' = [fn EXCEPT ![cur][sym] = NULL]
          /\ UNCHANGED <<handle, so_name, refs, cur, lib, sym>>
      BY <1>24, <2>2 DEF ResolveAbsent, loader, Phase, Opened
    <3>2. OthersSettled'
      BY <2>2, <3>1, Frame DEF Phase, Opened, OthersSettled, TypeOK
    <3>3. \A f \in Funcs : f # sym => fn'[cur][f] = fn[cur][f]
      BY <3>1 DEF TypeOK
    <3>4. \A f \in Funcs : f < sym \/ f > sym => f # sym
      BY DEF Funcs, TypeOK
    <3>5. fn'[cur][sym] = NULL
      BY <3>1 DEF TypeOK
    <3> QED BY <2>2, <3>1, <3>2, <3>3, <3>4, <3>5
            DEF Phase, Opened, HoldsOnly, Dispatch
  <2> QED BY <2>1, <2>3, HolderStep, LoaderFacts
<1>25. ASSUME NEW t \in Threads, RestoreStub(t)
      PROVE  LoopInv'
  <2>1. pc[t] = "nosym" /\ pc' = [pc EXCEPT ![t] = "dlsym"]
    BY <1>25 DEF RestoreStub, Goto
  <2>2. Phase("nosym")
    BY <2>1 DEF LoopInv
  <2>3. Phase("dlsym")'
    <3>1. /\ sym' = sym + 1 /\ sym \in Funcs /\ cur \in Plugins
          /\ sym \notin Provides[cur][lib]
          /\ fn' = [fn EXCEPT ![cur][sym] = Stub]
          /\ UNCHANGED <<handle, so_name, refs, cur, lib>>
      BY <1>25, <2>2 DEF RestoreStub, Phase, Opened
    <3>2. OthersSettled'
      BY <2>2, <3>1, Frame DEF Phase, Opened, OthersSettled, TypeOK
    <3>3. fn'[cur][sym] = Stub /\ Dispatch(cur, lib, sym) = Stub
      BY <3>1 DEF TypeOK, Dispatch
    <3>4. \A f \in Funcs : f # sym => fn'[cur][f] = fn[cur][f]
      BY <3>1 DEF TypeOK
    <3>5. \A f \in Funcs : /\ f < sym + 1 => f < sym \/ f = sym
                           /\ f > sym + 1 \/ f = sym + 1 => f > sym
      BY <3>1 DEF Funcs
    <3>6. \A f \in Funcs :
             /\ f < sym + 1 => fn'[cur][f] = Dispatch(cur, lib, f)
             /\ f > sym + 1 \/ f = sym + 1 => fn'[cur][f] = Stub
      BY <2>2, <3>3, <3>4, <3>5, <3>1 DEF Phase, Opened, Funcs
    <3> QED BY <2>2, <3>1, <3>2, <3>6 DEF Phase, Opened, HoldsOnly, Dispatch
  <2> QED BY <2>1, <2>3, HolderStep, LoaderFacts
<1>26. ASSUME NEW t \in Threads, SetHandle(t)
      PROVE  LoopInv'
  <2>1. pc[t] = "dlsym" /\ pc' = [pc EXCEPT ![t] = "soname"]
    BY <1>26 DEF SetHandle, Goto
  <2>2. Phase("dlsym")
    BY <2>1 DEF LoopInv
  <2>3. Phase("soname")'
    <3>1. /\ sym \notin Funcs /\ cur \in Plugins
          /\ handle' = [handle EXCEPT ![cur] = lib]
          /\ UNCHANGED <<so_name, fn, refs, cur, lib>>
      BY <1>26, <2>2 DEF SetHandle, loader, Phase, Opened
    <3>2. OthersSettled'
      BY <2>2, <3>1, Frame DEF Phase, Opened, OthersSettled, TypeOK
    <3>3. \A f \in Funcs : f < sym /\ ~ (f > NFuncs + 1)
      BY <3>1, ConstantsAssumption DEF Funcs, TypeOK
    <3>4. handle'[cur] = lib
      BY <3>1 DEF TypeOK
    <3> QED BY <2>2, <3>1, <3>2, <3>3, <3>4
            DEF Phase, Opened, HoldsOnly, Dispatch
  <2> QED BY <2>1, <2>3, HolderStep, LoaderFacts
<1>27. ASSUME NEW t \in Threads, SetSoname(t)
      PROVE  LoopInv'
  <2>1. pc[t] = "soname" /\ pc' = [pc EXCEPT ![t] = "load"]
    BY <1>27 DEF SetSoname, Goto
  <2>2. Phase("soname")
    BY <2>1 DEF LoopInv
  <2>3. Phase("load")'
    <3>1. /\ cur \in Plugins \ NotBuilt /\ handle[cur] = lib
          /\ HoldsOnly(cur, lib) /\ OthersSettled
      BY <2>2 DEF Phase, Opened
    <3>2. \A f \in Funcs : fn[cur][f] = Dispatch(cur, handle[cur], f)
      BY <2>2, ConstantsAssumption DEF Phase, Opened, Funcs
    <3>3. /\ so_name' = [so_name EXCEPT ![cur] = lib]
          /\ UNCHANGED <<handle, fn, refs>>
      BY <1>27 DEF SetSoname
    <3>4. \A p \in Plugins : p = cur => Settled(p)'
      BY <3>1, <3>2, <3>3 DEF Settled, HoldsOnly, Dispatch, TypeOK
    <3>5. ASSUME NEW p \in Plugins \ {cur} PROVE Settled(p)'
      BY <3>1, <3>3, Frame DEF OthersSettled, TypeOK
    <3> QED BY <3>4, <3>5 DEF Phase
  <2> QED BY <2>1, <2>3, HolderStep, LoaderFacts
<1>28. ASSUME NEW t \in Threads, Finish(t)
      PROVE  LoopInv'
  <2>1. \A p \in Plugins : Settled(p)'
    BY <1>28 DEF Finish, LoopInv, Phase, Settled, HoldsOnly, Dispatch
  <2>2. ASSUME NEW u \in Threads PROVE Phase(pc[u])'
    <3>1. pc'[u] \notin LoaderSteps
      BY <1>28, ConstantsAssumption DEF LockInv, Finish
    <3> QED BY <3>1 DEF Phase, LoaderSteps, UnloadSteps, FreeSteps, LoadSteps
  <2> QED BY <2>1, <2>2 DEF LoopInv
<1> QED
  BY <1>1, <1>2, <1>3, <1>4, <1>5, <1>6, <1>7, <1>8, <1>9, <1>10, <1>11,
       <1>12, <1>13, <1>14, <1>15, <1>16, <1>17, <1>18, <1>19, <1>20, <1>21,
       <1>22, <1>23, <1>24, <1>25, <1>26, <1>27, <1>28
     DEF Next, Use, Enter, Step, Unload, FreeNames, Load

-----------------------------------------------------------------------------
\* Every step keeps what the threads' own variables say.
LEMMA CallStep ==
    IndInv /\ [Next]_vars => CallInv'
<1> SUFFICES ASSUME IndInv, [Next]_vars PROVE CallInv'
  OBVIOUS
<1> USE DEF IndInv, CallInv, TypeOK, UnloadSteps, FreeSteps
<1>1. CASE UNCHANGED vars
  BY <1>1 DEF vars, Goto, Return, shared, loader, args, threads
<1>2. ASSUME NEW t \in Threads, NEW kind \in Kinds, NEW req \in Requests,
             NEW reload \in BOOLEAN, CallInit(t, kind, req, reload)
      PROVE  CallInv'
  BY <1>2 DEF CallInit, Goto, Return, shared, loader, args, threads
<1>3. ASSUME NEW t \in Threads, NEW p \in Plugins, NEW f \in Funcs,
       CallFunction(t, p, f)
      PROVE  CallInv'
  BY <1>3 DEF CallFunction, Goto, Return, shared, loader, args, threads
<1>4. ASSUME NEW t \in Threads, NEW p \in Plugins, QuerySoname(t, p)
      PROVE  CallInv'
  BY <1>4 DEF QuerySoname, Goto, Return, shared, loader, args, threads
<1>5. ASSUME NEW t \in Threads, NEW conf \in Configs, EnterAndLoad(t, conf)
      PROVE  CallInv'
  BY <1>5 DEF EnterAndLoad, Goto, Return, shared, loader, args, threads
<1>6. ASSUME NEW t \in Threads, ReturnFunction(t)
      PROVE  CallInv'
  BY <1>6 DEF ReturnFunction, Goto, Return, shared, loader, args, threads
<1>7. ASSUME NEW t \in Threads, CopySoname(t)
      PROVE  CallInv'
  BY <1>7 DEF CopySoname, Goto, Return, shared, loader, args, threads
<1>8. ASSUME NEW t \in Threads, IsInitialized(t)
      PROVE  CallInv'
  BY <1>8 DEF IsInitialized, Goto, Return, shared, loader, args, threads
<1>9. ASSUME NEW t \in Threads, EnterAndReturn(t)
      PROVE  CallInv'
  BY <1>9 DEF EnterAndReturn, Goto, Return, shared, loader, args, threads
<1>10. ASSUME NEW t \in Threads, UnloadSkip(t)
      PROVE  CallInv'
  BY <1>10 DEF UnloadSkip, Goto, Return, shared, loader, args, threads
<1>11. ASSUME NEW t \in Threads, UnloadStubs(t)
      PROVE  CallInv'
  BY <1>11 DEF UnloadStubs, Goto, Return, shared, loader, args, threads
<1>12. ASSUME NEW t \in Threads, UnloadDlclose(t)
      PROVE  CallInv'
  BY <1>12 DEF UnloadDlclose, Goto, Return, shared, loader, args, threads
<1>13. ASSUME NEW t \in Threads, UnloadHandle(t)
      PROVE  CallInv'
  BY <1>13 DEF UnloadHandle, Goto, Return, shared, loader, args, threads
<1>14. ASSUME NEW t \in Threads, UnloadDone(t)
      PROVE  CallInv'
  BY <1>14 DEF UnloadDone, Goto, Return, shared, loader, args, threads
<1>15. ASSUME NEW t \in Threads, FreeSoname(t)
      PROVE  CallInv'
  BY <1>15 DEF FreeSoname, Goto, Return, shared, loader, args, threads
<1>16. ASSUME NEW t \in Threads, ClearSoname(t)
      PROVE  CallInv'
  BY <1>16 DEF ClearSoname, Goto, Return, shared, loader, args, threads
<1>17. ASSUME NEW t \in Threads, FreeDone(t)
      PROVE  CallInv'
  BY <1>17 DEF FreeDone, Goto, Return, shared, loader, args, threads
<1>18. ASSUME NEW t \in Threads, LoadSkip(t)
      PROVE  CallInv'
  BY <1>18 DEF LoadSkip, Goto, Return, shared, loader, args, threads
<1>19. ASSUME NEW t \in Threads, DlopenFails(t)
      PROVE  CallInv'
  BY <1>19 DEF DlopenFails, NextName, Goto, Return, shared, loader, args,
       threads
<1>20. ASSUME NEW t \in Threads, Dlopen(t)
      PROVE  CallInv'
  BY <1>20 DEF Dlopen, NextName, Goto, Return, shared, loader, args, threads
<1>21. ASSUME NEW t \in Threads, InitFnFails(t)
      PROVE  CallInv'
  BY <1>21 DEF InitFnFails, Goto, Return, shared, loader, args, threads
<1>22. ASSUME NEW t \in Threads, InitFnSucceeds(t)
      PROVE  CallInv'
  BY <1>22 DEF InitFnSucceeds, Goto, Return, shared, loader, args, threads
<1>23. ASSUME NEW t \in Threads, ResolvePresent(t)
      PROVE  CallInv'
  BY <1>23 DEF ResolvePresent, Goto, Return, shared, loader, args, threads
<1>24. ASSUME NEW t \in Threads, ResolveAbsent(t)
      PROVE  CallInv'
  BY <1>24 DEF ResolveAbsent, Goto, Return, shared, loader, args, threads
<1>25. ASSUME NEW t \in Threads, RestoreStub(t)
      PROVE  CallInv'
  BY <1>25 DEF RestoreStub, Goto, Return, shared, loader, args, threads
<1>26. ASSUME NEW t \in Threads, SetHandle(t)
      PROVE  CallInv'
  BY <1>26 DEF SetHandle, Goto, Return, shared, loader, args, threads
<1>27. ASSUME NEW t \in Threads, SetSoname(t)
      PROVE  CallInv'
  BY <1>27 DEF SetSoname, Goto, Return, shared, loader, args, threads
<1>28. ASSUME NEW t \in Threads, Finish(t)
      PROVE  CallInv'
  BY <1>28 DEF Finish, Goto, Return, shared, loader, args, threads
<1> QED
  BY <1>1, <1>2, <1>3, <1>4, <1>5, <1>6, <1>7, <1>8, <1>9, <1>10, <1>11,
       <1>12, <1>13, <1>14, <1>15, <1>16, <1>17, <1>18, <1>19, <1>20, <1>21,
       <1>22, <1>23, <1>24, <1>25, <1>26, <1>27, <1>28
     DEF Next, Use, Enter, Step, Unload, FreeNames, Load

\* A pointer into a shared object leads into one that is in use, unless a
\* reload is under way.
LEMMA PointerInUse ==
    ASSUME IndInv, \A u \in Threads : ~Reloading(u),
           NEW p \in Plugins, NEW f \in Funcs, fn[p][f] \in SoNames
    PROVE  InUse(fn[p][f])
<1> USE AddressAssumption DEF InUse
<1>1. CASE Settled(p)
  BY <1>1 DEF Settled, Dispatch
<1>2. CASE init_lock = NoThread
  BY <1>1, <1>2 DEF IndInv, LoopInv
<1>3. CASE init_lock # NoThread
  <2>1. PICK u \in Threads : init_lock = u
    BY <1>3 DEF IndInv, TypeOK
  <2>2. pc[u] \in LoaderSteps /\ ~call[u].reload /\ Phase(pc[u])
    BY <2>1 DEF IndInv, LockInv, Reloading, LoopInv
  <2>3. pc[u] \in LoadSteps
    BY <2>2 DEF IndInv, CallInv, LoaderSteps
  <2>4. CASE pc[u] = "load" \/ p # cur
    BY <1>1, <2>2, <2>3, <2>4 DEF Phase, LoadSteps, Opened, OthersSettled
  <2>5. CASE pc[u] = "initfn" /\ p = cur
    BY <2>2, <2>5 DEF Phase, Opened, Funcs
  <2>6. CASE pc[u] \in {"dlsym", "nosym"} /\ p = cur
    <3>1. f < sym \/ f = sym \/ f > sym
      BY DEF IndInv, TypeOK, Funcs
    <3>2. fn[p][f] = lib
      BY <2>2, <2>6, <3>1 DEF Phase, Opened, Dispatch
    <3> QED BY <2>6, <3>2
  <2>7. CASE pc[u] = "soname" /\ p = cur
    BY <2>2, <2>7, ConstantsAssumption DEF Phase, Opened, Dispatch, Funcs
  <2> QED BY <2>3, <2>4, <2>5, <2>6, <2>7 DEF LoadSteps
<1> QED BY <1>2, <1>3

\* While a reload is under way nobody is inside a plugin or a query.
LEMMA ReloadStep ==
    ASSUME IndInv, NEW t \in Threads,
           pc[t] \in UnloadSteps \cup FreeSteps, UNCHANGED <<inside, call>>,
           pc'[t] \in UnloadSteps \cup FreeSteps \cup {"load"},
           \A u \in Threads : u # t => pc'[u] = pc[u]
    PROVE  QuiesceInv'
<1>1. Reloading(t)
  BY DEF IndInv, CallInv, Reloading, LoaderSteps
<1>2. Quiesced => \A u \in Threads : pc'[u] \notin {"infn", "query"}
  BY <1>1 DEF IndInv, QuiesceInv, UnloadSteps, FreeSteps
<1> QED BY <1>2 DEF QuiesceInv

\* A step that starts no API call, no query and no reload, and gives up nothing
\* that is in use.
LEMMA QuiesceFrame ==
    ASSUME IndInv, NEW t \in Threads,
           \A u \in Threads : u # t => /\ pc'[u] = pc[u]
                                      /\ inside'[u] = inside[u]
                                      /\ call'[u] = call[u],
           Reloading(t)' => Reloading(t),
           pc'[t] \notin {"infn", "query"},
           \A so \in SoNames : InUse(so) => InUse(so)'
    PROVE  QuiesceInv'
<1>1. \A u \in Threads : Reloading(u)' => Reloading(u)
  BY DEF Reloading
<1> QED BY <1>1 DEF IndInv, QuiesceInv

\* Every step keeps what an application that quiesces relies on.
LEMMA QuiesceStep ==
    IndInv /\ [Next]_vars => QuiesceInv'
<1> SUFFICES ASSUME IndInv, [Next]_vars PROVE QuiesceInv'
  OBVIOUS
<1> USE ConstantsAssumption, AddressAssumption DEF IndInv
<1>1. CASE UNCHANGED vars
  BY <1>1 DEF vars, QuiesceInv, InUse, Reloading
<1>2. ASSUME NEW t \in Threads, NEW kind \in Kinds, NEW req \in Requests,
             NEW reload \in BOOLEAN, CallInit(t, kind, req, reload)
      PROVE  QuiesceInv'
  <2>1. CASE reload /\ Quiesced
    BY <1>2, <2>1 DEF CallInit, Goto, TypeOK, QuiesceInv
  <2>2. CASE ~reload
    <3>1. /\ pc'[t] = "lock" /\ ~call'[t].reload
          /\ \A u \in Threads : u # t => pc'[u] = pc[u] /\ call'[u] = call[u]
      BY <1>2, <2>2 DEF CallInit, Goto, TypeOK
    <3>2. \A so \in SoNames : InUse(so) => InUse(so)'
      BY <1>2, <3>1 DEF CallInit, shared, loader, InUse
    <3> QED BY <1>2, <3>1, <3>2, QuiesceFrame DEF CallInit, Reloading
  <2> QED BY <2>1, <2>2 DEF QuiesceInv
<1>3. ASSUME NEW t \in Threads, NEW p \in Plugins, NEW f \in Funcs,
       CallFunction(t, p, f)
      PROVE  QuiesceInv'
  <2>1. /\ Quiesced => \A u \in Threads : ~Reloading(u)
        /\ UNCHANGED <<handle, call, lib>>
    BY <1>3 DEF CallFunction, shared, loader
  <2>2. /\ pc'[t] \in {"idle", "infn", "query"}
        /\ \A u \in Threads : u # t => pc'[u] = pc[u] /\ inside'[u] = inside[u]
    BY <1>3 DEF CallFunction, Goto, Return, TypeOK
  <2>3. Quiesced => \A u \in Threads : ~Reloading(u)'
    BY <2>1, <2>2 DEF Reloading, LoaderSteps, UnloadSteps, FreeSteps, LoadSteps
  <2>4. pc[t] = "idle"
    BY <1>3 DEF CallFunction
  <2>5. \A so : InUse(so) => InUse(so)'
    BY <2>1, <2>2, <2>4 DEF InUse
  <2>6. Quiesced /\ fn[p][f] \in SoNames => InUse(fn[p][f])
    BY <2>1, PointerInUse
  <2>7. inside'[t] = fn[p][f]
    BY <1>3 DEF CallFunction, TypeOK
  <2> QED BY <2>2, <2>3, <2>5, <2>6, <2>7 DEF QuiesceInv
<1>4. ASSUME NEW t \in Threads, NEW p \in Plugins, QuerySoname(t, p)
      PROVE  QuiesceInv'
  <2>1. /\ Quiesced => \A u \in Threads : ~Reloading(u)
        /\ UNCHANGED <<handle, call, lib>>
    BY <1>4 DEF QuerySoname, shared, loader
  <2>2. /\ pc'[t] \in {"idle", "infn", "query"}
        /\ \A u \in Threads : u # t => pc'[u] = pc[u] /\ inside'[u] = inside[u]
    BY <1>4 DEF QuerySoname, Goto, Return, TypeOK
  <2>3. Quiesced => \A u \in Threads : ~Reloading(u)'
    BY <2>1, <2>2 DEF Reloading, LoaderSteps, UnloadSteps, FreeSteps, LoadSteps
  <2>4. pc[t] = "idle"
    BY <1>4 DEF QuerySoname
  <2>5. \A so : InUse(so) => InUse(so)'
    BY <2>1, <2>2, <2>4 DEF InUse
  <2>6. inside'[t] = NULL
    BY <1>4 DEF QuerySoname, CallInv
  <2> QED BY <2>2, <2>3, <2>5, <2>6 DEF QuiesceInv
<1>5. ASSUME NEW t \in Threads, NEW conf \in Configs, EnterAndLoad(t, conf)
      PROVE  QuiesceInv'
  <2>1. /\ pc[t] = "lock" /\ pc'[t] \in {"idle", "stubs", "load"}
        /\ UNCHANGED call
        /\ \A u \in Threads : u # t => pc'[u] = pc[u] /\ inside'[u] = inside[u]
    BY <1>5 DEF EnterAndLoad, Goto, Return, shared, loader, args, threads,
       TypeOK, LoadSteps
  <2>4. \A so : InUse(so) => InUse(so)'
    BY <1>5, <2>1, LoaderFacts DEF EnterAndLoad, InUse, Goto, Return, shared,
       loader, args, threads, TypeOK
  <2> QED BY <2>1, <2>4, QuiesceFrame
          DEF Reloading, LoaderSteps, UnloadSteps, FreeSteps, LoadSteps
<1>6. ASSUME NEW t \in Threads, ReturnFunction(t)
      PROVE  QuiesceInv'
  <2>1. /\ pc[t] \in {"idle", "infn", "query"} /\ pc'[t] = "idle"
        /\ UNCHANGED call
        /\ \A u \in Threads : u # t => pc'[u] = pc[u] /\ inside'[u] = inside[u]
    BY <1>6 DEF ReturnFunction, Goto, Return, shared, loader, args, threads,
       TypeOK, LoadSteps
  <2>4. \A so : InUse(so) => InUse(so)'
    BY <1>6, <2>1, LoaderFacts DEF ReturnFunction, InUse, Goto, Return,
       shared, loader, args, threads, TypeOK
  <2> QED BY <2>1, <2>4, QuiesceFrame
          DEF Reloading, LoaderSteps, UnloadSteps, FreeSteps, LoadSteps
<1>7. ASSUME NEW t \in Threads, CopySoname(t)
      PROVE  QuiesceInv'
  <2>1. /\ pc[t] \in {"idle", "infn", "query"} /\ pc'[t] = "idle"
        /\ UNCHANGED call
        /\ \A u \in Threads : u # t => pc'[u] = pc[u] /\ inside'[u] = inside[u]
    BY <1>7 DEF CopySoname, Goto, Return, shared, loader, args, threads,
       TypeOK, LoadSteps
  <2>4. \A so : InUse(so) => InUse(so)'
    BY <1>7, <2>1, LoaderFacts DEF CopySoname, InUse, Goto, Return, shared,
       loader, args, threads, TypeOK
  <2> QED BY <2>1, <2>4, QuiesceFrame
          DEF Reloading, LoaderSteps, UnloadSteps, FreeSteps, LoadSteps
<1>8. ASSUME NEW t \in Threads, IsInitialized(t)
      PROVE  QuiesceInv'
  <2>1. /\ pc[t] \in {"idle", "infn", "query"} /\ pc'[t] = "idle"
        /\ UNCHANGED call
        /\ \A u \in Threads : u # t => pc'[u] = pc[u] /\ inside'[u] = inside[u]
    BY <1>8 DEF IsInitialized, Goto, Return, shared, loader, args, threads,
       TypeOK, LoadSteps
  <2>4. \A so : InUse(so) => InUse(so)'
    BY <1>8, <2>1, LoaderFacts DEF IsInitialized, InUse, Goto, Return,
       shared, loader, args, threads, TypeOK
  <2> QED BY <2>1, <2>4, QuiesceFrame
          DEF Reloading, LoaderSteps, UnloadSteps, FreeSteps, LoadSteps
<1>9. ASSUME NEW t \in Threads, EnterAndReturn(t)
      PROVE  QuiesceInv'
  <2>1. /\ pc[t] = "lock" /\ pc'[t] \in {"idle", "stubs", "load"}
        /\ UNCHANGED call
        /\ \A u \in Threads : u # t => pc'[u] = pc[u] /\ inside'[u] = inside[u]
    BY <1>9 DEF EnterAndReturn, Goto, Return, shared, loader, args, threads,
       TypeOK, LoadSteps
  <2>4. \A so : InUse(so) => InUse(so)'
    BY <1>9, <2>1, LoaderFacts DEF EnterAndReturn, InUse, Goto, Return,
       shared, loader, args, threads, TypeOK
  <2> QED BY <2>1, <2>4, QuiesceFrame
          DEF Reloading, LoaderSteps, UnloadSteps, FreeSteps, LoadSteps
<1>10. ASSUME NEW t \in Threads, UnloadSkip(t)
      PROVE  QuiesceInv'
  <2>1. pc[t] \in UnloadSteps \cup FreeSteps /\ UNCHANGED <<inside, call>>
    BY <1>10 DEF UnloadSkip, Goto, Return, shared, loader, args, threads,
       UnloadSteps, FreeSteps
  <2>2. pc'[t] \in UnloadSteps \cup FreeSteps \cup {"load"}
    BY <1>10 DEF UnloadSkip, Goto, Return, shared, loader, args, threads,
       TypeOK, UnloadSteps, FreeSteps
  <2>3. \A u \in Threads : u # t => pc'[u] = pc[u]
    BY <1>10 DEF UnloadSkip, Goto, Return, shared, loader, args, threads,
       TypeOK
  <2> QED BY <2>1, <2>2, <2>3, ReloadStep
<1>11. ASSUME NEW t \in Threads, UnloadStubs(t)
      PROVE  QuiesceInv'
  <2>1. pc[t] \in UnloadSteps \cup FreeSteps /\ UNCHANGED <<inside, call>>
    BY <1>11 DEF UnloadStubs, Goto, Return, shared, loader, args, threads,
       UnloadSteps, FreeSteps
  <2>2. pc'[t] \in UnloadSteps \cup FreeSteps \cup {"load"}
    BY <1>11 DEF UnloadStubs, Goto, Return, shared, loader, args, threads,
       TypeOK, UnloadSteps, FreeSteps
  <2>3. \A u \in Threads : u # t => pc'[u] = pc[u]
    BY <1>11 DEF UnloadStubs, Goto, Return, shared, loader, args, threads,
       TypeOK
  <2> QED BY <2>1, <2>2, <2>3, ReloadStep
<1>12. ASSUME NEW t \in Threads, UnloadDlclose(t)
      PROVE  QuiesceInv'
  <2>1. pc[t] \in UnloadSteps \cup FreeSteps /\ UNCHANGED <<inside, call>>
    BY <1>12 DEF UnloadDlclose, Goto, Return, shared, loader, args, threads,
       UnloadSteps, FreeSteps
  <2>2. pc'[t] \in UnloadSteps \cup FreeSteps \cup {"load"}
    BY <1>12 DEF UnloadDlclose, Goto, Return, shared, loader, args, threads,
       TypeOK, UnloadSteps, FreeSteps
  <2>3. \A u \in Threads : u # t => pc'[u] = pc[u]
    BY <1>12 DEF UnloadDlclose, Goto, Return, shared, loader, args, threads,
       TypeOK
  <2> QED BY <2>1, <2>2, <2>3, ReloadStep
<1>13. ASSUME NEW t \in Threads, UnloadHandle(t)
      PROVE  QuiesceInv'
  <2>1. pc[t] \in UnloadSteps \cup FreeSteps /\ UNCHANGED <<inside, call>>
    BY <1>13 DEF UnloadHandle, Goto, Return, shared, loader, args, threads,
       UnloadSteps, FreeSteps
  <2>2. pc'[t] \in UnloadSteps \cup FreeSteps \cup {"load"}
    BY <1>13 DEF UnloadHandle, Goto, Return, shared, loader, args, threads,
       TypeOK, UnloadSteps, FreeSteps
  <2>3. \A u \in Threads : u # t => pc'[u] = pc[u]
    BY <1>13 DEF UnloadHandle, Goto, Return, shared, loader, args, threads,
       TypeOK
  <2> QED BY <2>1, <2>2, <2>3, ReloadStep
<1>14. ASSUME NEW t \in Threads, UnloadDone(t)
      PROVE  QuiesceInv'
  <2>1. pc[t] \in UnloadSteps \cup FreeSteps /\ UNCHANGED <<inside, call>>
    BY <1>14 DEF UnloadDone, Goto, Return, shared, loader, args, threads,
       UnloadSteps, FreeSteps
  <2>2. pc'[t] \in UnloadSteps \cup FreeSteps \cup {"load"}
    BY <1>14 DEF UnloadDone, Goto, Return, shared, loader, args, threads,
       TypeOK, UnloadSteps, FreeSteps
  <2>3. \A u \in Threads : u # t => pc'[u] = pc[u]
    BY <1>14 DEF UnloadDone, Goto, Return, shared, loader, args, threads,
       TypeOK
  <2> QED BY <2>1, <2>2, <2>3, ReloadStep
<1>15. ASSUME NEW t \in Threads, FreeSoname(t)
      PROVE  QuiesceInv'
  <2>1. pc[t] \in UnloadSteps \cup FreeSteps /\ UNCHANGED <<inside, call>>
    BY <1>15 DEF FreeSoname, Goto, Return, shared, loader, args, threads,
       UnloadSteps, FreeSteps
  <2>2. pc'[t] \in UnloadSteps \cup FreeSteps \cup {"load"}
    BY <1>15 DEF FreeSoname, Goto, Return, shared, loader, args, threads,
       TypeOK, UnloadSteps, FreeSteps
  <2>3. \A u \in Threads : u # t => pc'[u] = pc[u]
    BY <1>15 DEF FreeSoname, Goto, Return, shared, loader, args, threads,
       TypeOK
  <2> QED BY <2>1, <2>2, <2>3, ReloadStep
<1>16. ASSUME NEW t \in Threads, ClearSoname(t)
      PROVE  QuiesceInv'
  <2>1. pc[t] \in UnloadSteps \cup FreeSteps /\ UNCHANGED <<inside, call>>
    BY <1>16 DEF ClearSoname, Goto, Return, shared, loader, args, threads,
       UnloadSteps, FreeSteps
  <2>2. pc'[t] \in UnloadSteps \cup FreeSteps \cup {"load"}
    BY <1>16 DEF ClearSoname, Goto, Return, shared, loader, args, threads,
       TypeOK, UnloadSteps, FreeSteps
  <2>3. \A u \in Threads : u # t => pc'[u] = pc[u]
    BY <1>16 DEF ClearSoname, Goto, Return, shared, loader, args, threads,
       TypeOK
  <2> QED BY <2>1, <2>2, <2>3, ReloadStep
<1>17. ASSUME NEW t \in Threads, FreeDone(t)
      PROVE  QuiesceInv'
  <2>1. pc[t] \in UnloadSteps \cup FreeSteps /\ UNCHANGED <<inside, call>>
    BY <1>17 DEF FreeDone, Goto, Return, shared, loader, args, threads,
       UnloadSteps, FreeSteps
  <2>2. pc'[t] \in UnloadSteps \cup FreeSteps \cup {"load"}
    BY <1>17 DEF FreeDone, Goto, Return, shared, loader, args, threads,
       TypeOK, UnloadSteps, FreeSteps
  <2>3. \A u \in Threads : u # t => pc'[u] = pc[u]
    BY <1>17 DEF FreeDone, Goto, Return, shared, loader, args, threads, TypeOK
  <2> QED BY <2>1, <2>2, <2>3, ReloadStep
<1>18. ASSUME NEW t \in Threads, LoadSkip(t)
      PROVE  QuiesceInv'
  <2>1. /\ pc[t] \in LoadSteps /\ pc'[t] \in LoadSteps \cup {"idle"}
        /\ UNCHANGED call
        /\ \A u \in Threads : u # t => pc'[u] = pc[u] /\ inside'[u] = inside[u]
    BY <1>18 DEF LoadSkip, Goto, Return, shared, loader, args, threads,
       TypeOK, LoadSteps
  <2>4. \A so : InUse(so) => InUse(so)'
    BY <1>18, <2>1, LoaderFacts DEF LoadSkip, InUse, Goto, Return, shared,
       loader, args, threads, TypeOK
  <2> QED BY <2>1, <2>4, QuiesceFrame
          DEF Reloading, LoaderSteps, UnloadSteps, FreeSteps, LoadSteps
<1>19. ASSUME NEW t \in Threads, DlopenFails(t)
      PROVE  QuiesceInv'
  <2>1. /\ pc[t] \in LoadSteps /\ pc'[t] \in LoadSteps \cup {"idle"}
        /\ UNCHANGED call
        /\ \A u \in Threads : u # t => pc'[u] = pc[u] /\ inside'[u] = inside[u]
    BY <1>19 DEF DlopenFails, NextName, Goto, Return, shared, loader, args,
       threads, TypeOK, LoadSteps
  <2>4. \A so : InUse(so) => InUse(so)'
    BY <1>19, <2>1, LoaderFacts DEF DlopenFails, NextName, InUse, Goto,
       Return, shared, loader, args, threads, TypeOK
  <2> QED BY <2>1, <2>4, QuiesceFrame
          DEF Reloading, LoaderSteps, UnloadSteps, FreeSteps, LoadSteps
<1>20. ASSUME NEW t \in Threads, Dlopen(t)
      PROVE  QuiesceInv'
  <2>1. /\ pc[t] \in LoadSteps /\ pc'[t] \in LoadSteps \cup {"idle"}
        /\ UNCHANGED call
        /\ \A u \in Threads : u # t => pc'[u] = pc[u] /\ inside'[u] = inside[u]
    BY <1>20 DEF Dlopen, NextName, Goto, Return, shared, loader, args,
       threads, TypeOK, LoadSteps
  <2>2. pc[t] = "load" /\ UNCHANGED handle
    BY <1>20 DEF Dlopen, NextName
  <2>3. \A u \in Threads : pc[u] \notin {"dlsym", "nosym"}
    BY <2>2, LoaderFacts DEF LockInv
  <2>4. \A so : InUse(so) => InUse(so)'
    BY <2>2, <2>3 DEF InUse
  <2> QED BY <2>1, <2>4, QuiesceFrame
          DEF Reloading, LoaderSteps, UnloadSteps, FreeSteps, LoadSteps
<1>21. ASSUME NEW t \in Threads, InitFnFails(t)
      PROVE  QuiesceInv'
  <2>1. /\ pc[t] \in LoadSteps /\ pc'[t] \in LoadSteps \cup {"idle"}
        /\ UNCHANGED call
        /\ \A u \in Threads : u # t => pc'[u] = pc[u] /\ inside'[u] = inside[u]
    BY <1>21 DEF InitFnFails, Goto, Return, shared, loader, args, threads,
       TypeOK, LoadSteps
  <2>2. pc[t] = "initfn" /\ UNCHANGED handle
    BY <1>21 DEF InitFnFails
  <2>3. \A u \in Threads : pc[u] \notin {"dlsym", "nosym"}
    BY <2>2, LoaderFacts DEF LockInv
  <2>4. \A so : InUse(so) => InUse(so)'
    BY <2>2, <2>3 DEF InUse
  <2> QED BY <2>1, <2>4, QuiesceFrame
          DEF Reloading, LoaderSteps, UnloadSteps, FreeSteps, LoadSteps
<1>22. ASSUME NEW t \in Threads, InitFnSucceeds(t)
      PROVE  QuiesceInv'
  <2>1. /\ pc[t] \in LoadSteps /\ pc'[t] \in LoadSteps \cup {"idle"}
        /\ UNCHANGED call
        /\ \A u \in Threads : u # t => pc'[u] = pc[u] /\ inside'[u] = inside[u]
    BY <1>22 DEF InitFnSucceeds, Goto, Return, shared, loader, args, threads,
       TypeOK, LoadSteps
  <2>4. \A so : InUse(so) => InUse(so)'
    BY <1>22, <2>1, LoaderFacts DEF InitFnSucceeds, InUse, Goto, Return,
       shared, loader, args, threads, TypeOK
  <2> QED BY <2>1, <2>4, QuiesceFrame
          DEF Reloading, LoaderSteps, UnloadSteps, FreeSteps, LoadSteps
<1>23. ASSUME NEW t \in Threads, ResolvePresent(t)
      PROVE  QuiesceInv'
  <2>1. /\ pc[t] \in LoadSteps /\ pc'[t] \in LoadSteps \cup {"idle"}
        /\ UNCHANGED call
        /\ \A u \in Threads : u # t => pc'[u] = pc[u] /\ inside'[u] = inside[u]
    BY <1>23 DEF ResolvePresent, Goto, Return, shared, loader, args, threads,
       TypeOK, LoadSteps
  <2>4. \A so : InUse(so) => InUse(so)'
    BY <1>23, <2>1, LoaderFacts DEF ResolvePresent, InUse, Goto, Return,
       shared, loader, args, threads, TypeOK
  <2> QED BY <2>1, <2>4, QuiesceFrame
          DEF Reloading, LoaderSteps, UnloadSteps, FreeSteps, LoadSteps
<1>24. ASSUME NEW t \in Threads, ResolveAbsent(t)
      PROVE  QuiesceInv'
  <2>1. /\ pc[t] \in LoadSteps /\ pc'[t] \in LoadSteps \cup {"idle"}
        /\ UNCHANGED call
        /\ \A u \in Threads : u # t => pc'[u] = pc[u] /\ inside'[u] = inside[u]
    BY <1>24 DEF ResolveAbsent, Goto, Return, shared, loader, args, threads,
       TypeOK, LoadSteps
  <2>4. \A so : InUse(so) => InUse(so)'
    BY <1>24, <2>1, LoaderFacts DEF ResolveAbsent, InUse, Goto, Return,
       shared, loader, args, threads, TypeOK
  <2> QED BY <2>1, <2>4, QuiesceFrame
          DEF Reloading, LoaderSteps, UnloadSteps, FreeSteps, LoadSteps
<1>25. ASSUME NEW t \in Threads, RestoreStub(t)
      PROVE  QuiesceInv'
  <2>1. /\ pc[t] \in LoadSteps /\ pc'[t] \in LoadSteps \cup {"idle"}
        /\ UNCHANGED call
        /\ \A u \in Threads : u # t => pc'[u] = pc[u] /\ inside'[u] = inside[u]
    BY <1>25 DEF RestoreStub, Goto, Return, shared, loader, args, threads,
       TypeOK, LoadSteps
  <2>4. \A so : InUse(so) => InUse(so)'
    BY <1>25, <2>1, LoaderFacts DEF RestoreStub, InUse, Goto, Return, shared,
       loader, args, threads, TypeOK
  <2> QED BY <2>1, <2>4, QuiesceFrame
          DEF Reloading, LoaderSteps, UnloadSteps, FreeSteps, LoadSteps
<1>26. ASSUME NEW t \in Threads, SetHandle(t)
      PROVE  QuiesceInv'
  <2>1. /\ pc[t] \in LoadSteps /\ pc'[t] \in LoadSteps \cup {"idle"}
        /\ UNCHANGED call
        /\ \A u \in Threads : u # t => pc'[u] = pc[u] /\ inside'[u] = inside[u]
    BY <1>26 DEF SetHandle, Goto, Return, shared, loader, args, threads,
       TypeOK, LoadSteps
  <2>2. \A q \in Plugins : handle[q] \in SoNames => handle'[q] = handle[q]
    BY <1>26, AddressAssumption DEF SetHandle, TypeOK, LoopInv, Phase, Opened
  <2>3. cur \in Plugins /\ handle'[cur] = lib
    BY <1>26 DEF SetHandle, TypeOK, LoopInv, Phase, Opened
  <2>4. \A so \in SoNames : InUse(so) => InUse(so)'
    BY <2>2, <2>3 DEF InUse
  <2> QED BY <2>1, <2>4, QuiesceFrame
          DEF Reloading, LoaderSteps, UnloadSteps, FreeSteps, LoadSteps
<1>27. ASSUME NEW t \in Threads, SetSoname(t)
      PROVE  QuiesceInv'
  <2>1. /\ pc[t] \in LoadSteps /\ pc'[t] \in LoadSteps \cup {"idle"}
        /\ UNCHANGED call
        /\ \A u \in Threads : u # t => pc'[u] = pc[u] /\ inside'[u] = inside[u]
    BY <1>27 DEF SetSoname, Goto, Return, shared, loader, args, threads,
       TypeOK, LoadSteps
  <2>2. pc[t] = "soname" /\ UNCHANGED handle
    BY <1>27 DEF SetSoname
  <2>3. \A u \in Threads : pc[u] \notin {"dlsym", "nosym"}
    BY <2>2, LoaderFacts DEF LockInv
  <2>4. \A so : InUse(so) => InUse(so)'
    BY <2>2, <2>3 DEF InUse
  <2> QED BY <2>1, <2>4, QuiesceFrame
          DEF Reloading, LoaderSteps, UnloadSteps, FreeSteps, LoadSteps
<1>28. ASSUME NEW t \in Threads, Finish(t)
      PROVE  QuiesceInv'
  <2>1. /\ pc[t] \in LoadSteps /\ pc'[t] \in LoadSteps \cup {"idle"}
        /\ UNCHANGED call
        /\ \A u \in Threads : u # t => pc'[u] = pc[u] /\ inside'[u] = inside[u]
    BY <1>28 DEF Finish, Goto, Return, shared, loader, args, threads, TypeOK,
       LoadSteps
  <2>4. \A so : InUse(so) => InUse(so)'
    BY <1>28, <2>1, LoaderFacts DEF Finish, InUse, Goto, Return, shared,
       loader, args, threads, TypeOK
  <2> QED BY <2>1, <2>4, QuiesceFrame
          DEF Reloading, LoaderSteps, UnloadSteps, FreeSteps, LoadSteps
<1> QED
  BY <1>1, <1>2, <1>3, <1>4, <1>5, <1>6, <1>7, <1>8, <1>9, <1>10, <1>11,
       <1>12, <1>13, <1>14, <1>15, <1>16, <1>17, <1>18, <1>19, <1>20, <1>21,
       <1>22, <1>23, <1>24, <1>25, <1>26, <1>27, <1>28
     DEF Next, Use, Enter, Step, Unload, FreeNames, Load

-----------------------------------------------------------------------------
\* What a call outside load_plugins does to the state of the loader: nothing.
Outside(t) ==
    /\ UNCHANGED <<shared, loader>>
    /\ pc[t] \notin LoaderSteps /\ pc'[t] \notin LoaderSteps
    /\ \A u \in Threads \ {t} : /\ pc'[u] = pc[u] /\ call'[u] = call[u]
                                /\ ret'[u] = ret[u]

LEMMA OutsideStep ==
    ASSUME TypeOK, NEW t \in Threads, Use(t) \/ EnterAndReturn(t)
    PROVE  Outside(t)
<1> USE DEF Outside, TypeOK, Goto, Return, LoaderSteps, UnloadSteps, FreeSteps,
            LoadSteps
<1>1. ASSUME NEW kind \in Kinds, NEW req \in Requests, NEW reload \in BOOLEAN,
             CallInit(t, kind, req, reload)
      PROVE  Outside(t)
  BY <1>1 DEF CallInit
<1>2. ASSUME NEW p \in Plugins, NEW f \in Funcs, CallFunction(t, p, f)
      PROVE  Outside(t)
  BY <1>2 DEF CallFunction
<1>3. ASSUME NEW p \in Plugins, QuerySoname(t, p)
      PROVE  Outside(t)
  BY <1>3 DEF QuerySoname
<1>4. CASE ReturnFunction(t)
  BY <1>4 DEF ReturnFunction
<1>5. CASE CopySoname(t)
  BY <1>5 DEF CopySoname
<1>6. CASE IsInitialized(t)
  BY <1>6 DEF IsInitialized
<1>7. CASE EnterAndReturn(t)
  BY <1>7 DEF EnterAndReturn
<1> QED BY <1>1, <1>2, <1>3, <1>4, <1>5, <1>6, <1>7 DEF Use

\* What a step of load_plugins before its last one leaves alone.
Inside(t) ==
    /\ UNCHANGED <<init_lock, initialized, call, ret, before>>
    /\ pc[t] \in LoaderSteps /\ pc'[t] \in LoaderSteps
    /\ \A u \in Threads \ {t} : pc'[u] = pc[u]

LEMMA InsideStep ==
    ASSUME TypeOK, NEW t \in Threads, Unload(t) \/ FreeNames(t) \/ Load(t)
    PROVE  Inside(t)
<1> USE DEF Inside, TypeOK, Goto, shared, loader, args, threads, LoaderSteps,
            UnloadSteps, FreeSteps, LoadSteps
<1>1. CASE Unload(t)
  BY <1>1 DEF Unload, UnloadSkip, UnloadStubs, UnloadDlclose, UnloadHandle,
     UnloadDone
<1>2. CASE FreeNames(t)
  BY <1>2 DEF FreeNames, FreeSoname, ClearSoname, FreeDone
<1>3. CASE LoadSkip(t) \/ DlopenFails(t) \/ Dlopen(t)
  BY <1>3 DEF LoadSkip, DlopenFails, Dlopen, NextName
<1>4. CASE InitFnFails(t) \/ InitFnSucceeds(t)
  BY <1>4 DEF InitFnFails, InitFnSucceeds
<1>5. CASE ResolvePresent(t) \/ ResolveAbsent(t) \/ RestoreStub(t)
  BY <1>5 DEF ResolvePresent, ResolveAbsent, RestoreStub
<1>6. CASE SetHandle(t) \/ SetSoname(t)
  BY <1>6 DEF SetHandle, SetSoname
<1> QED BY <1>1, <1>2, <1>3, <1>4, <1>5, <1>6 DEF Load

\* All that load_plugins tries for a plugin may serve it.
LEMMA NamesServe ==
    ASSUME NEW req \in RequestType, NEW conf \in Configs,
           NEW p \in Plugins \ NotBuilt
    PROVE  PluginsSonames(req, conf)[p] \in Seq(Registry!MayServe(req, p))
<1> DEFINE own == {req.specs[i].so : i \in
                      {j \in DOMAIN req.specs : req.specs[j].name = p}} \ {NULL}
           configured == UNION {{c[p][i] : i \in DOMAIN c[p]} : c \in Configs}
<1>1. PluginsSonames(req, conf)[p] =
        IF ~req.all /\ p \notin Mask(req) THEN <<>>
        ELSE IF ~req.all /\ ExplicitAt(req, p) # {} THEN <<ExplicitSo(req, p)>>
        ELSE conf[p]
  BY DEF PluginsSonames
<1>2. Registry!MayServe(req, p) =
        IF ~req.all /\ p \notin Mask(req) THEN {}
        ELSE IF ~req.all /\ own # {} THEN own ELSE configured
  BY DEF Registry!MayServe, Registry!Wanted, Registry!Named, Registry!Plugins,
         Mask, Plugins
<1>3. own = {req.specs[i].so : i \in ExplicitAt(req, p)}
  BY DEF ExplicitAt
<1>4. ASSUME ExplicitAt(req, p) # {} PROVE ExplicitSo(req, p) \in own
  BY <1>4, <1>3, ExplicitSoPosition DEF ExplicitSo
<1>5. conf[p] \in Seq(configured)
  <2>1. conf[p] \in Seq(SoNames)
    BY ConstantsAssumption DEF ConfigType
  <2>2. PICK n \in Nat : conf[p] \in [1 .. n -> SoNames]
    BY <2>1, SeqDef
  <2>3. \A i \in DOMAIN conf[p] : conf[p][i] \in configured
    OBVIOUS
  <2>4. conf[p] \in [1 .. n -> configured]
    BY <2>2, <2>3
  <2> QED BY <2>2, <2>4, SeqDef
<1>6. <<>> \in Seq({})
  OBVIOUS
<1>7. own = {} <=> ExplicitAt(req, p) = {}
  BY <1>3
<1> HIDE DEF own, configured
<1>8. CASE ~req.all /\ p \notin Mask(req)
  BY <1>8, <1>1, <1>2, <1>6
<1>9. CASE ~(~req.all /\ p \notin Mask(req)) /\ ~req.all /\ ExplicitAt(req, p) # {}
  <2>1. <<ExplicitSo(req, p)>> \in Seq(own)
    BY <1>9, <1>4
  <2> QED BY <2>1, <1>9, <1>1, <1>2, <1>7
<1>10. CASE ~(~req.all /\ p \notin Mask(req)) /\ ~(~req.all /\ ExplicitAt(req, p) # {})
  BY <1>10, <1>1, <1>2, <1>5, <1>7
<1> QED BY <1>8, <1>9, <1>10

\* A step of the holder of the lock that tries and loads only what may serve,
\* and replaces nothing without a reload, keeps ChoiceInv.
LEMMA ChoiceHolder ==
    ASSUME IndInv, NEW t \in Threads, Inside(t),
           \A p \in Plugins \ NotBuilt :
               sonames'[p] \in Seq(Registry!MayServe(call[t].req, p)),
           pc'[t] \in LoadSteps \ {"load"} =>
               lib' \in Registry!MayServe(call[t].req, cur'),
           \A p \in Plugins : handle'[p] # handle[p] =>
               call[t].reload \/ before.handle[p] = NULL,
           pc'[t] \in LoadSteps =>
               \A p \in Plugins :
                   \/ pc[t] \in LoadSteps /\ handle'[p] = handle[p]
                   \/ handle'[p] \in Registry!MayServe(call[t].req, p) \cup {NULL}
    PROVE  ChoiceInv'
<1>1. init_lock = t /\ init_lock' = t /\ Choosing(t)
  BY DEF IndInv, LockInv, ChoiceInv, Inside
<1>2. UNCHANGED <<initialized, call, before>>
  BY DEF Inside
<1>3. Choosing(t)'
  BY <1>1, <1>2 DEF Choosing
<1> QED BY <1>1, <1>3 DEF ChoiceInv

\* What the loops tell about the steps that change a handle.
LEMMA ChoiceFacts ==
    ASSUME IndInv, NEW t \in Threads
    PROVE  /\ pc[t] \in LoaderSteps => Choosing(t)
           /\ pc[t] \in UnloadSteps \cup FreeSteps => call[t].reload
           /\ pc[t] = "free" => \A p \in Plugins : handle[p] = NULL
           /\ pc[t] \in {"initfn", "dlsym", "nosym"} => handle[cur] = NULL
           /\ pc[t] \in LoadSteps \ {"load"} => cur \in Plugins \ NotBuilt
<1>1. Phase(pc[t])
  BY DEF IndInv, LoopInv
<1> QED BY <1>1 DEF IndInv, LockInv, ChoiceInv, CallInv, Phase, Freeing, Emptied,
           Opened, LoadSteps

\* Every step keeps what the loads choose from and what they leave alone.
LEMMA ChoiceStep ==
    IndInv /\ [Next]_vars => ChoiceInv'
<1> SUFFICES ASSUME IndInv, [Next]_vars PROVE ChoiceInv'
  OBVIOUS
<1>0. TypeOK
  BY DEF IndInv
<1>1. CASE UNCHANGED vars
  BY <1>1 DEF vars, IndInv, ChoiceInv, Choosing
<1>2. ASSUME NEW t \in Threads, Use(t) \/ EnterAndReturn(t)
      PROVE  ChoiceInv'
  <2>1. Outside(t)
    BY <1>0, <1>2, OutsideStep
  <2>2. ASSUME NEW u \in Threads, init_lock' = u PROVE Choosing(u)'
    <3>1. init_lock = u /\ u # t
      BY <2>1, <2>2 DEF Outside, shared, IndInv, LockInv
    <3>2. Choosing(u)
      BY <3>1 DEF IndInv, ChoiceInv
    <3>3. /\ UNCHANGED <<initialized, handle, sonames, cur, lib, before>>
          /\ pc'[u] = pc[u] /\ call'[u] = call[u]
      BY <2>1, <3>1 DEF Outside, shared, loader
    <3> QED BY <3>2, <3>3 DEF Choosing
  <2> QED BY <2>2 DEF ChoiceInv
<1>3. ASSUME NEW t \in Threads, NEW conf \in Configs, EnterAndLoad(t, conf)
      PROVE  ChoiceInv'
  <2>1. /\ init_lock' = t /\ UNCHANGED <<initialized, handle, call>>
        /\ sonames' = PluginsSonames(call[t].req, conf)
        /\ before'.handle = handle
        /\ pc'[t] = IF call[t].reload THEN "stubs" ELSE "load"
    BY <1>0, <1>3 DEF EnterAndLoad, args, TypeOK, Goto
  <2>2. call[t].req \in RequestType
    BY <1>0 DEF TypeOK, CallType
  <2>3. ~(initialized' /\ call'[t].kind \in {"init", "try_init"})
    BY <1>3, <2>1 DEF EnterAndLoad, AlreadyInitialized
  <2>4. \A p \in Plugins \ NotBuilt :
            sonames'[p] \in Seq(Registry!MayServe(call[t].req, p))
    BY <2>1, <2>2, NamesServe
  <2>5. Choosing(t)'
    BY <2>1, <2>3, <2>4 DEF Choosing, LoadSteps
  <2> QED BY <2>1, <2>5 DEF ChoiceInv
<1>4. ASSUME NEW t \in Threads, Unload(t) \/ FreeNames(t)
      PROVE  ChoiceInv'
  <2>1. Inside(t)
    BY <1>0, <1>4, InsideStep
  <2>2. sonames' = sonames /\ pc[t] \in UnloadSteps \cup FreeSteps
    BY <1>4 DEF Unload, UnloadSkip, UnloadStubs, UnloadDlclose, UnloadHandle,
       UnloadDone, FreeNames, FreeSoname, ClearSoname, FreeDone, loader,
       UnloadSteps, FreeSteps
  <2>3. pc'[t] \in LoadSteps =>
            pc'[t] = "load" /\ handle' = handle /\ pc[t] = "free"
    BY <1>0, <1>4 DEF Unload, UnloadSkip, UnloadStubs, UnloadDlclose,
       UnloadHandle, UnloadDone, FreeNames, FreeSoname, ClearSoname, FreeDone,
       Goto, TypeOK, LoadSteps, shared, threads
  <2>4. Choosing(t) /\ call[t].reload
        /\ (pc[t] = "free" => \A p \in Plugins : handle[p] = NULL)
    BY <2>2, ChoiceFacts DEF LoaderSteps
  <2> QED BY <2>1, <2>2, <2>3, <2>4, ChoiceHolder DEF Choosing
<1>5. ASSUME NEW t \in Threads, LoadSkip(t) \/ DlopenFails(t) \/ Dlopen(t)
      PROVE  ChoiceInv'
  <2>1. Inside(t) /\ pc[t] = "load" /\ handle' = handle
    BY <1>0, <1>5, InsideStep DEF Load, LoadSkip, DlopenFails, Dlopen, NextName,
       shared
  <2>2. Choosing(t)
    BY <2>1, ChoiceFacts DEF Inside
  <2>3. CASE LoadSkip(t)
    <3>1. sonames' = sonames /\ pc'[t] = "load"
      BY <2>3 DEF LoadSkip, threads
    <3> QED BY <2>1, <2>2, <3>1, ChoiceHolder DEF Choosing, LoadSteps
  <2>4. CASE DlopenFails(t) \/ Dlopen(t)
    <3>1. /\ cur \in Plugins \ NotBuilt /\ sonames[cur] # <<>>
          /\ sonames' = [sonames EXCEPT ![cur] = Tail(@)]
      BY <2>4 DEF DlopenFails, Dlopen, NextName
    <3>2. \A p \in Plugins \ NotBuilt :
              sonames[p] \in Seq(Registry!MayServe(call[t].req, p))
      BY <2>2 DEF Choosing
    <3>3. /\ Head(sonames[cur]) \in Registry!MayServe(call[t].req, cur)
          /\ Tail(sonames[cur]) \in Seq(Registry!MayServe(call[t].req, cur))
      BY <3>1, <3>2, HeadTailProperties
    <3>4. \A p \in Plugins \ NotBuilt :
              sonames'[p] \in Seq(Registry!MayServe(call[t].req, p))
      BY <1>0, <3>1, <3>2, <3>3 DEF TypeOK, ConfigType
    <3>5. pc'[t] = "load" \/ (cur' = cur /\ lib' = Head(sonames[cur]))
      <4>1. CASE DlopenFails(t)
        BY <2>1, <4>1 DEF DlopenFails, threads
      <4>2. CASE Dlopen(t)
        BY <4>2 DEF Dlopen
      <4> QED BY <2>4, <4>1, <4>2
    <3> QED BY <2>1, <3>3, <3>4, <3>5, ChoiceHolder DEF LoadSteps
  <2> QED BY <1>5, <2>3, <2>4
<1>6. ASSUME NEW t \in Threads,
             \/ InitFnFails(t) \/ InitFnSucceeds(t)
             \/ ResolvePresent(t) \/ ResolveAbsent(t) \/ RestoreStub(t)
             \/ SetSoname(t)
      PROVE  ChoiceInv'
  <2>1. Inside(t)
    BY <1>0, <1>6, InsideStep DEF Load
  <2>2. /\ pc[t] \in LoadSteps \ {"load"} /\ UNCHANGED <<handle, sonames>>
        /\ pc'[t] = "load" \/ UNCHANGED <<lib, cur>>
    BY <1>0, <1>6 DEF InitFnFails, InitFnSucceeds, ResolvePresent, ResolveAbsent,
       RestoreStub, SetSoname, Goto, TypeOK, LoadSteps, shared, loader
  <2>3. Choosing(t)
    BY <2>1, ChoiceFacts DEF Inside
  <2> QED BY <2>1, <2>2, <2>3, ChoiceHolder DEF Choosing
<1>7. ASSUME NEW t \in Threads, SetHandle(t)
      PROVE  ChoiceInv'
  <2>1. Inside(t)
    BY <1>0, <1>7, InsideStep DEF Load
  <2>2. /\ pc[t] = "dlsym" /\ handle' = [handle EXCEPT ![cur] = lib]
        /\ UNCHANGED <<sonames, cur, lib>>
    BY <1>7 DEF SetHandle, loader
  <2>3. Choosing(t) /\ handle[cur] = NULL /\ cur \in Plugins
    BY <2>2, ChoiceFacts DEF LoaderSteps, LoadSteps
  <2>4. lib \in Registry!MayServe(call[t].req, cur)
    BY <2>2, <2>3 DEF Choosing, LoadSteps
  <2>5. \A p \in Plugins : IF p = cur THEN handle'[p] = lib
                           ELSE handle'[p] = handle[p]
    BY <1>0, <2>2, <2>3 DEF TypeOK
  <2>6. call[t].reload \/ before.handle[cur] = NULL
    BY <2>3 DEF Choosing
  <2>7. pc[t] \in LoadSteps
    BY <2>2 DEF LoadSteps
  <2>8. \A p \in Plugins \ NotBuilt :
            sonames'[p] \in Seq(Registry!MayServe(call[t].req, p))
    BY <2>2, <2>3 DEF Choosing
  <2> QED BY <2>1, <2>2, <2>4, <2>5, <2>6, <2>7, <2>8, ChoiceHolder
<1>8. ASSUME NEW t \in Threads, Finish(t)
      PROVE  ChoiceInv'
  BY <1>8, ConstantsAssumption DEF Finish, ChoiceInv
<1> QED BY <1>1, <1>2, <1>3, <1>4, <1>5, <1>6, <1>7, <1>8
        DEF Next, Enter, Step, Load

-----------------------------------------------------------------------------
LEMMA InitIndInv == Init => IndInv
<1> SUFFICES ASSUME Init PROVE IndInv
  OBVIOUS
<1> USE ConstantsAssumption, AddressAssumption DEF Init
<1>1. TypeOK
  <2>1. NoCall \in CallType
    BY DEF NoCall, CallType, RequestType, InitKinds
  <2>2. sonames \in ConfigType /\ cur \in 0 .. UNDEF
    BY DEF ConfigType
  <2>3. pc \in [Threads -> PCs]
    BY PCFacts
  <2>4. before \in [handle : [Plugins -> SoNames \cup {NULL}],
                    fn : [Plugins -> [Funcs -> SoNames \cup {NULL, Stub}]]]
    OBVIOUS
  <2>5. /\ fn \in [Plugins -> [Funcs -> SoNames \cup {NULL, Stub}]]
        /\ refs \in [Plugins -> [SoNames -> Nat]]
        /\ sym \in 1 .. NFuncs + 1
    OBVIOUS
  <2>6. /\ call \in [Threads -> CallType] /\ asked \in [Threads -> Nat]
        /\ inside \in [Threads -> SoNames \cup {NULL, Stub}]
        /\ ret \in [Threads -> BOOLEAN]
    BY <2>1
  <2> QED BY <2>2, <2>3, <2>4, <2>5, <2>6 DEF TypeOK
<1>2. LockInv
  BY DEF LockInv, LoaderSteps, UnloadSteps, FreeSteps, LoadSteps
<1>3. LoopInv
  <2>1. \A p \in Plugins : Settled(p)
    BY DEF Settled, HoldsOnly, Dispatch
  <2>2. "idle" \notin LoaderSteps
    BY DEF LoaderSteps, UnloadSteps, FreeSteps, LoadSteps
  <2> QED BY <2>1, <2>2, PhaseOutside DEF LoopInv
<1>4. CallInv /\ QuiesceInv
  BY DEF CallInv, QuiesceInv, UnloadSteps, FreeSteps
<1>5. ChoiceInv
  BY DEF ChoiceInv
<1> QED BY <1>1, <1>2, <1>3, <1>4, <1>5 DEF IndInv

\* The inductive invariant: types, mutual exclusion, the progress of the loops
\* of load_plugins, what unlocked readers rely on and what the loads choose from
\* hold in every state.
THEOREM IndInvCorrect == Spec => []IndInv
<1>1. IndInv /\ [Next]_vars => IndInv'
  BY TypeStep, LockStep, LoopStep, CallStep, QuiesceStep, ChoiceStep DEF IndInv
<1> QED BY InitIndInv, <1>1, PTL DEF Spec

\* Every variable of the loader has its type in every state; reference counts,
\* in particular, never go below zero.
THEOREM TypeCorrect == Spec => []TypeOK
<1>1. IndInv => TypeOK
  BY DEF IndInv
<1> QED BY IndInvCorrect, <1>1, PTL

\* Between init calls every API pointer leads where the loaded plugin says.
THEOREM DispatchCorrect == Spec => []QuiescentDispatch
<1>1. IndInv => QuiescentDispatch
  BY DEF IndInv, LoopInv, Settled, QuiescentDispatch
<1> QED BY IndInvCorrect, <1>1, PTL

\* Between init calls every dlopen () is owned by one handle.
THEOREM MappingsCorrect == Spec => []NoMappingLeak
<1>1. IndInv => NoMappingLeak
  BY DEF IndInv, LoopInv, Settled, HoldsOnly, NoMappingLeak
<1> QED BY IndInvCorrect, <1>1, PTL

\* In the phases in which a plugin's row of the tables is not settled its
\* pointers still lead into mapped code only.
LEMMA PhaseMapped ==
    ASSUME IndInv, NEW p \in Plugins, NEW f \in Funcs, fn[p][f] \in SoNames
    PROVE  refs[p][fn[p][f]] > 0
<1> USE AddressAssumption
<1>1. CASE Settled(p)
  BY <1>1 DEF Settled, Dispatch, HoldsOnly
<1>2. CASE Emptied(p)
  BY <1>2 DEF Emptied, AllStubs
<1>3. CASE init_lock = NoThread
  BY <1>1, <1>3 DEF IndInv, LoopInv
<1>4. CASE init_lock # NoThread
  <2>1. PICK u \in Threads : init_lock = u
    BY <1>4 DEF IndInv, TypeOK
  <2>2. pc[u] \in LoaderSteps /\ Phase(pc[u])
    BY <2>1 DEF IndInv, LockInv, LoopInv
  <2>3. CASE pc[u] \in {"stubs", "free", "clear", "load"}
    BY <1>1, <1>2, <2>2, <2>3 DEF Phase, Freeing
  <2>4. CASE pc[u] \in {"dlclose", "nohandle"}
    <3>1. AllStubs(cur) /\ cur \in Plugins
      BY <2>2, <2>4 DEF Phase, Unloading
    <3>2. p < cur \/ p > cur \/ p = cur
      BY <3>1, CursorFacts
    <3>3. p # cur => Emptied(p) \/ Settled(p)
      BY <2>2, <2>4, <3>2 DEF Phase, Unloading
    <3> QED BY <1>1, <1>2, <3>1, <3>3 DEF AllStubs
  <2>5. CASE pc[u] \in {"initfn", "dlsym", "nosym", "soname"}
    <3>1. CASE p # cur
      BY <1>1, <2>2, <2>5, <3>1 DEF Phase, Opened, OthersSettled
    <3>2. CASE p = cur
      <4>1. HoldsOnly(cur, lib)
        BY <2>2, <2>5 DEF Phase, Opened
      <4>2. f < sym \/ f = sym \/ f > sym
        BY DEF IndInv, TypeOK, Funcs
      <4>3. fn[cur][f] \in {lib, Stub, NULL}
        BY <2>2, <2>5, <4>2, ConstantsAssumption
           DEF Phase, Opened, Dispatch, Funcs
      <4> QED BY <3>2, <4>1, <4>3 DEF HoldsOnly
    <3> QED BY <3>1, <3>2
  <2> QED BY <2>2, <2>3, <2>4, <2>5
          DEF LoaderSteps, UnloadSteps, FreeSteps, LoadSteps
<1> QED BY <1>3, <1>4

\* No API pointer ever leads into an unmapped shared object, not even while
\* another thread is loading or unloading.
THEOREM PointersCorrect == Spec => []NoDanglingPointer
<1>1. IndInv => NoDanglingPointer
  BY PhaseMapped DEF NoDanglingPointer
<1> QED BY IndInvCorrect, <1>1, PTL

\* In an application that quiesces around reloads no thread executes unmapped
\* code and bd_get_plugin_soname never copies a freed name.
THEOREM ReadersCorrect == Spec => [](NoUnmappedCode /\ NoFreedName)
<1>1. ASSUME IndInv, Quiesced, NEW t \in Threads, inside[t] \in SoNames
      PROVE  Mapped(inside[t])
  <2>1. pc[t] = "infn"
    BY <1>1, AddressAssumption DEF IndInv, CallInv
  <2>2. InUse(inside[t]) /\ \A u \in Threads : ~Reloading(u)
    BY <1>1, <2>1 DEF IndInv, QuiesceInv
  <2>3. CASE \E u \in Threads : pc[u] \in {"dlsym", "nosym"} /\ lib = inside[t]
    <3>1. cur \in Plugins /\ refs[cur][inside[t]] = 1
      BY <1>1, <2>3, HolderFacts DEF IndInv
    <3> QED BY <3>1 DEF Mapped
  <2>4. CASE \E p \in Plugins : handle[p] = inside[t]
    <3>1. PICK p \in Plugins : handle[p] = inside[t]
      BY <2>4
    <3>2. HoldsOnly(p, inside[t])
      <4>1. CASE Settled(p)
        BY <3>1, <4>1 DEF Settled
      <4>2. CASE init_lock = NoThread
        BY <1>1, <4>1, <4>2 DEF IndInv, LoopInv
      <4>3. CASE init_lock # NoThread
        <5>1. PICK u \in Threads : init_lock = u
          BY <1>1, <4>3 DEF IndInv, TypeOK
        <5>2. pc[u] \in LoadSteps /\ Phase(pc[u])
          BY <1>1, <2>2, <5>1
             DEF IndInv, LockInv, CallInv, LoopInv, Reloading, LoaderSteps
        <5>3. p # cur \/ pc[u] \in {"load", "soname"}
          BY <1>1, <3>1, <5>2, AddressAssumption DEF LoadSteps, Phase
        <5> QED BY <3>1, <4>1, <5>2, <5>3
                DEF LoadSteps, Phase, Opened, OthersSettled
      <4> QED BY <4>2, <4>3
    <3> QED BY <1>1, <3>2 DEF HoldsOnly, Mapped
  <2> QED BY <2>2, <2>3, <2>4 DEF InUse
<1>2. ASSUME IndInv, Quiesced, NEW t \in Threads, pc[t] = "query"
      PROVE  so_name[asked[t]] # Freed
  <2>1. asked[t] \in Plugins /\ \A u \in Threads : ~Reloading(u)
    BY <1>2 DEF IndInv, CallInv, QuiesceInv
  <2> DEFINE p == asked[t]
  <2>2. CASE Settled(p)
    BY <1>2, <2>1, <2>2, AddressAssumption DEF Settled, IndInv, TypeOK
  <2>3. CASE init_lock = NoThread
    BY <1>2, <2>1, <2>2, <2>3 DEF IndInv, LoopInv
  <2>4. CASE init_lock # NoThread
    <3>1. PICK u \in Threads : init_lock = u
      BY <1>2, <2>4 DEF IndInv, TypeOK
    <3>2. pc[u] \in LoadSteps /\ Phase(pc[u])
      BY <1>2, <2>1, <3>1
         DEF IndInv, LockInv, CallInv, LoopInv, Reloading, LoaderSteps
    <3> QED BY <2>1, <2>2, <3>2, AddressAssumption
            DEF LoadSteps, Phase, Opened, OthersSettled
  <2> QED BY <2>3, <2>4
<1>3. IndInv => NoUnmappedCode /\ NoFreedName
  BY <1>1, <1>2 DEF NoUnmappedCode, NoFreedName
<1> QED BY IndInvCorrect, <1>3, PTL

-----------------------------------------------------------------------------
\* The steps that can end a bd_*init call, change a handle or give up the lock.
LEMMA WhoChanges ==
    IndInv /\ [Next]_vars =>
        /\ \A u \in Threads : pc[u] \in {"lock", "load"} /\ pc'[u] = "idle" =>
                                  EnterAndReturn(u) \/ Finish(u)
        /\ handle' # handle =>
               \E u \in Threads : UnloadHandle(u) \/ SetHandle(u)
        /\ \A u \in Threads : init_lock = u /\ init_lock' # u => Finish(u)
<1> DEFINE Goal ==
      /\ \A u \in Threads : pc[u] \in {"lock", "load"} /\ pc'[u] = "idle" =>
                                EnterAndReturn(u) \/ Finish(u)
      /\ handle' # handle =>
             \E u \in Threads : UnloadHandle(u) \/ SetHandle(u)
      /\ \A u \in Threads : init_lock = u /\ init_lock' # u => Finish(u)
<1> SUFFICES ASSUME IndInv, [Next]_vars PROVE Goal
  OBVIOUS
<1> USE ConstantsAssumption DEF IndInv, LockInv, TypeOK, LoaderSteps, UnloadSteps,
        FreeSteps, LoadSteps
<1>1. CASE UNCHANGED vars
  BY <1>1 DEF vars
<1>2. ASSUME NEW t \in Threads, NEW kind \in Kinds, NEW req \in Requests,
             NEW reload \in BOOLEAN, CallInit(t, kind, req, reload)
      PROVE  Goal
  BY <1>2 DEF CallInit, Goto, Return, shared, loader, args, threads
<1>3. ASSUME NEW t \in Threads, NEW p \in Plugins, NEW f \in Funcs,
       CallFunction(t, p, f)
      PROVE  Goal
  BY <1>3 DEF CallFunction, Goto, Return, shared, loader, args, threads
<1>4. ASSUME NEW t \in Threads, NEW p \in Plugins, QuerySoname(t, p)
      PROVE  Goal
  BY <1>4 DEF QuerySoname, Goto, Return, shared, loader, args, threads
<1>5. ASSUME NEW t \in Threads, NEW conf \in Configs, EnterAndLoad(t, conf)
      PROVE  Goal
  BY <1>5 DEF EnterAndLoad, Goto, Return, shared, loader, args, threads
<1>6. ASSUME NEW t \in Threads, ReturnFunction(t)
      PROVE  Goal
  BY <1>6 DEF ReturnFunction, Goto, Return, shared, loader, args, threads
<1>7. ASSUME NEW t \in Threads, CopySoname(t)
      PROVE  Goal
  BY <1>7 DEF CopySoname, Goto, Return, shared, loader, args, threads
<1>8. ASSUME NEW t \in Threads, IsInitialized(t)
      PROVE  Goal
  BY <1>8 DEF IsInitialized, Goto, Return, shared, loader, args, threads
<1>9. ASSUME NEW t \in Threads, EnterAndReturn(t)
      PROVE  Goal
  <2>1. \A u \in Threads : pc[u] # pc'[u] => u = t
    BY <1>9 DEF EnterAndReturn, Goto, Return
  <2>2. handle' = handle /\ pc'[t] = "idle" /\ init_lock \in {t, NoThread}
    BY <1>9 DEF EnterAndReturn, Goto, Return, shared, loader, args, threads
  <2> QED BY <1>9, <2>1, <2>2 DEF EnterAndReturn, shared
<1>10. ASSUME NEW t \in Threads, UnloadSkip(t)
      PROVE  Goal
  BY <1>10 DEF UnloadSkip, Goto, Return, shared, loader, args, threads
<1>11. ASSUME NEW t \in Threads, UnloadStubs(t)
      PROVE  Goal
  BY <1>11 DEF UnloadStubs, Goto, Return, shared, loader, args, threads
<1>12. ASSUME NEW t \in Threads, UnloadDlclose(t)
      PROVE  Goal
  BY <1>12 DEF UnloadDlclose, Goto, Return, shared, loader, args, threads
<1>13. ASSUME NEW t \in Threads, UnloadHandle(t)
      PROVE  Goal
  <2>1. \A u \in Threads : pc[u] # pc'[u] => u = t
    BY <1>13 DEF UnloadHandle, Goto, Return
  <2>2. pc'[t] # "idle" /\ init_lock' = init_lock
    BY <1>13 DEF UnloadHandle, Goto, Return, shared, loader, args, threads
  <2> QED BY <1>13, <2>1, <2>2
<1>14. ASSUME NEW t \in Threads, UnloadDone(t)
      PROVE  Goal
  BY <1>14 DEF UnloadDone, Goto, Return, shared, loader, args, threads
<1>15. ASSUME NEW t \in Threads, FreeSoname(t)
      PROVE  Goal
  BY <1>15 DEF FreeSoname, Goto, Return, shared, loader, args, threads
<1>16. ASSUME NEW t \in Threads, ClearSoname(t)
      PROVE  Goal
  BY <1>16 DEF ClearSoname, Goto, Return, shared, loader, args, threads
<1>17. ASSUME NEW t \in Threads, FreeDone(t)
      PROVE  Goal
  BY <1>17 DEF FreeDone, Goto, Return, shared, loader, args, threads
<1>18. ASSUME NEW t \in Threads, LoadSkip(t)
      PROVE  Goal
  BY <1>18 DEF LoadSkip, Goto, Return, shared, loader, args, threads
<1>19. ASSUME NEW t \in Threads, DlopenFails(t)
      PROVE  Goal
  BY <1>19 DEF DlopenFails, NextName, Goto, Return, shared, loader, args,
       threads
<1>20. ASSUME NEW t \in Threads, Dlopen(t)
      PROVE  Goal
  BY <1>20 DEF Dlopen, NextName, Goto, Return, shared, loader, args, threads
<1>21. ASSUME NEW t \in Threads, InitFnFails(t)
      PROVE  Goal
  BY <1>21 DEF InitFnFails, Goto, Return, shared, loader, args, threads
<1>22. ASSUME NEW t \in Threads, InitFnSucceeds(t)
      PROVE  Goal
  BY <1>22 DEF InitFnSucceeds, Goto, Return, shared, loader, args, threads
<1>23. ASSUME NEW t \in Threads, ResolvePresent(t)
      PROVE  Goal
  BY <1>23 DEF ResolvePresent, Goto, Return, shared, loader, args, threads
<1>24. ASSUME NEW t \in Threads, ResolveAbsent(t)
      PROVE  Goal
  BY <1>24 DEF ResolveAbsent, Goto, Return, shared, loader, args, threads
<1>25. ASSUME NEW t \in Threads, RestoreStub(t)
      PROVE  Goal
  BY <1>25 DEF RestoreStub, Goto, Return, shared, loader, args, threads
<1>26. ASSUME NEW t \in Threads, SetHandle(t)
      PROVE  Goal
  <2>1. \A u \in Threads : pc[u] # pc'[u] => u = t
    BY <1>26 DEF SetHandle, Goto, Return
  <2>2. pc'[t] # "idle" /\ init_lock' = init_lock
    BY <1>26 DEF SetHandle, Goto, Return, shared, loader, args, threads
  <2> QED BY <1>26, <2>1, <2>2
<1>27. ASSUME NEW t \in Threads, SetSoname(t)
      PROVE  Goal
  BY <1>27 DEF SetSoname, Goto, Return, shared, loader, args, threads
<1>28. ASSUME NEW t \in Threads, Finish(t)
      PROVE  Goal
  <2>1. \A u \in Threads : pc[u] # pc'[u] => u = t
    BY <1>28 DEF Finish, Goto, Return
  <2>2. handle' = handle /\ pc'[t] = "idle" /\ init_lock \in {t, NoThread}
    BY <1>28 DEF Finish, Goto, Return, shared, loader, args, threads
  <2> QED BY <1>28, <2>1, <2>2
<1> QED
  BY <1>1, <1>2, <1>3, <1>4, <1>5, <1>6, <1>7, <1>8, <1>9, <1>10, <1>11,
       <1>12, <1>13, <1>14, <1>15, <1>16, <1>17, <1>18, <1>19, <1>20, <1>21,
       <1>22, <1>23, <1>24, <1>25, <1>26, <1>27, <1>28
     DEF Next, Use, Enter, Step, Unload, FreeNames, Load

\* bd_ensure_init's early return counts every plugin load_plugins would require.
LEMMA NotMissing ==
    ASSUME NEW req \in RequestType, ~Missing(req), NEW p \in Required(req)
    PROVE  handle[p] # NULL
<1>1. CASE req.all
  BY <1>1 DEF Missing, Required, Available
<1>2. CASE ~req.all
  BY <1>2 DEF Missing, Required, Mask, Available
<1> QED BY <1>1, <1>2

\* Nothing is used after it is gone: the two theorems above in one.
THEOREM DanglesCorrect == Spec => []NothingDangles
<1>1. NoDanglingPointer /\ NoUnmappedCode /\ NoFreedName => NothingDangles
  BY DEF NothingDangles
<1> QED BY PointersCorrect, ReadersCorrect, <1>1, PTL

\* A TRUE result means that every plugin asked for is loaded.
THEOREM SuccessCorrect == Spec => SuccessMeansLoaded
<1>1. ASSUME IndInv, [Next]_vars, NEW t \in Threads,
             pc[t] \in {"lock", "load"}, pc'[t] = "idle", ret'[t],
             NEW p \in Required(call[t].req)
      PROVE  handle'[p] # NULL
  <2>1. ret \in [Threads -> BOOLEAN] /\ call[t].req \in RequestType
    BY <1>1 DEF IndInv, TypeOK, CallType
  <2>2. CASE EnterAndReturn(t)
    <3>1. call[t].kind = "ensure" /\ AlreadyInitialized(call[t])
      BY <1>1, <2>1, <2>2 DEF EnterAndReturn, Return
    <3>2. ~Missing(call[t].req) /\ handle' = handle
      BY <2>2, <3>1 DEF AlreadyInitialized, EnterAndReturn, shared
    <3> QED BY <1>1, <2>1, <3>2, NotMissing
  <2>3. CASE Finish(t)
    BY <1>1, <2>1, <2>3 DEF Finish, Return
  <2> QED BY <1>1, <2>2, <2>3, WhoChanges
<1>2. IndInv /\ [Next]_vars => SuccessStep
  BY <1>1 DEF SuccessStep
<1> QED BY <1>2, IndInvCorrect, PTL DEF Spec, SuccessMeansLoaded

\* Initialized with nothing loaded only because nothing was asked for.
THEOREM InitializedCorrect == Spec => InitializedJustified
<1>1. ASSUME IndInv, [Next]_vars, NEW t \in Threads,
             init_lock = t, init_lock' # t, initialized',
             \A p \in Plugins : handle'[p] = NULL
      PROVE  EmptyRequest(call[t].req)
  <2>1. Finish(t)
    BY <1>1, WhoChanges
  <2>2. Required(call[t].req) \subseteq Plugins
    BY DEF Required, Mask
  <2> QED BY <1>1, <2>1, <2>2 DEF Finish, InitializedBy
<1>2. IndInv /\ [Next]_vars => ReleaseStep
  BY <1>1 DEF ReleaseStep
<1> QED BY <1>2, IndInvCorrect, PTL DEF Spec, InitializedJustified

\* Without reload nothing is ever unloaded.
THEOREM UnloadCorrect == Spec => OnlyReloadUnloads
<1>1. ASSUME IndInv, [Next]_vars, NEW p \in Plugins,
             handle[p] # NULL, handle'[p] # handle[p]
      PROVE  \E t \in Threads : init_lock = t /\ call[t].reload
  <2>1. PICK t \in Threads : UnloadHandle(t) \/ SetHandle(t)
    BY <1>1, WhoChanges
  <2>2. CASE UnloadHandle(t)
    BY <1>1, <2>2, LoaderFacts DEF UnloadHandle, IndInv, LockInv, CallInv,
       UnloadSteps
  <2>3. CASE SetHandle(t)
    <3>1. handle[cur] = NULL
      BY <1>1, <2>3 DEF SetHandle, IndInv, LoopInv, Phase
    <3> QED BY <1>1, <2>3, <3>1 DEF SetHandle, IndInv, TypeOK
  <2> QED BY <2>1, <2>2, <2>3
<1>2. IndInv /\ [Next]_vars => HandleStep
  BY <1>1 DEF HandleStep
<1> QED BY <1>2, IndInvCorrect, PTL DEF Spec, OnlyReloadUnloads

-----------------------------------------------------------------------------
(* The loader implements PluginRegistry.                                   *)

\* What the mapping shows of the tables and of the threads.
Loaded == IF init_lock = NoThread THEN handle ELSE before.handle
Table == IF init_lock = NoThread THEN fn ELSE before.fn
Waiting == {t \in Threads : pc[t] \in {"lock"} \cup LoaderSteps}

\* The operators of the two modules that say the same.
LEMMA SameWords ==
    /\ Registry!Plugins = Plugins /\ Registry!Funcs = Funcs
    /\ \A req : Registry!Wanted(req) = Required(req)
BY DEF Registry!Plugins, Registry!Funcs, Registry!Wanted, Registry!Named, Plugins,
       Funcs, Required, Mask

\* When every plugin is settled the pointers are the table of the handles.
LEMMA SettledTable ==
    ASSUME fn \in [Plugins -> [Funcs -> SoNames \cup {NULL, Stub}]],
           \A p \in Plugins : Settled(p)
    PROVE  fn = Registry!TableOf(handle)
<1>1. \A p \in Plugins : fn[p] = [f \in Funcs |->
          IF handle[p] # NULL /\ f \in Provides[p][handle[p]]
            THEN handle[p] ELSE Stub]
  BY DEF Settled, Dispatch
<1> QED BY <1>1, SameWords DEF Registry!TableOf

LEMMA RegistryInit == Init => Registry!Init
<1> SUFFICES ASSUME Init PROVE Registry!Init
  OBVIOUS
<1>1. TypeOK /\ \A p \in Plugins : Settled(p)
  BY InitIndInv DEF Init, IndInv, LoopInv
<1>2. fn = Registry!TableOf(handle)
  BY <1>1, SettledTable DEF TypeOK
<1>3. {t \in Threads : pc[t] \in {"lock"} \cup LoaderSteps} = {}
  BY DEF Init, LoaderSteps, UnloadSteps, FreeSteps, LoadSteps
<1> QED BY <1>2, <1>3, SameWords DEF Init, Registry!Init

\* A step that shows nothing of itself through the mapping.
LEMMA Stutters ==
    ASSUME UNCHANGED <<Loaded, Table, Waiting, initialized, call, ret>>
    PROVE  UNCHANGED Registry!vars
BY DEF Loaded, Table, Waiting, Registry!vars

\* An API call or a query is at most a query of the registry, a call of the
\* bd_*init family is an invocation.
LEMMA UseImplements ==
    ASSUME IndInv, NEW t \in Threads, Use(t)
    PROVE  Registry!Next
<1>0. TypeOK /\ Outside(t)
  BY OutsideStep DEF IndInv
<1>1. UNCHANGED <<Loaded, Table, initialized>>
  BY <1>0 DEF Outside, Loaded, Table, shared, loader
<1>2. UNCHANGED Registry!registry
  BY <1>1 DEF Loaded, Table, Registry!registry
<1>3. \A u \in Threads \ {t} : /\ u \in Waiting' <=> u \in Waiting
                               /\ ret'[u] = ret[u] /\ call'[u] = call[u]
  BY <1>0 DEF Outside, Waiting
<1>4. ASSUME NEW kind \in Kinds, NEW req \in Requests, NEW reload \in BOOLEAN,
             CallInit(t, kind, req, reload)
      PROVE  Registry!Invoke(t)
  <2>1. pc[t] = "idle" /\ pc'[t] = "lock" /\ ret' = ret
    BY <1>0, <1>4 DEF CallInit, Goto, TypeOK
  <2>2. t \notin Waiting /\ Waiting' = Waiting \cup {t}
    BY <1>3, <2>1 DEF Waiting, LoaderSteps, UnloadSteps, FreeSteps, LoadSteps
  <2> QED BY <1>2, <1>3, <2>1, <2>2 DEF Waiting, Registry!Invoke
<1>5. ASSUME pc[t] # "lock", pc'[t] # "lock", call' = call
      PROVE  Registry!Query(t)
  <2>1. t \notin Waiting /\ t \notin Waiting'
    BY <1>0, <1>5 DEF Outside, Waiting
  <2>2. Waiting' = Waiting
    BY <1>3, <2>1 DEF Waiting
  <2> QED BY <1>2, <1>3, <1>5, <2>1, <2>2 DEF Waiting, Registry!Query
<1>6. ASSUME ~(\E kind \in Kinds, req \in Requests, reload \in BOOLEAN :
                   CallInit(t, kind, req, reload))
      PROVE  pc[t] # "lock" /\ pc'[t] # "lock" /\ call' = call
  BY <1>0, <1>6 DEF Use, CallFunction, ReturnFunction, QuerySoname, CopySoname,
     IsInitialized, Goto, Return, TypeOK
<1> QED BY <1>4, <1>5, <1>6 DEF Registry!Next

\* An init call that finds everything in place declines.
LEMMA DeclineImplements ==
    ASSUME IndInv, NEW t \in Threads, EnterAndReturn(t)
    PROVE  Registry!Respond(t)
<1>0. TypeOK /\ Outside(t)
  BY OutsideStep DEF IndInv
<1>1. UNCHANGED <<Loaded, Table, initialized>> /\ Loaded = handle
  BY <1>0 DEF Outside, Loaded, Table, shared, loader, EnterAndReturn
<1>2. UNCHANGED Registry!registry
  BY <1>1 DEF Loaded, Table, Registry!registry
<1>3. /\ pc[t] = "lock" /\ pc'[t] = "idle" /\ call' = call
      /\ ret'[t] = (call[t].kind = "ensure") /\ AlreadyInitialized(call[t])
  BY <1>0 DEF EnterAndReturn, Goto, Return, TypeOK
<1>4. t \in Waiting /\ Waiting' = Waiting \ {t}
  BY <1>0, <1>3 DEF Outside, Waiting
<1>5. call[t].req \in RequestType
  BY <1>0 DEF TypeOK, CallType
<1>6. ~Missing(call[t].req) =>
          \A p \in Registry!Wanted(call[t].req) : Loaded[p] # NULL
  BY <1>1, <1>5, NotMissing, SameWords
<1>7. Registry!Decline(t)
  BY <1>2, <1>3, <1>6 DEF AlreadyInitialized, Loaded, Registry!Decline
<1> QED BY <1>0, <1>3, <1>4, <1>7 DEF Outside, Waiting, Registry!Respond

\* The last step of load_plugins and of its caller shows what was chosen.
LEMMA FinishImplements ==
    ASSUME IndInv, TypeOK', NEW t \in Threads, Finish(t)
    PROVE  Registry!Respond(t)
<1>1. /\ TypeOK /\ pc[t] = "load" /\ pc'[t] = "idle"
      /\ init_lock = t /\ init_lock # NoThread /\ init_lock' = NoThread
      /\ UNCHANGED <<handle, fn, call>>
  BY LoaderFacts, ConstantsAssumption DEF IndInv, LockInv, Finish, Return, Goto, TypeOK
<1>2. Loaded = before.handle /\ Loaded' = handle /\ Table' = fn
  BY <1>1 DEF Loaded, Table
<1>3. /\ \A u \in Threads \ {t} : pc'[u] = pc[u] /\ ret'[u] = ret[u]
      /\ ret'[t] = (\A p \in Required(call[t].req) : handle[p] # NULL)
      /\ initialized' = InitializedBy(call[t].req)
  BY <1>1 DEF Finish, Return, Goto, TypeOK
<1>4. t \in Waiting /\ Waiting' = Waiting \ {t}
  BY <1>1, <1>3, LoaderFacts DEF Waiting, LoaderSteps, UnloadSteps, FreeSteps, LoadSteps
<1>5. Choosing(t)
  BY <1>1 DEF IndInv, ChoiceInv
<1>6. Table' = Registry!TableOf(Loaded')
  <2>1. \A p \in Plugins : Settled(p)
    BY <1>1 DEF IndInv, LoopInv, Phase
  <2> QED BY <1>1, <1>2, <2>1, SettledTable DEF TypeOK
<1>7. \A p \in Plugins :
          IF ~call[t].reload /\ Loaded[p] # NULL THEN Loaded'[p] = Loaded[p]
          ELSE Loaded'[p] \in Registry!MayServe(call[t].req, p) \cup {NULL}
  BY <1>1, <1>2, <1>5 DEF Choosing, LoadSteps
<1>8. ~(initialized /\ call[t].kind \in {"init", "try_init"})
  BY <1>5 DEF Choosing
<1>9. Loaded' \in [Plugins -> SoNames \cup {NULL}]
  BY <1>1, <1>2 DEF TypeOK
<1>10. /\ initialized' = ((\E p \in Registry!Wanted(call[t].req) : Loaded'[p] # NULL)
                          \/ (~call[t].req.all /\ call[t].req.specs = <<>>))
       /\ ret'[t] = (\A p \in Registry!Wanted(call[t].req) : Loaded'[p] # NULL)
  BY <1>2, <1>3, SameWords DEF InitializedBy, EmptyRequest
<1>11. Registry!Load(t)
  BY <1>6, <1>7, <1>8, <1>9, <1>10, SameWords DEF Loaded, Table, Registry!Load
<1> QED BY <1>1, <1>3, <1>4, <1>11 DEF Waiting, Registry!Respond

LEMMA RegistryStep ==
    IndInv /\ IndInv' /\ [Next]_vars => [Registry!Next]_(Registry!vars)
<1> SUFFICES ASSUME IndInv, IndInv', [Next]_vars
             PROVE  Registry!Next \/ UNCHANGED Registry!vars
  OBVIOUS
<1>0. TypeOK /\ TypeOK'
  BY DEF IndInv
<1>1. CASE UNCHANGED vars
  BY <1>1, Stutters DEF vars, Loaded, Table, Waiting
<1>2. ASSUME NEW t \in Threads, Use(t) PROVE Registry!Next
  BY <1>2, UseImplements
<1>3. ASSUME NEW t \in Threads, EnterAndReturn(t) \/ Finish(t) PROVE Registry!Next
  BY <1>0, <1>3, DeclineImplements, FinishImplements DEF Registry!Next
<1>4. ASSUME NEW t \in Threads, NEW conf \in Configs, EnterAndLoad(t, conf)
      PROVE  UNCHANGED Registry!vars
  <2>1. /\ init_lock = NoThread /\ init_lock' # NoThread
        /\ before'.handle = handle /\ before'.fn = fn
        /\ UNCHANGED <<initialized, call, ret>>
    BY <1>4, ConstantsAssumption DEF EnterAndLoad, args
  <2>2. UNCHANGED <<Loaded, Table>>
    BY <2>1 DEF Loaded, Table
  <2>3. \A u \in Threads : u \in Waiting <=> u \in Waiting'
    BY <1>0, <1>4, LoaderFacts DEF EnterAndLoad, Goto, TypeOK, Waiting
  <2>4. UNCHANGED Waiting
    BY <2>3 DEF Waiting
  <2> QED BY <2>1, <2>2, <2>4, Stutters
<1>5. ASSUME NEW t \in Threads, Unload(t) \/ FreeNames(t) \/ Load(t)
      PROVE  UNCHANGED Registry!vars
  <2>1. Inside(t)
    BY <1>0, <1>5, InsideStep
  <2>2. init_lock # NoThread /\ init_lock' # NoThread
    BY <2>1, ConstantsAssumption DEF Inside, IndInv, LockInv
  <2>3. UNCHANGED <<Loaded, Table, Waiting, initialized, call, ret>>
    BY <2>1, <2>2 DEF Inside, Loaded, Table, Waiting
  <2> QED BY <2>3, Stutters
<1> QED BY <1>1, <1>2, <1>3, <1>4, <1>5 DEF Next, Enter, Step

\* Seen between init calls the loader behaves as if every call of the bd_*init
\* family took effect in one step, for any threads, requests and configurations
\* and whatever dlopen () and the plugins' init functions answer.
THEOREM RegistryCorrect == Spec => RegistrySpec
<1> QED BY RegistryInit, RegistryStep, IndInvCorrect, PTL
        DEF Spec, RegistrySpec, Registry!Spec

=============================================================================
