-------------------------- MODULE LvmConfigProofs --------------------------
(***************************************************************************)
(* Proofs about LvmConfig for any threads, configurations and calls.       *)
(***************************************************************************)
EXTENDS LvmConfig, TLAPS

LEMMA InitIndInv == Init => IndInv
  BY LvmAssumption DEF Init, IndInv, TypeOK, LockInv, ConfigInv, ArgvInv,
     ConfigFixedDuringRun, OverrideContained, At, Holds, Op, PCs, Running,
     ConfigStr, Unset, ArgvType, NoArgs, NoCall

LEMMA CallKeeps ==
    ASSUME IndInv, NEW t \in Threads, Call(t) PROVE IndInv'
  <1> USE LvmAssumption DEF IndInv, Call, Goto, Op, static
  <1>1. TypeOK'
    BY DEF TypeOK, PCs, Running, CallType, ConfigStr, Unset, ArgvType, NoArgs, NoCall
  <1>2. LockInv' BY DEF TypeOK, LockInv, At, Holds, Running, NoCall
  <1>3. ConfigInv'
    BY DEF TypeOK, LockInv, ConfigInv, At, Holds, Running, NoCall, ConfigStr
  <1>4. ArgvInv' BY DEF TypeOK, ArgvInv, At, Running
  <1>5. ConfigFixedDuringRun'
    BY DEF TypeOK, LockInv, ConfigFixedDuringRun, At, Holds, Running
  <1>6. OverrideContained'
    BY DEF TypeOK, LockInv, ConfigInv, ArgvInv, OverrideContained, At, Holds, NoArgs, Unset
  <1> QED BY <1>1, <1>2, <1>3, <1>4, <1>5, <1>6

LEMMA DepsKeeps ==
    ASSUME IndInv, NEW t \in Threads, Deps(t) PROVE IndInv'
  <1> USE LvmAssumption DEF IndInv, Deps, Goto, Done, Op, static
  <1>1. TypeOK'
    BY DEF TypeOK, PCs, Running, CallType, ConfigStr, Unset, ArgvType, NoArgs, NoCall
  <1>2. LockInv' BY DEF TypeOK, LockInv, At, Holds, Running, NoCall
  <1>3. ConfigInv'
    BY DEF TypeOK, LockInv, ConfigInv, At, Holds, Running, NoCall, ConfigStr
  <1>4. ArgvInv' BY DEF TypeOK, ArgvInv, At, Running
  <1>5. ConfigFixedDuringRun'
    BY DEF TypeOK, LockInv, ConfigFixedDuringRun, At, Holds, Running
  <1>6. OverrideContained'
    BY DEF TypeOK, LockInv, ConfigInv, ArgvInv, OverrideContained, At, Holds, NoArgs, Unset
  <1> QED BY <1>1, <1>2, <1>3, <1>4, <1>5, <1>6

LEMMA SetGlobalConfigKeeps ==
    ASSUME IndInv, NEW t \in Threads, SetGlobalConfig(t) PROVE IndInv'
  <1> USE LvmAssumption DEF IndInv, SetGlobalConfig, TakesLock, Goto, Done, Op, static
  <1>1. TypeOK'
    BY DEF TypeOK, PCs, Running, CallType, ConfigStr, Unset, ArgvType, NoArgs, NoCall
  <1>2. LockInv' BY DEF TypeOK, LockInv, At, Holds, Running, NoCall
  <1>3. ConfigInv'
    BY DEF TypeOK, LockInv, ConfigInv, At, Holds, Running, NoCall, ConfigStr
  <1>4. ArgvInv' BY DEF TypeOK, ArgvInv, At, Running
  <1>5. ConfigFixedDuringRun'
    BY DEF TypeOK, LockInv, ConfigFixedDuringRun, At, Holds, Running
  <1>6. OverrideContained'
    BY DEF TypeOK, LockInv, ConfigInv, ArgvInv, OverrideContained, At, Holds, NoArgs, Unset
  <1> QED BY <1>1, <1>2, <1>3, <1>4, <1>5, <1>6

LEMMA GetGlobalConfigKeeps ==
    ASSUME IndInv, NEW t \in Threads, GetGlobalConfig(t) PROVE IndInv'
  <1> USE LvmAssumption DEF IndInv, GetGlobalConfig, TakesLock, Goto, Done, Op, static
  <1>1. TypeOK'
    <2>1. answer' \in [Threads -> ArgvType]
      <3>1. [answer[t] EXCEPT !.config = config] \in ArgvType
        BY DEF TypeOK, ArgvType
      <3> QED
        BY <3>1 DEF TypeOK
    <2>2. pc' \in [Threads -> PCs] /\ call' \in [Threads -> Calls \cup {NoCall}]
      BY DEF TypeOK, PCs
    <2> QED
      BY <2>1, <2>2 DEF TypeOK
  <1>2. LockInv' BY DEF TypeOK, LockInv, At, Holds, Running, NoCall
  <1>3. ConfigInv'
    BY DEF TypeOK, LockInv, ConfigInv, At, Holds, Running, NoCall, ConfigStr
  <1>4. ArgvInv' BY DEF TypeOK, ArgvInv, At, Running
  <1>5. ConfigFixedDuringRun'
    BY DEF TypeOK, LockInv, ConfigFixedDuringRun, At, Holds, Running
  <1>6. OverrideContained'
    BY DEF TypeOK, LockInv, ConfigInv, ArgvInv, OverrideContained, At, Holds, NoArgs, Unset
  <1> QED BY <1>1, <1>2, <1>3, <1>4, <1>5, <1>6

LEMMA SetDevicesFilterKeeps ==
    ASSUME IndInv, NEW t \in Threads, SetDevicesFilter(t) PROVE IndInv'
  <1> USE LvmAssumption DEF IndInv, SetDevicesFilter, TakesLock, Goto, Done, Op, static
  <1>1. TypeOK'
    BY DEF TypeOK, PCs, Running, CallType, ConfigStr, Unset, ArgvType, NoArgs, NoCall
  <1>2. LockInv' BY DEF TypeOK, LockInv, At, Holds, Running, NoCall
  <1>3. ConfigInv'
    BY DEF TypeOK, LockInv, ConfigInv, At, Holds, Running, NoCall, ConfigStr
  <1>4. ArgvInv' BY DEF TypeOK, ArgvInv, At, Running
  <1>5. ConfigFixedDuringRun'
    BY DEF TypeOK, LockInv, ConfigFixedDuringRun, At, Holds, Running
  <1>6. OverrideContained'
    BY DEF TypeOK, LockInv, ConfigInv, ArgvInv, OverrideContained, At, Holds, NoArgs, Unset
  <1> QED BY <1>1, <1>2, <1>3, <1>4, <1>5, <1>6

LEMMA GetDevicesFilterKeeps ==
    ASSUME IndInv, NEW t \in Threads, GetDevicesFilter(t) PROVE IndInv'
  <1> USE LvmAssumption DEF IndInv, GetDevicesFilter, TakesLock, Goto, Done, Op, static
  <1>1. TypeOK'
    <2>1. answer' \in [Threads -> ArgvType]
      <3>1. [answer[t] EXCEPT !.devices = devices] \in ArgvType
        BY DEF TypeOK, ArgvType
      <3> QED
        BY <3>1 DEF TypeOK
    <2>2. pc' \in [Threads -> PCs] /\ call' \in [Threads -> Calls \cup {NoCall}]
      BY DEF TypeOK, PCs
    <2> QED
      BY <2>1, <2>2 DEF TypeOK
  <1>2. LockInv' BY DEF TypeOK, LockInv, At, Holds, Running, NoCall
  <1>3. ConfigInv'
    BY DEF TypeOK, LockInv, ConfigInv, At, Holds, Running, NoCall, ConfigStr
  <1>4. ArgvInv' BY DEF TypeOK, ArgvInv, At, Running
  <1>5. ConfigFixedDuringRun'
    BY DEF TypeOK, LockInv, ConfigFixedDuringRun, At, Holds, Running
  <1>6. OverrideContained'
    BY DEF TypeOK, LockInv, ConfigInv, ArgvInv, OverrideContained, At, Holds, NoArgs, Unset
  <1> QED BY <1>1, <1>2, <1>3, <1>4, <1>5, <1>6

LEMMA CallLvmKeeps ==
    ASSUME IndInv, NEW t \in Threads, CallLvm(t) PROVE IndInv'
  <1> USE LvmAssumption DEF IndInv, CallLvm, TakesLock, Goto, Op, static
  <1>1. TypeOK'
    BY DEF TypeOK, PCs, Running, CallType, ConfigStr, Unset, ArgvType, NoArgs, NoCall
  <1>2. LockInv' BY DEF TypeOK, LockInv, At, Holds, Running, NoCall
  <1>3. ConfigInv'
    BY DEF TypeOK, LockInv, ConfigInv, At, Holds, Running, NoCall, ConfigStr
  <1>4. ArgvInv' BY DEF TypeOK, ArgvInv, At, Running
  <1>5. ConfigFixedDuringRun'
    BY DEF TypeOK, LockInv, ConfigFixedDuringRun, At, Holds, Running
  <1>6. OverrideContained'
    BY DEF TypeOK, LockInv, ConfigInv, ArgvInv, OverrideContained, At, Holds, NoArgs, Unset
  <1> QED BY <1>1, <1>2, <1>3, <1>4, <1>5, <1>6

LEMMA VdoOverrideKeeps ==
    ASSUME IndInv, NEW t \in Threads, VdoOverride(t) PROVE IndInv'
  <1> USE LvmAssumption DEF IndInv, VdoOverride, TakesLock, Goto, Op, static
  <1>a. config' \in ConfigStr
    <2>1. call[t] \in CallType BY DEF TypeOK, TakesLock, NoCall
    <2> QED BY <2>1 DEF TypeOK, CallType, ConfigStr
  <1>1. TypeOK' BY <1>a DEF TypeOK, PCs
  <1>2. LockInv' BY DEF TypeOK, LockInv, At, Holds, Running, NoCall
  <1>3. ConfigInv'
    BY DEF TypeOK, LockInv, ConfigInv, At, Holds, Running, NoCall, ConfigStr
  <1>4. ArgvInv' BY DEF TypeOK, ArgvInv, At, Running
  <1>5. ConfigFixedDuringRun'
    BY DEF TypeOK, LockInv, ConfigFixedDuringRun, At, Holds, Running
  <1>6. OverrideContained'
    BY DEF TypeOK, LockInv, ConfigInv, ArgvInv, OverrideContained, At, Holds, NoArgs, Unset
  <1> QED BY <1>1, <1>2, <1>3, <1>4, <1>5, <1>6

LEMMA VdoCallKeeps ==
    ASSUME IndInv, NEW t \in Threads, VdoCall(t) PROVE IndInv'
  <1> USE LvmAssumption DEF IndInv, VdoCall, Goto, Op, static
  <1>1. TypeOK'
    BY DEF TypeOK, PCs, Running, CallType, ConfigStr, Unset, ArgvType, NoArgs, NoCall
  <1>2. LockInv' BY DEF TypeOK, LockInv, At, Holds, Running, NoCall
  <1>3. ConfigInv'
    BY DEF TypeOK, LockInv, ConfigInv, At, Holds, Running, NoCall, ConfigStr
  <1>4. ArgvInv' BY DEF TypeOK, ArgvInv, At, Running
  <1>5. ConfigFixedDuringRun'
    BY DEF TypeOK, LockInv, ConfigFixedDuringRun, At, Holds, Running
  <1>6. OverrideContained'
    BY DEF TypeOK, LockInv, ConfigInv, ArgvInv, OverrideContained, At, Holds, NoArgs, Unset
  <1> QED BY <1>1, <1>2, <1>3, <1>4, <1>5, <1>6

LEMMA VdoDepsFailKeeps ==
    ASSUME IndInv, NEW t \in Threads, VdoDepsFail(t) PROVE IndInv'
  <1> USE LvmAssumption DEF IndInv, VdoDepsFail, Goto, Done, Op, static
  <1>1. TypeOK'
    BY DEF TypeOK, PCs, Running, CallType, ConfigStr, Unset, ArgvType, NoArgs, NoCall
  <1>2. LockInv' BY DEF TypeOK, LockInv, At, Holds, Running, NoCall
  <1>3. ConfigInv'
    BY DEF TypeOK, LockInv, ConfigInv, At, Holds, Running, NoCall, ConfigStr
  <1>4. ArgvInv' BY DEF TypeOK, ArgvInv, At, Running
  <1>5. ConfigFixedDuringRun'
    BY DEF TypeOK, LockInv, ConfigFixedDuringRun, At, Holds, Running
  <1>6. OverrideContained'
    BY DEF TypeOK, LockInv, ConfigInv, ArgvInv, OverrideContained, At, Holds, NoArgs, Unset
  <1> QED BY <1>1, <1>2, <1>3, <1>4, <1>5, <1>6

LEMMA CommandEndsKeeps ==
    ASSUME IndInv, NEW t \in Threads, CommandEnds(t) PROVE IndInv'
  <1> USE LvmAssumption DEF IndInv, CommandEnds, Return, Unlocks, Goto, Done, Op, static
  <1>a. pc' \in [Threads -> PCs] /\ lock' \in Threads \cup {NoThread}
    BY DEF TypeOK, PCs
  <1>b. config' \in ConfigStr BY DEF TypeOK
  <1>0. NoArgs \in ArgvType BY DEF ArgvType, NoArgs, ConfigStr, Unset
  <1>c. argv' \in [Threads -> ArgvType] BY <1>0 DEF TypeOK
  <1>d. old' \in [Threads -> ConfigStr] BY DEF TypeOK, ConfigStr, Unset
  <1>e. call' \in [Threads -> Calls \cup {NoCall}] BY DEF TypeOK
  <1>1. TypeOK' BY <1>a, <1>b, <1>c, <1>d, <1>e DEF TypeOK
  <1>2. LockInv' BY DEF TypeOK, LockInv, At, Holds, Running, NoCall
  <1>3. ConfigInv'
    BY DEF TypeOK, LockInv, ConfigInv, At, Holds, Running, NoCall, ConfigStr
  <1>4. ArgvInv' BY DEF TypeOK, ArgvInv, At, Running
  <1>5. ConfigFixedDuringRun'
    BY DEF TypeOK, LockInv, ConfigFixedDuringRun, At, Holds, Running
  <1>6. OverrideContained'
    BY DEF TypeOK, LockInv, ConfigInv, ArgvInv, OverrideContained, At, Holds, NoArgs, Unset
  <1> QED BY <1>1, <1>2, <1>3, <1>4, <1>5, <1>6

LEMMA JobEndsKeeps ==
    ASSUME IndInv, NEW t \in Threads, JobEnds(t) PROVE IndInv'
  <1> USE LvmAssumption DEF IndInv, JobEnds, Return, Goto, Done, Op, static
  <1>1. TypeOK'
    BY DEF TypeOK, PCs, Running, CallType, ConfigStr, Unset, ArgvType, NoArgs, NoCall
  <1>2. LockInv' BY DEF TypeOK, LockInv, At, Holds, Running, NoCall
  <1>3. ConfigInv'
    BY DEF TypeOK, LockInv, ConfigInv, At, Holds, Running, NoCall, ConfigStr
  <1>4. ArgvInv' BY DEF TypeOK, ArgvInv, At, Running
  <1>5. ConfigFixedDuringRun'
    BY DEF TypeOK, LockInv, ConfigFixedDuringRun, At, Holds, Running
  <1>6. OverrideContained'
    BY DEF TypeOK, LockInv, ConfigInv, ArgvInv, OverrideContained, At, Holds, NoArgs, Unset
  <1> QED BY <1>1, <1>2, <1>3, <1>4, <1>5, <1>6

LEMMA ConfigGetKeeps ==
    ASSUME IndInv, NEW t \in Threads, ConfigGet(t) PROVE IndInv'
  <1> USE LvmAssumption DEF IndInv, ConfigGet, TakesLock, Goto, Op, static
  <1>1. TypeOK'
    BY DEF TypeOK, PCs, Running, CallType, ConfigStr, Unset, ArgvType, NoArgs, NoCall
  <1>2. LockInv' BY DEF TypeOK, LockInv, At, Holds, Running, NoCall
  <1>3. ConfigInv'
    BY DEF TypeOK, LockInv, ConfigInv, At, Holds, Running, NoCall, ConfigStr
  <1>4. ArgvInv' BY DEF TypeOK, ArgvInv, At, Running
  <1>5. ConfigFixedDuringRun'
    BY DEF TypeOK, LockInv, ConfigFixedDuringRun, At, Holds, Running
  <1>6. OverrideContained'
    BY DEF TypeOK, LockInv, ConfigInv, ArgvInv, OverrideContained, At, Holds, NoArgs, Unset
  <1> QED BY <1>1, <1>2, <1>3, <1>4, <1>5, <1>6

LEMMA VgCfgKeeps ==
    ASSUME IndInv, NEW t \in Threads, VgCfg(t) PROVE IndInv'
  <1> USE LvmAssumption DEF IndInv, VgCfg, TakesLock, Goto, Op, static
  <1>1. TypeOK'
    BY DEF TypeOK, PCs, Running, CallType, ConfigStr, Unset, ArgvType, NoArgs, NoCall
  <1>2. LockInv' BY DEF TypeOK, LockInv, At, Holds, Running, NoCall
  <1>3. ConfigInv'
    BY DEF TypeOK, LockInv, ConfigInv, At, Holds, Running, NoCall, ConfigStr
  <1>4. ArgvInv' BY DEF TypeOK, ArgvInv, At, Running
  <1>5. ConfigFixedDuringRun'
    BY DEF TypeOK, LockInv, ConfigFixedDuringRun, At, Holds, Running
  <1>6. OverrideContained'
    BY DEF TypeOK, LockInv, ConfigInv, ArgvInv, OverrideContained, At, Holds, NoArgs, Unset
  <1> QED BY <1>1, <1>2, <1>3, <1>4, <1>5, <1>6

LEMMA DevicesFullKeeps ==
    ASSUME IndInv, NEW t \in Threads, DevicesFull(t) PROVE IndInv'
  <1> USE LvmAssumption DEF IndInv, DevicesFull, TakesLock, Goto, Op, static
  <1>1. TypeOK'
    BY DEF TypeOK, PCs, Running, CallType, ConfigStr, Unset, ArgvType, NoArgs, NoCall
  <1>2. LockInv' BY DEF TypeOK, LockInv, At, Holds, Running, NoCall
  <1>3. ConfigInv'
    BY DEF TypeOK, LockInv, ConfigInv, At, Holds, Running, NoCall, ConfigStr
  <1>4. ArgvInv' BY DEF TypeOK, ArgvInv, At, Running
  <1>5. ConfigFixedDuringRun'
    BY DEF TypeOK, LockInv, ConfigFixedDuringRun, At, Holds, Running
  <1>6. OverrideContained'
    BY DEF TypeOK, LockInv, ConfigInv, ArgvInv, OverrideContained, At, Holds, NoArgs, Unset
  <1> QED BY <1>1, <1>2, <1>3, <1>4, <1>5, <1>6

LEMMA DevicesFullEndsKeeps ==
    ASSUME IndInv, NEW t \in Threads, DevicesFullEnds(t) PROVE IndInv'
  <1> USE LvmAssumption DEF IndInv, DevicesFullEnds, Goto, Done, Op, static
  <1>a. pc' \in [Threads -> PCs] /\ lock' \in Threads \cup {NoThread}
    BY DEF TypeOK, PCs
  <1>b. argv' \in [Threads -> ArgvType]
    BY DEF TypeOK, ArgvType, ConfigStr, NoArgs, Unset
  <1>c. call' \in [Threads -> Calls \cup {NoCall}] BY DEF TypeOK
  <1>1. TypeOK' BY <1>a, <1>b, <1>c DEF TypeOK
  <1>2. LockInv' BY DEF TypeOK, LockInv, At, Holds, Running, NoCall
  <1>3. ConfigInv'
    BY DEF TypeOK, LockInv, ConfigInv, At, Holds, Running, NoCall, ConfigStr
  <1>4. ArgvInv' BY DEF TypeOK, ArgvInv, At, Running
  <1>5. ConfigFixedDuringRun'
    BY DEF TypeOK, LockInv, ConfigFixedDuringRun, At, Holds, Running
  <1>6. OverrideContained'
    BY DEF TypeOK, LockInv, ConfigInv, ArgvInv, OverrideContained, At, Holds, NoArgs, Unset
  <1> QED BY <1>1, <1>2, <1>3, <1>4, <1>5, <1>6

LEMMA DevicesDefaultEndsKeeps ==
    ASSUME IndInv, NEW t \in Threads, DevicesDefaultEnds(t) PROVE IndInv'
  <1> USE LvmAssumption DEF IndInv, DevicesDefaultEnds, Goto, Done, Op, static
  <1>1. TypeOK'
    BY DEF TypeOK, PCs, Running, CallType, ConfigStr, Unset, ArgvType, NoArgs, NoCall
  <1>2. LockInv' BY DEF TypeOK, LockInv, At, Holds, Running, NoCall
  <1>3. ConfigInv'
    BY DEF TypeOK, LockInv, ConfigInv, At, Holds, Running, NoCall, ConfigStr
  <1>4. ArgvInv' BY DEF TypeOK, ArgvInv, At, Running
  <1>5. ConfigFixedDuringRun'
    BY DEF TypeOK, LockInv, ConfigFixedDuringRun, At, Holds, Running
  <1>6. OverrideContained'
    BY DEF TypeOK, LockInv, ConfigInv, ArgvInv, OverrideContained, At, Holds, NoArgs, Unset
  <1> QED BY <1>1, <1>2, <1>3, <1>4, <1>5, <1>6

LEMMA ExecEndsKeeps ==
    ASSUME IndInv, NEW t \in Threads, ExecEnds(t) PROVE IndInv'
  <1> USE LvmAssumption DEF IndInv, ExecEnds, Goto, Done, Op, static
  <1>1. TypeOK'
    BY DEF TypeOK, PCs, Running, CallType, ConfigStr, Unset, ArgvType, NoArgs, NoCall
  <1>2. LockInv' BY DEF TypeOK, LockInv, At, Holds, Running, NoCall
  <1>3. ConfigInv'
    BY DEF TypeOK, LockInv, ConfigInv, At, Holds, Running, NoCall, ConfigStr
  <1>4. ArgvInv' BY DEF TypeOK, ArgvInv, At, Running
  <1>5. ConfigFixedDuringRun'
    BY DEF TypeOK, LockInv, ConfigFixedDuringRun, At, Holds, Running
  <1>6. OverrideContained'
    BY DEF TypeOK, LockInv, ConfigInv, ArgvInv, OverrideContained, At, Holds, NoArgs, Unset
  <1> QED BY <1>1, <1>2, <1>3, <1>4, <1>5, <1>6

LEMMA CallbackKeeps ==
    ASSUME IndInv, NEW t \in Threads, Callback(t) PROVE IndInv'
  <1> USE LvmAssumption DEF IndInv, Callback, Goto, Op, static
  <1>1. TypeOK'
    BY DEF TypeOK, PCs, Running, CallType, ConfigStr, Unset, ArgvType, NoArgs, NoCall
  <1>2. LockInv' BY DEF TypeOK, LockInv, At, Holds, Running, NoCall
  <1>3. ConfigInv'
    BY DEF TypeOK, LockInv, ConfigInv, At, Holds, Running, NoCall, ConfigStr
  <1>4. ArgvInv' BY DEF TypeOK, ArgvInv, At, Running
  <1>5. ConfigFixedDuringRun'
    BY DEF TypeOK, LockInv, ConfigFixedDuringRun, At, Holds, Running
  <1>6. OverrideContained'
    BY DEF TypeOK, LockInv, ConfigInv, ArgvInv, OverrideContained, At, Holds, NoArgs, Unset
  <1> QED BY <1>1, <1>2, <1>3, <1>4, <1>5, <1>6

LEMMA CallbackGetsKeeps ==
    ASSUME IndInv, NEW t \in Threads, CallbackGets(t) PROVE IndInv'
  <1> USE LvmAssumption DEF IndInv, CallbackGets, Goto, Op, static
  <1>1. TypeOK'
    BY DEF TypeOK, PCs, Running, CallType, ConfigStr, Unset, ArgvType, NoArgs, NoCall
  <1>2. LockInv' BY DEF TypeOK, LockInv, At, Holds, Running, NoCall
  <1>3. ConfigInv'
    BY DEF TypeOK, LockInv, ConfigInv, At, Holds, Running, NoCall, ConfigStr
  <1>4. ArgvInv' BY DEF TypeOK, ArgvInv, At, Running
  <1>5. ConfigFixedDuringRun'
    BY DEF TypeOK, LockInv, ConfigFixedDuringRun, At, Holds, Running
  <1>6. OverrideContained'
    BY DEF TypeOK, LockInv, ConfigInv, ArgvInv, OverrideContained, At, Holds, NoArgs, Unset
  <1> QED BY <1>1, <1>2, <1>3, <1>4, <1>5, <1>6

LEMMA NextKeeps == IndInv /\ [Next]_vars => IndInv'
  <1> SUFFICES ASSUME IndInv, [Next]_vars PROVE IndInv'
    OBVIOUS
  <1>1. CASE UNCHANGED vars
    BY <1>1 DEF IndInv, vars, TypeOK, LockInv, ConfigInv, ArgvInv,
       ConfigFixedDuringRun, OverrideContained, At, Holds, Op
  <1>2. ASSUME NEW t \in Threads, Step(t) PROVE IndInv'
    BY <1>2,
        CallKeeps, DepsKeeps, SetGlobalConfigKeeps,
        GetGlobalConfigKeeps, SetDevicesFilterKeeps,
        GetDevicesFilterKeeps, CallLvmKeeps, VdoOverrideKeeps,
        VdoCallKeeps, VdoDepsFailKeeps, CommandEndsKeeps,
        JobEndsKeeps, ConfigGetKeeps, VgCfgKeeps, DevicesFullKeeps,
        DevicesFullEndsKeeps, DevicesDefaultEndsKeeps, ExecEndsKeeps,
        CallbackKeeps, CallbackGetsKeeps
    DEF Step, Locks, Ends
  <1> QED BY <1>1, <1>2 DEF Next

\* The inductive invariant: the holder of the lock is the thread its program
\* counter says, the configuration is the application's or the VDO command's
\* version of it, and no thread keeps the arguments of a finished command.
THEOREM IndInvCorrect == Spec => []IndInv
  BY InitIndInv, NextKeeps, PTL DEF Spec

\* call_lvm_and_report_error, its brothers and call_lvm_method keep their
\* promise: the strings do not change while a command runs under the lock.
THEOREM ConfigFixedCorrect == Spec => []ConfigFixedDuringRun
  <1>1. IndInv => ConfigFixedDuringRun BY DEF IndInv
  <1> QED BY <1>1, IndInvCorrect, PTL

\* What bd_lvm_vdo_pool_create and _convert append stays theirs.
THEOREM OverrideCorrect == Spec => []OverrideContained
  <1>1. IndInv => OverrideContained BY DEF IndInv
  <1> QED BY <1>1, IndInvCorrect, PTL

\* No interleaving of bd_lvm_set_global_config with VDO commands loses the
\* application's configuration.
THEOREM NoLostCorrect == Spec => []NoLostSetting
  <1>1. IndInv => NoLostSetting BY DEF IndInv, ConfigInv, NoLostSetting
  <1> QED BY <1>1, IndInvCorrect, PTL

\* The configuration that commands share is kept: the three theorems above.
THEOREM KeptCorrect == Spec => []ConfigKept
  <1>1. ConfigFixedDuringRun /\ OverrideContained /\ NoLostSetting => ConfigKept
    BY DEF ConfigKept
  <1> QED BY ConfigFixedCorrect, OverrideCorrect, NoLostCorrect, <1>1, PTL
=============================================================================
