----------------------------- MODULE LvmConfig -----------------------------
(***************************************************************************)
(* The global configuration of the LVM plugins: global_config_str and      *)
(* global_devices_str, which become --config and --devices of the commands *)
(* libblockdev runs, and global_config_lock, which guards them             *)
(* (src/src/plugins/lvm/lvm-common.c, lvm.c and lvm-dbus.c).               *)
(*                                                                         *)
(* A command runs with the lock held, so that the strings do not change    *)
(* under it; creating a VDO pool replaces the configuration for the time   *)
(* of one command and puts it back.  In the D-Bus plugin the method call   *)
(* takes the place of the command and may leave a job behind, which is     *)
(* waited for with the lock released, or held if the caller holds it.      *)
(*                                                                         *)
(* A configuration is what the application set and what a VDO command      *)
(* appended to it; with neither, the string is NULL and the option absent. *)
(***************************************************************************)
EXTENDS Integers

CONSTANTS
    Threads, NoThread,
    Configs,    \* configurations an application sets
    Devices,    \* devices filters an application sets
    Policies,   \* what a VDO command appends (write policy, index memory)
    Calls,      \* the calls made: see CallType
    NULL        \* the C null pointer

Ops == {"set_config", "get_config", "set_devices", "get_devices", "call", "vdo",
        "config_get", "vgcfg", "devices"}
CallType ==
    [op : Ops, config : Configs \cup {NULL}, devices : Devices \cup {NULL},
     policy : Policies \cup {NULL},
     section : BOOLEAN,         \* bd_lvm_config_get: section is not NULL
     global_config : BOOLEAN]   \* bd_lvm_config_get: global_config
NoCall ==
    [op |-> "none", config |-> NULL, devices |-> NULL, policy |-> NULL,
     section |-> FALSE, global_config |-> FALSE]

ASSUME LvmAssumption ==
    /\ NoThread \notin Threads
    /\ Calls \subseteq CallType
    /\ NULL \notin Configs \cup Devices \cup Policies
    /\ \A c \in Calls : c.op = "vdo" => c.policy # NULL

ConfigStr == [user : Configs \cup {NULL}, vdo : Policies \cup {NULL}]
Unset == [user |-> NULL, vdo |-> NULL]
ArgvType == [config : ConfigStr, devices : Devices \cup {NULL}]
NoArgs == [config |-> Unset, devices |-> NULL]

VARIABLES
    backend,    \* which of the two plugins is loaded
    reentrant,  \* whether the progress and log callbacks use the configuration
    config,     \* global_config_str
    devices,    \* global_devices_str
    lock,       \* holder of global_config_lock
    pc, call,   \* of each thread
    back,       \* where a callback returns to
    old,        \* old_config
    argv,       \* --config and --devices of the thread's command
    answer,     \* what the last getter returned
    wanted      \* history: the configuration last set by the application

vars == <<backend, reentrant, config, devices, lock, pc, call, back, old, argv,
          answer, wanted>>
static == <<backend, reentrant>>

PCs == {"idle", "deps", "lock", "vdodeps", "run", "job", "exec", "default",
        "callback"}
Running == {"run", "job", "exec", "default"}

TypeOK ==
    /\ backend \in {"cli", "dbus"} /\ reentrant \in BOOLEAN
    /\ config \in ConfigStr /\ wanted \in ConfigStr
    /\ devices \in Devices \cup {NULL}
    /\ lock \in Threads \cup {NoThread}
    /\ pc \in [Threads -> PCs]
    /\ call \in [Threads -> Calls \cup {NoCall}]
    /\ back \in [Threads -> Running]
    /\ old \in [Threads -> ConfigStr]
    /\ argv \in [Threads -> ArgvType]
    /\ answer \in [Threads -> ArgvType]

Init ==
    /\ backend \in {"cli", "dbus"} /\ reentrant \in BOOLEAN
    /\ config = Unset /\ wanted = Unset
    /\ devices = NULL
    /\ lock = NoThread
    /\ pc = [t \in Threads |-> "idle"]
    /\ call = [t \in Threads |-> NoCall]
    /\ back = [t \in Threads |-> "run"]
    /\ old = [t \in Threads |-> Unset]
    /\ argv = [t \in Threads |-> NoArgs]
    /\ answer = [t \in Threads |-> NoArgs]

Goto(t, label) == pc' = [pc EXCEPT ![t] = label]
Done(t) == Goto(t, "idle") /\ call' = [call EXCEPT ![t] = NoCall]
Op(t) == call[t].op

-----------------------------------------------------------------------------
\* A call that is not refused for its arguments (an unknown write policy, a
\* setting without a section).  Some look for their tools before they lock.
Call(t) ==
    /\ pc[t] = "idle"
    /\ \E c \in Calls :
        /\ call' = [call EXCEPT ![t] = c]
        /\ Goto(t, IF c.op \in {"set_devices", "call", "devices"} THEN "deps" ELSE "lock")
    /\ answer' = [answer EXCEPT ![t] = NoArgs]
    /\ UNCHANGED <<config, devices, lock, back, old, argv, wanted>> /\ UNCHANGED static

\* check_deps, check_dbus_deps, and the search for the object of a method.
Deps(t) ==
    /\ pc[t] = "deps"
    /\ (Goto(t, "lock") /\ UNCHANGED call) \/ Done(t)
    /\ UNCHANGED <<config, devices, lock, back, old, argv, answer, wanted>>
    /\ UNCHANGED static

TakesLock(t, o) == pc[t] = "lock" /\ lock = NoThread /\ Op(t) = o

\* Lock, free, store, unlock.
SetGlobalConfig(t) ==
    /\ TakesLock(t, "set_config")
    /\ config' = [user |-> call[t].config, vdo |-> NULL]
    /\ wanted' = [user |-> call[t].config, vdo |-> NULL]
    /\ Done(t)
    /\ UNCHANGED <<devices, lock, back, old, argv, answer>> /\ UNCHANGED static

GetGlobalConfig(t) ==
    /\ TakesLock(t, "get_config")
    /\ answer' = [answer EXCEPT ![t].config = config]
    /\ Done(t)
    /\ UNCHANGED <<config, devices, lock, back, old, argv, wanted>>
    /\ UNCHANGED static

SetDevicesFilter(t) ==
    /\ TakesLock(t, "set_devices")
    /\ devices' = call[t].devices
    /\ Done(t)
    /\ UNCHANGED <<config, lock, back, old, argv, answer, wanted>>
    /\ UNCHANGED static

GetDevicesFilter(t) ==
    /\ TakesLock(t, "get_devices")
    /\ answer' = [answer EXCEPT ![t].devices = devices]
    /\ Done(t)
    /\ UNCHANGED <<config, devices, lock, back, old, argv, wanted>>
    /\ UNCHANGED static

\* call_lvm_and_report_error and its two brothers, or call_lvm_method, with
\* lock_config: lock, add the options, start the command.
CallLvm(t) ==
    /\ TakesLock(t, "call")
    /\ lock' = t
    /\ argv' = [argv EXCEPT ![t] = [config |-> config, devices |-> devices]]
    /\ Goto(t, "run")
    /\ UNCHANGED <<config, devices, call, back, old, answer, wanted>>
    /\ UNCHANGED static

\* bd_lvm_vdo_pool_create and bd_lvm_vdo_pool_convert: lock and override.
VdoOverride(t) ==
    /\ TakesLock(t, "vdo")
    /\ lock' = t
    /\ old' = [old EXCEPT ![t] = config]
    /\ config' = [config EXCEPT !.vdo = call[t].policy]
    /\ Goto(t, "vdodeps")
    /\ UNCHANGED <<devices, call, back, argv, answer, wanted>> /\ UNCHANGED static

\* The same function without lock_config, called with the lock held.
VdoCall(t) ==
    /\ pc[t] = "vdodeps"
    /\ argv' = [argv EXCEPT ![t] = [config |-> config, devices |-> devices]]
    /\ Goto(t, "run")
    /\ UNCHANGED <<config, devices, lock, call, back, old, answer, wanted>>
    /\ UNCHANGED static

\* Its dependencies are missing: the configuration is put back all the same.
VdoDepsFail(t) ==
    /\ pc[t] = "vdodeps"
    /\ config' = old[t]
    /\ lock' = NoThread
    /\ old' = [old EXCEPT ![t] = Unset]
    /\ Done(t)
    /\ UNCHANGED <<devices, back, argv, answer, wanted>>
    /\ UNCHANGED static

\* The command is over: restore, unlock and return.
Return(t) ==
    /\ config' = IF Op(t) = "vdo" THEN old[t] ELSE config
    /\ lock' = IF lock = t THEN NoThread ELSE lock
    /\ argv' = [argv EXCEPT ![t] = NoArgs]
    /\ old' = [old EXCEPT ![t] = Unset]
    /\ Done(t)

\* Mutant: the lock is given up while the job runs, whoever took it.
Unlocks_always(t) == TRUE

\* Whether the end of the method call gives up the lock (lock_config).
Unlocks(t) == Op(t) = "call"

\* The command or method call ends, with or without success; lvmdbusd may
\* answer with the path of a job.
CommandEnds(t) ==
    /\ pc[t] = "run" /\ Op(t) \in {"call", "vdo"}
    /\ \/ Return(t)
       \/ /\ backend = "dbus"
          /\ lock' = IF Unlocks(t) THEN NoThread ELSE lock
          /\ Goto(t, "job")
          /\ UNCHANGED <<config, call, old, argv>>
    /\ UNCHANGED <<devices, back, answer, wanted>> /\ UNCHANGED static

JobEnds(t) ==
    /\ pc[t] = "job"
    /\ Return(t)
    /\ UNCHANGED <<devices, back, answer, wanted>> /\ UNCHANGED static

\* bd_lvm_config_get copies the string under the lock and runs lvmconfig after
\* it.  Without a section the NULL specification stays in the argument vector
\* and ends it before what is added behind.
ConfigGet(t) ==
    /\ TakesLock(t, "config_get")
    /\ argv' = [argv EXCEPT ![t] =
                    IF call[t].global_config /\ call[t].section
                      THEN [config |-> config, devices |-> NULL] ELSE NoArgs]
    /\ Goto(t, "exec")
    /\ UNCHANGED <<config, devices, lock, call, back, old, answer, wanted>>
    /\ UNCHANGED static

\* _vgcfgbackup_restore: the same, always with the configuration.
VgCfg(t) ==
    /\ TakesLock(t, "vgcfg")
    /\ argv' = [argv EXCEPT ![t] = [config |-> config, devices |-> NULL]]
    /\ Goto(t, "exec")
    /\ UNCHANGED <<config, devices, lock, call, back, old, answer, wanted>>
    /\ UNCHANGED static

\* _lvm_devices_enabled: lvmconfig --typeconfig full, under the lock.
DevicesFull(t) ==
    /\ TakesLock(t, "devices")
    /\ lock' = t
    /\ argv' = [argv EXCEPT ![t] = [config |-> config, devices |-> NULL]]
    /\ Goto(t, "run")
    /\ UNCHANGED <<config, devices, call, back, old, answer, wanted>>
    /\ UNCHANGED static

\* Mutant: a failure of the first command is followed up with the lock held.
DevicesFullEnds_locked(t) ==
    /\ pc[t] = "run" /\ Op(t) = "devices"
    /\ \/ Goto(t, "default") /\ UNCHANGED <<call, argv, lock>>
       \/ /\ Goto(t, "exec") /\ UNCHANGED call /\ lock' = NoThread
          /\ argv' = [argv EXCEPT ![t] = NoArgs]
       \/ Done(t) /\ lock' = NoThread /\ argv' = [argv EXCEPT ![t] = NoArgs]
    /\ UNCHANGED <<config, devices, back, old, answer, wanted>> /\ UNCHANGED static

\* It is answered yes (lvmdevices runs, with no configuration), no, or fails
\* (lvmconfig --typeconfig default runs, with the same arguments).
DevicesFullEnds(t) ==
    /\ pc[t] = "run" /\ Op(t) = "devices"
    /\ lock' = NoThread
    /\ \/ Goto(t, "default") /\ UNCHANGED <<call, argv>>
       \/ Goto(t, "exec") /\ UNCHANGED call /\ argv' = [argv EXCEPT ![t] = NoArgs]
       \/ Done(t) /\ argv' = [argv EXCEPT ![t] = NoArgs]
    /\ UNCHANGED <<config, devices, back, old, answer, wanted>> /\ UNCHANGED static

DevicesDefaultEnds(t) ==
    /\ pc[t] = "default"
    /\ (Goto(t, "exec") /\ UNCHANGED call) \/ Done(t)
    /\ argv' = [argv EXCEPT ![t] = NoArgs]
    /\ UNCHANGED <<config, devices, lock, back, old, answer, wanted>>
    /\ UNCHANGED static

ExecEnds(t) ==
    /\ pc[t] = "exec"
    /\ Done(t)
    /\ argv' = [argv EXCEPT ![t] = NoArgs]
    /\ UNCHANGED <<config, devices, lock, back, old, answer, wanted>>
    /\ UNCHANGED static

\* Progress and log functions are called by the thread that runs the command;
\* one that asks for the configuration waits for the lock.
Callback(t) ==
    /\ reentrant /\ pc[t] \in Running
    /\ back' = [back EXCEPT ![t] = pc[t]]
    /\ Goto(t, "callback")
    /\ UNCHANGED <<config, devices, lock, call, old, argv, answer, wanted>>
    /\ UNCHANGED static

CallbackGets(t) ==
    /\ pc[t] = "callback" /\ lock = NoThread
    /\ Goto(t, back[t])
    /\ back' = [back EXCEPT ![t] = "run"]
    /\ UNCHANGED <<config, devices, lock, call, old, argv, answer, wanted>>
    /\ UNCHANGED static

-----------------------------------------------------------------------------
Locks(t) ==
    \/ SetGlobalConfig(t) \/ GetGlobalConfig(t)
    \/ SetDevicesFilter(t) \/ GetDevicesFilter(t)
    \/ CallLvm(t) \/ VdoOverride(t) \/ ConfigGet(t) \/ VgCfg(t) \/ DevicesFull(t)
Ends(t) ==
    CommandEnds(t) \/ JobEnds(t) \/ DevicesFullEnds(t) \/ DevicesDefaultEnds(t)
      \/ ExecEnds(t)
Step(t) ==
    Call(t) \/ Deps(t) \/ Locks(t) \/ VdoCall(t) \/ VdoDepsFail(t) \/ Ends(t)
      \/ Callback(t) \/ CallbackGets(t)
Next == \E t \in Threads : Step(t)
Spec == Init /\ [][Next]_vars

\* The mutex is not starved; a command or job ends after finitely many
\* callbacks.  New calls are optional.
FairSpec ==
    /\ Spec
    /\ \A t \in Threads :
        /\ WF_vars(Deps(t) \/ VdoCall(t) \/ VdoDepsFail(t))
        /\ SF_vars(Locks(t)) /\ SF_vars(CallbackGets(t)) /\ SF_vars(Ends(t))

-----------------------------------------------------------------------------
\* Where a thread is, looking through its callback.
At(t) == IF pc[t] = "callback" THEN back[t] ELSE pc[t]
Holds(t) == At(t) \in {"vdodeps", "run"} \/ (At(t) = "job" /\ Op(t) = "vdo")

\* "don't allow global config string changes during the run": the options of a
\* command that runs under the lock are the current ones to its end.
ConfigFixedDuringRun ==
    \A t \in Threads : At(t) = "run" =>
        /\ argv[t].config = config
        /\ Op(t) # "devices" => argv[t].devices = devices

\* What a VDO command appends is seen by that command alone: by no command of
\* another thread, no job, no getter.
OverrideContained ==
    \A t \in Threads :
        /\ argv[t].config.vdo # NULL => Op(t) = "vdo"
        /\ answer[t].config.vdo = NULL

\* Whenever the lock is free the configuration is the one the application set
\* last: no VDO command on any of its paths loses it or undoes a later one.
NoLostSetting == lock = NoThread => config = wanted

\* The global configuration that commands share stays what the application has
\* set: for the time of a command, for everybody but the VDO command that adds
\* to it, and whenever the lock is free.
ConfigKept == ConfigFixedDuringRun /\ OverrideContained /\ NoLostSetting

\* A callback waits for the lock its own thread holds.
SelfDeadlock(t) == pc[t] = "callback" /\ lock = t

\* Every call returns, unless a callback asks for the configuration while the
\* thread that called it runs a command.
CallsReturn ==
    \A t \in Threads :
        pc[t] # "idle" ~> pc[t] = "idle" \/ \E u \in Threads : SelfDeadlock(u)

\* "@global_config: whether to include our internal global config in the call
\* or not": the lvmconfig that bd_lvm_config_get starts includes it if asked.
ConfigGetStep ==
    \A t \in Threads :
        Op(t) = "config_get" /\ call[t].global_config /\ pc[t] = "lock" /\ pc'[t] = "exec" =>
            argv'[t].config = config
ConfigGetIncludesConfig == [][ConfigGetStep]_vars

-----------------------------------------------------------------------------
\* The inductive invariant.
LockInv ==
    \A t \in Threads :
        /\ Holds(t) <=> lock = t
        /\ pc[t] = "callback" => back[t] \in Running
        /\ At(t) = "vdodeps" => Op(t) = "vdo"
        /\ At(t) = "run" => Op(t) \in {"call", "vdo", "devices"}
        /\ At(t) = "job" => Op(t) \in {"call", "vdo"}
ConfigInv ==
    /\ wanted.vdo = NULL
    /\ \A t \in Threads : Holds(t) /\ Op(t) = "vdo" => old[t] = wanted
    /\ (lock = NoThread \/ Op(lock) # "vdo") => config = wanted
ArgvInv ==
    \A t \in Threads : At(t) \in {"idle", "deps", "lock", "vdodeps"} => argv[t] = NoArgs
IndInv ==
    TypeOK /\ LockInv /\ ConfigInv /\ ArgvInv
      /\ ConfigFixedDuringRun /\ OverrideContained
=============================================================================
