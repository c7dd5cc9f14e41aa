------------------------------ MODULE LoopSetup ------------------------------
(***************************************************************************)
(* The loop plugin (src/src/plugins/loop.c) used by several threads at     *)
(* once, on the kernel's loop devices, which udev opens as it likes.       *)
(*                                                                         *)
(* The kernel is modelled as far as the plugin depends on it.  A device    *)
(* that has a backing file refuses another one.  LOOP_CLR_FD detaches the  *)
(* file at once if the caller is the only one who has the device open, and *)
(* sets the flag AUTOCLEAR otherwise; a device with that flag is detached  *)
(* when it is closed for the last time.                                    *)
(***************************************************************************)
EXTENDS Naturals, FiniteSets

CONSTANTS
    LoopUsers,
    Devices,    \* numbers of the loop devices, a set of naturals
    Offsets,    \* what the callers pass as the offset
    Tries,      \* ioctls that answer EAGAIN are tried so often
    MaxLoopCalls,   \* bound: calls of each thread
    MaxUdev,    \* bound: how often udev opens a device
    NoDev, NoCall

ASSUME LoopAssumption ==
    /\ Devices \subseteq Nat /\ IsFiniteSet(Devices)
    /\ Offsets \subseteq Nat
    /\ Tries \in Nat \ {0} /\ MaxLoopCalls \in Nat /\ MaxUdev \in Nat
    /\ NoDev \notin Devices
    /\ NoCall \notin LoopUsers \X Nat
    /\ "udev" \notin LoopUsers

VARIABLES
    bound,   \* per device: the call that attached its file, or NoCall
    autoclear, \* devices with the flag AUTOCLEAR
    offset,  \* per device: where in the file it starts
    opens,   \* per device: the threads, and udev, that have it open
    udevs,   \* how often udev has opened a device
    loop_pc,      \* where each thread is; "idle" between calls
    loop_calls,   \* calls each thread has begun
    dev,     \* the device a thread works on
    li64,    \* the status as a thread has it, and n_try
    loop_args,    \* per call: the offset it was given
    loop_result,  \* per call: how it ended
    early    \* history: the setups whose device's status somebody read, to
             \* change a flag in it, before they had said TRUE

lvars == <<bound, autoclear, offset, opens, udevs, loop_pc, loop_calls, loop_args, dev, li64,
           loop_result, early>>
loop_kernel == <<bound, autoclear, offset, opens, udevs>>

Udev == "udev"
LoopCalls == LoopUsers \X (1 .. MaxLoopCalls)
LoopCall(t) == <<t, loop_calls[t]>>
Asked(t) == loop_args[LoopCall(t)]
NoStatus == [offset |-> 0, autoclear |-> FALSE, n_try |-> 0]
LoopLabels == {"idle", "get_free", "open", "set_fd", "set_status", "set_block_size",
           "clear", "ac_get", "ac_set", "clr_fd", "close"}
LoopEnds == {"none", "set_up", "flag_set", "torn_down", "failed"}

Statuses == [offset : Nat, autoclear : BOOLEAN, n_try : 0 .. Tries]

KernelTypeOK ==
    /\ bound \in [Devices -> LoopCalls \cup {NoCall}]
    /\ autoclear \subseteq Devices
    /\ offset \in [Devices -> Nat]
    /\ opens \in [Devices -> SUBSET (LoopUsers \cup {Udev})]
    /\ udevs \in 0 .. MaxUdev

ThreadTypeOK ==
    /\ loop_pc \in [LoopUsers -> LoopLabels]
    /\ dev \in [LoopUsers -> Devices \cup {NoDev}]
    /\ li64 \in [LoopUsers -> Statuses]

CallTypeOK ==
    /\ loop_calls \in [LoopUsers -> 0 .. MaxLoopCalls]
    /\ loop_args \in [LoopCalls -> Nat]
    /\ loop_result \in [LoopCalls -> LoopEnds]
    /\ early \subseteq LoopCalls

LoopTypeOK == KernelTypeOK /\ ThreadTypeOK /\ CallTypeOK

LoopInit ==
    /\ bound = [d \in Devices |-> NoCall]
    /\ autoclear = {}
    /\ offset = [d \in Devices |-> 0]
    /\ opens = [d \in Devices |-> {}]
    /\ udevs = 0
    /\ loop_pc = [t \in LoopUsers |-> "idle"]
    /\ loop_calls = [t \in LoopUsers |-> 0]
    /\ loop_args = [c \in LoopCalls |-> 0]
    /\ dev = [t \in LoopUsers |-> NoDev]
    /\ li64 = [t \in LoopUsers |-> NoStatus]
    /\ loop_result = [c \in LoopCalls |-> "none"]
    /\ early = {}

LoopGoto(t, label) == loop_pc' = [loop_pc EXCEPT ![t] = label]

-----------------------------------------------------------------------------
(* The kernel's side of the ioctls, and of open and close.                 *)

open(who, d) == opens' = [opens EXCEPT ![d] = @ \cup {who}]

\* The last close of a device with AUTOCLEAR detaches its file.
close(who, d) ==
    LET last == opens[d] \subseteq {who} /\ d \in autoclear IN
    /\ opens' = [opens EXCEPT ![d] = @ \ {who}]
    /\ bound' = IF last THEN [bound EXCEPT ![d] = NoCall] ELSE bound
    /\ autoclear' = IF last THEN autoclear \ {d} ELSE autoclear
    /\ UNCHANGED <<offset, udevs>>

\* Fails with EBUSY on a device that has a file.
LOOP_SET_FD(t) ==
    /\ bound[dev[t]] = NoCall
    /\ bound' = [bound EXCEPT ![dev[t]] = LoopCall(t)]
    /\ offset' = [offset EXCEPT ![dev[t]] = 0]
    /\ UNCHANGED <<autoclear, opens, udevs>>

\* Fails with ENXIO on a device that has no file.
LOOP_SET_STATUS64(t) ==
    /\ bound[dev[t]] # NoCall
    /\ offset' = [offset EXCEPT ![dev[t]] = li64[t].offset]
    /\ autoclear' = IF li64[t].autoclear THEN autoclear \cup {dev[t]} ELSE autoclear \ {dev[t]}
    /\ UNCHANGED <<bound, opens, udevs>>

LOOP_CLR_FD(t) ==
    LET d == dev[t] IN
    /\ bound[d] # NoCall
    /\ IF opens[d] = {t}
       THEN bound' = [bound EXCEPT ![d] = NoCall] /\ autoclear' = autoclear \ {d}
       ELSE autoclear' = autoclear \cup {d} /\ UNCHANGED bound
    /\ UNCHANGED <<offset, opens, udevs>>

UdevOpen(d) ==
    /\ udevs < MaxUdev /\ Udev \notin opens[d]
    /\ udevs' = udevs + 1
    /\ open(Udev, d)
    /\ UNCHANGED <<bound, autoclear, offset, loop_pc, loop_calls, loop_args, dev, li64,
                   loop_result, early>>

UdevClose(d) ==
    /\ Udev \in opens[d]
    /\ close(Udev, d)
    /\ UNCHANGED <<loop_pc, loop_calls, loop_args, dev, li64, loop_result, early>>

-----------------------------------------------------------------------------
(* bd_loop_setup_from_fd.                                                  *)

\* A thread's next call, with its offset.
LoopBegin(t, o) ==
    /\ loop_pc[t] = "idle" /\ loop_calls[t] < MaxLoopCalls
    /\ loop_calls' = [loop_calls EXCEPT ![t] = @ + 1]
    /\ loop_args' = [loop_args EXCEPT ![<<t, loop_calls[t] + 1>>] = o]

\* The device is closed on the way out; the call ends as r.
Ending(t, r) ==
    /\ loop_result' = [loop_result EXCEPT ![LoopCall(t)] = r]
    /\ LoopGoto(t, "close")

SetupCall(t) ==
    /\ \E o \in Offsets : LoopBegin(t, o)
    /\ LoopGoto(t, "get_free")
    /\ UNCHANGED <<loop_kernel, dev, li64, loop_result, early>>

\* The call ends with an error before any device is open.
FailEarly(t) ==
    /\ loop_result' = [loop_result EXCEPT ![LoopCall(t)] = "failed"]
    /\ dev' = [dev EXCEPT ![t] = NoDev]
    /\ LoopGoto(t, "idle")
    /\ UNCHANGED <<loop_kernel, li64>>

\* Opening loop-control, and LOOP_CTL_GET_FREE under loop_control_lock.  It
\* names the first device without a file but does not reserve it.
GetFree(t) ==
    /\ loop_pc[t] = "get_free"
    /\ LET free == {d \in Devices : bound[d] = NoCall} IN
       \/ /\ free # {}
          /\ dev' = [dev EXCEPT ![t] = CHOOSE d \in free : \A e \in free : d <= e]
          /\ LoopGoto(t, "open")
          /\ UNCHANGED <<loop_kernel, li64, loop_result>>
       \/ FailEarly(t)
    /\ UNCHANGED <<loop_calls, loop_args, early>>

OpenFree(t) ==
    /\ loop_pc[t] = "open"
    /\ \/ /\ open(t, dev[t])
          /\ li64' = [li64 EXCEPT ![t] = [offset |-> Asked(t), autoclear |-> FALSE,
                                          n_try |-> Tries]]
          /\ LoopGoto(t, "set_fd")
          /\ UNCHANGED <<bound, autoclear, offset, udevs, dev, loop_result>>
       \/ FailEarly(t)
    /\ UNCHANGED <<loop_calls, loop_args, early>>

\* Mutant: EBUSY is not taken for a failure.
Associate_busy(t) ==
    /\ loop_pc[t] = "set_fd"
    /\ \/ LOOP_SET_FD(t)
       \/ bound[dev[t]] # NoCall /\ UNCHANGED loop_kernel
    /\ LoopGoto(t, "set_status")
    /\ UNCHANGED <<loop_calls, loop_args, dev, li64, loop_result, early>>

\* Any failure, EBUSY included, ends the call.
Associate(t) ==
    /\ loop_pc[t] = "set_fd"
    /\ \/ /\ LOOP_SET_FD(t)
          /\ LoopGoto(t, "set_status")
          /\ UNCHANGED loop_result
       \/ Ending(t, "failed") /\ UNCHANGED loop_kernel
    /\ UNCHANGED <<loop_calls, loop_args, dev, li64, early>>

\* Mutant: the last try is not noticed.
Retry_wraps(t) ==
    /\ \/ /\ li64' = [li64 EXCEPT ![t].n_try = IF @ = 1 THEN Tries ELSE @ - 1]
          /\ UNCHANGED loop_pc
       \/ LoopGoto(t, "clear") /\ UNCHANGED li64
    /\ UNCHANGED <<loop_kernel, loop_result>>

\* An ioctl that answered EAGAIN is tried again until the tries are used up;
\* any other failure ends the loop at once.
Retry(t) ==
    /\ \/ /\ li64' = [li64 EXCEPT ![t].n_try = @ - 1]
          /\ IF li64[t].n_try = 1 THEN LoopGoto(t, "clear") ELSE UNCHANGED loop_pc
       \/ LoopGoto(t, "clear") /\ UNCHANGED li64
    /\ UNCHANGED <<loop_kernel, loop_result>>

\* What follows depends on whether the caller has given a sector_size.
SetStatus(t) ==
    /\ loop_pc[t] = "set_status"
    /\ \/ /\ LOOP_SET_STATUS64(t)
          /\ li64' = [li64 EXCEPT ![t].n_try = Tries]
          /\ \/ LoopGoto(t, "set_block_size") /\ UNCHANGED loop_result
             \/ Ending(t, "set_up")
       \/ Retry(t)
    /\ UNCHANGED <<loop_calls, loop_args, dev, early>>

SetBlockSize(t) ==
    /\ loop_pc[t] = "set_block_size"
    /\ \/ /\ bound[dev[t]] # NoCall
          /\ Ending(t, "set_up")
          /\ UNCHANGED <<loop_kernel, li64>>
       \/ Retry(t)
    /\ UNCHANGED <<loop_calls, loop_args, dev, early>>

\* Mutant: the device is only closed.
Clear_kept(t) ==
    /\ loop_pc[t] = "clear"
    /\ Ending(t, "failed")
    /\ UNCHANGED <<loop_kernel, loop_calls, loop_args, dev, li64, early>>

\* A device that was associated and cannot be configured is given back; that
\* fails only for a device that has no file.
Clear(t) ==
    /\ loop_pc[t] = "clear"
    /\ LOOP_CLR_FD(t)
    /\ Ending(t, "failed")
    /\ UNCHANGED <<loop_calls, loop_args, dev, li64, early>>

Close(t) ==
    /\ loop_pc[t] = "close"
    /\ close(t, dev[t])
    /\ li64' = [li64 EXCEPT ![t] = NoStatus]
    /\ dev' = [dev EXCEPT ![t] = NoDev]
    /\ LoopGoto(t, "idle")
    /\ UNCHANGED <<loop_calls, loop_args, loop_result, early>>

-----------------------------------------------------------------------------
(* bd_loop_set_autoclear, bd_loop_teardown.                                *)

\* A call that names a device, which is opened, or the call fails there.  A
\* caller may name any device at any time: a name can be old, or come from
\* bd_loop_get_loop_name while the device is being set up.
OpenNamed(t, d, label) ==
    /\ LoopBegin(t, 0)
    /\ \/ /\ dev' = [dev EXCEPT ![t] = d]
          /\ open(t, d)
          /\ LoopGoto(t, label)
          /\ UNCHANGED loop_result
       \/ /\ loop_result' = [loop_result EXCEPT ![<<t, loop_calls[t] + 1>>] = "failed"]
          /\ UNCHANGED <<dev, loop_pc, opens>>
    /\ UNCHANGED <<bound, autoclear, offset, udevs, li64, early>>

AutoclearCall(t) == \E d \in Devices : OpenNamed(t, d, "ac_get")

\* A device whose setup has said TRUE.
Known(d) == bound[d] # NoCall /\ loop_result[bound[d]] = "set_up"

NoteRead(d) == early' = IF Known(d) THEN early ELSE early \cup {bound[d]}

\* Mutant: the flag is set in an empty status.
GetStatus_empty(t) ==
    /\ loop_pc[t] = "ac_get"
    /\ bound[dev[t]] # NoCall
    /\ \E flag \in BOOLEAN : li64' = [li64 EXCEPT ![t].autoclear = flag]
    /\ NoteRead(dev[t])
    /\ LoopGoto(t, "ac_set")
    /\ UNCHANGED <<loop_kernel, loop_calls, loop_args, dev, loop_result>>

\* LOOP_GET_STATUS64, which fails with ENXIO on a device that has no file, and
\* the flag changed in what it returned to what the caller has asked for.
GetStatus(t) ==
    LET d == dev[t] IN
    /\ loop_pc[t] = "ac_get"
    /\ \/ /\ bound[d] # NoCall
          /\ \E flag \in BOOLEAN :
               li64' = [li64 EXCEPT ![t].offset = offset[d], ![t].autoclear = flag]
          /\ NoteRead(d)
          /\ LoopGoto(t, "ac_set")
          /\ UNCHANGED loop_result
       \/ Ending(t, "failed") /\ UNCHANGED <<li64, early>>
    /\ UNCHANGED <<loop_kernel, loop_calls, loop_args, dev>>

PutStatus(t) ==
    /\ loop_pc[t] = "ac_set"
    /\ \/ LOOP_SET_STATUS64(t) /\ Ending(t, "flag_set")
       \/ Ending(t, "failed") /\ UNCHANGED loop_kernel
    /\ UNCHANGED <<loop_calls, loop_args, dev, li64, early>>

TeardownCall(t) == \E d \in Devices : OpenNamed(t, d, "clr_fd")

Detach(t) ==
    /\ loop_pc[t] = "clr_fd"
    /\ \/ LOOP_CLR_FD(t) /\ Ending(t, "torn_down")
       \/ Ending(t, "failed") /\ UNCHANGED loop_kernel
    /\ UNCHANGED <<loop_calls, loop_args, dev, li64, early>>

-----------------------------------------------------------------------------
LoopStep(t) ==
    \/ GetFree(t) \/ OpenFree(t) \/ Associate(t) \/ SetStatus(t)
    \/ SetBlockSize(t) \/ Clear(t) \/ Close(t)
    \/ GetStatus(t) \/ PutStatus(t) \/ Detach(t)

LoopNext ==
    \/ \E t \in LoopUsers : SetupCall(t) \/ AutoclearCall(t) \/ TeardownCall(t) \/ LoopStep(t)
    \/ \E d \in Devices : UdevOpen(d) \/ UdevClose(d)

LoopSpec ==
    /\ LoopInit /\ [][LoopNext]_lvars
    /\ \A t \in LoopUsers : WF_lvars(LoopStep(t))

-----------------------------------------------------------------------------
\* Where a thread is in bd_loop_setup_from_fd after LOOP_SET_FD.
Configuring(t) == loop_pc[t] \in {"set_status", "set_block_size", "clear"}

\* The device a setup is working on is its own: although GetFree reserves
\* nothing and only GetFree is under loop_control_lock, no call configures,
\* clears or returns a device that another call has attached.
OwnDevice == \A t \in LoopUsers : Configuring(t) => bound[dev[t]] = LoopCall(t)

\* A device whose setup said TRUE starts where its caller asked, whatever
\* bd_loop_set_autoclear writes back: a status that was read before the device
\* was attached is never written to it, although the device may be torn down
\* and set up again at any moment.  Only a status that was read between
\* LOOP_SET_FD and the end of that very setup can move the start.
WindowKept ==
    \A d \in Devices : Known(d) =>
        offset[d] = loop_args[bound[d]] \/ bound[d] \in early

\* A setup that failed leaves no device with its file, except one that somebody
\* else has open and that is detached when they close it, or one whose flags
\* somebody changes who did not wait for the setup to succeed.
FailureDetaches ==
    \A d \in Devices : bound[d] # NoCall /\ loop_result[bound[d]] = "failed" =>
        (d \in autoclear /\ opens[d] # {}) \/ bound[d] \in early

\* Every call returns: the ioctls that answer EAGAIN are not tried forever.
LoopCallsReturn == \A t \in LoopUsers : loop_pc[t] # "idle" ~> loop_pc[t] = "idle"

-----------------------------------------------------------------------------
(* The inductive invariant.                                                *)

\* Where a thread has a device of its own choice, and where it has it open.
HasDevice(t) == loop_pc[t] \notin {"idle", "get_free"}
HasOpen(t) == loop_pc[t] \notin {"idle", "get_free", "open"}
\* A device a thread works on stays open for it; the tries are not used up.
OpenInv ==
    \A t \in LoopUsers :
        /\ HasDevice(t) => dev[t] \in Devices
        /\ HasOpen(t) => t \in opens[dev[t]]
        /\ loop_pc[t] # "idle" => loop_calls[t] > 0
        /\ loop_pc[t] \in {"set_fd", "set_status", "set_block_size"} => li64[t].n_try > 0

\* A call has no result before it ends, and only calls that were made have one
\* or have attached a file.
CallsInv ==
    /\ \A t \in LoopUsers :
         loop_pc[t] \notin {"idle", "close"} => loop_result[LoopCall(t)] = "none"
    /\ \A c \in LoopCalls :
         c[2] > loop_calls[c[1]] =>
             loop_result[c] = "none" /\ \A d \in Devices : bound[d] # c

\* A call that has not ended has attached no device but the one it configures.
BoundInv ==
    \A t \in LoopUsers, d \in Devices :
        loop_pc[t] \notin {"idle", "close"} /\ bound[d] = LoopCall(t) =>
            Configuring(t) /\ dev[t] = d

\* A device whose status a thread has read is still attached by the setup it was
\* read of, which has succeeded unless the read was early.
NamedInv ==
    \A t \in LoopUsers : loop_pc[t] = "ac_set" =>
        bound[dev[t]] # NoCall /\ (Known(dev[t]) \/ bound[dev[t]] \in early)

\* Whoever writes a status writes the offset that the device's caller asked
\* for, unless it was read too early.
StatusInv ==
    \A t \in LoopUsers :
        /\ loop_pc[t] \in {"set_fd", "set_status"} => li64[t].offset = Asked(t)
        /\ loop_pc[t] = "set_block_size" =>
             offset[dev[t]] = Asked(t) \/ LoopCall(t) \in early
        /\ loop_pc[t] = "ac_set" =>
             li64[t].offset = loop_args[bound[dev[t]]] \/ bound[dev[t]] \in early

\* Type correctness, open devices, calls and who attached what: with the
\* properties themselves the whole is inductive.
LoopInv ==
    /\ LoopTypeOK /\ OpenInv /\ CallsInv /\ BoundInv /\ NamedInv /\ StatusInv
    /\ OwnDevice /\ WindowKept /\ FailureDetaches
=============================================================================
