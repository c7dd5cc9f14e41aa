--------------------------- MODULE LoopSetupProofs ---------------------------
(***************************************************************************)
(* LoopInv is an invariant of the loop plugin for any number of threads,   *)
(* devices and calls, and of openings by udev.                             *)
(***************************************************************************)
EXTENDS LoopSetup, TLAPS, WellFoundedInduction

\* LOOP_CTL_GET_FREE has a device to name: there is a first one.
LEMMA FirstDevice ==
    ASSUME NEW S, S \subseteq Devices, S # {}
    PROVE  (CHOOSE d \in S : \A e \in S : d <= e) \in S
<1>1. \E d \in S : \A e \in S : ~(<<e, d>> \in OpToRel(<, Nat))
  BY LoopAssumption, NatLessThanWellFounded, WFMin
<1>2. PICK d \in S : \A e \in S : ~(<<e, d>> \in OpToRel(<, Nat))
  BY <1>1
<1>3. ASSUME NEW e \in S PROVE d <= e
  <2>1. d \in Nat /\ e \in Nat
    BY LoopAssumption
  <2>2. e < d => <<e, d>> \in OpToRel(<, Nat)
    BY <2>1 DEF OpToRel
  <2>3. ~(e < d)
    BY <1>2, <2>2
  <2> QED
    BY <2>1, <2>3
<1> QED
  BY <1>3

LEMMA CallMade ==
    ASSUME LoopInv, NEW t \in LoopUsers, loop_pc[t] # "idle"
    PROVE  LoopCall(t) \in LoopCalls
BY LoopAssumption DEF LoopInv, LoopTypeOK, CallTypeOK, OpenInv, LoopCall, LoopCalls

LEMMA NextCall ==
    ASSUME LoopInv, NEW t \in LoopUsers, loop_calls[t] < MaxLoopCalls
    PROVE  /\ <<t, loop_calls[t] + 1>> \in LoopCalls
           /\ [loop_calls EXCEPT ![t] = @ + 1] \in [LoopUsers -> 0 .. MaxLoopCalls]
BY LoopAssumption DEF LoopInv, LoopTypeOK, CallTypeOK, LoopCalls

LEMMA KernelTypeStep == LoopInv /\ [LoopNext]_lvars => KernelTypeOK'
<1> SUFFICES ASSUME LoopInv, [LoopNext]_lvars PROVE KernelTypeOK'
  OBVIOUS
<1> USE LoopAssumption DEF LoopInv, LoopTypeOK, KernelTypeOK, ThreadTypeOK, OpenInv, HasDevice,
    Statuses, Udev, loop_kernel
<1>1. ASSUME NEW t \in LoopUsers, SetupCall(t) PROVE KernelTypeOK'
  BY <1>1 DEF SetupCall, LoopBegin, loop_kernel
<1>2. ASSUME NEW t \in LoopUsers, AutoclearCall(t) PROVE KernelTypeOK'
  BY <1>2 DEF AutoclearCall, OpenNamed, LoopBegin, open
<1>3. ASSUME NEW t \in LoopUsers, TeardownCall(t) PROVE KernelTypeOK'
  BY <1>3 DEF TeardownCall, OpenNamed, LoopBegin, open
<1>4. ASSUME NEW t \in LoopUsers, GetFree(t) PROVE KernelTypeOK'
  BY <1>4 DEF GetFree, FailEarly, loop_kernel
<1>5. ASSUME NEW t \in LoopUsers, OpenFree(t) PROVE KernelTypeOK'
  <2>1. t \in LoopUsers \cup {Udev} /\ UNCHANGED <<bound, autoclear, offset, udevs>>
    BY <1>5 DEF OpenFree, FailEarly
  <2>2. opens' \in {opens, [opens EXCEPT ![dev[t]] = @ \cup {t}]}
    BY <1>5 DEF OpenFree, FailEarly, open
  <2> QED
    BY <2>1, <2>2
<1>6. ASSUME NEW t \in LoopUsers, Associate(t) PROVE KernelTypeOK'
  <2>1. LoopCall(t) \in LoopCalls /\ dev[t] \in Devices
    BY <1>6, CallMade DEF Associate
  <2>2. /\ bound' \in {bound, [bound EXCEPT ![dev[t]] = LoopCall(t)]}
        /\ offset' \in {offset, [offset EXCEPT ![dev[t]] = 0]}
        /\ UNCHANGED <<autoclear, opens, udevs>>
    BY <1>6 DEF Associate, LOOP_SET_FD, loop_kernel
  <2> QED
    BY <2>1, <2>2
<1>7. ASSUME NEW t \in LoopUsers, SetStatus(t) PROVE KernelTypeOK'
  BY <1>7 DEF SetStatus, Ending, Retry, LOOP_SET_STATUS64, loop_kernel
<1>8. ASSUME NEW t \in LoopUsers, SetBlockSize(t) PROVE KernelTypeOK'
  BY <1>8 DEF SetBlockSize, Ending, Retry, loop_kernel
<1>9. ASSUME NEW t \in LoopUsers, Clear(t) PROVE KernelTypeOK'
  <2>1. UNCHANGED <<offset, opens, udevs>>
    BY <1>9 DEF Clear, Ending, LOOP_CLR_FD
  <2>2. dev[t] \in Devices
    BY <1>9 DEF Clear
  <2>3. bound' \in {bound, [bound EXCEPT ![dev[t]] = NoCall]}
    BY <1>9 DEF Clear, Ending, LOOP_CLR_FD
  <2>4. autoclear' \in {autoclear, autoclear \ {dev[t]}, autoclear \cup {dev[t]}}
    BY <1>9 DEF Clear, Ending, LOOP_CLR_FD
  <2> QED
    BY <2>1, <2>2, <2>3, <2>4
<1>10. ASSUME NEW t \in LoopUsers, Close(t) PROVE KernelTypeOK'
  BY <1>10 DEF Close, close
<1>11. ASSUME NEW t \in LoopUsers, GetStatus(t) PROVE KernelTypeOK'
  BY <1>11 DEF GetStatus, Ending, loop_kernel
<1>12. ASSUME NEW t \in LoopUsers, PutStatus(t) PROVE KernelTypeOK'
  <2>1. UNCHANGED <<bound, opens, udevs>>
    BY <1>12 DEF PutStatus, LOOP_SET_STATUS64, loop_kernel
  <2>2. dev[t] \in Devices
    BY <1>12 DEF PutStatus
  <2>3. li64[t].offset \in Nat
    BY DEF Statuses
  <2>4. offset' \in {offset, [offset EXCEPT ![dev[t]] = li64[t].offset]}
    BY <1>12 DEF PutStatus, LOOP_SET_STATUS64, loop_kernel
  <2>5. autoclear' \in {autoclear, autoclear \ {dev[t]}, autoclear \cup {dev[t]}}
    BY <1>12 DEF PutStatus, LOOP_SET_STATUS64, loop_kernel
  <2>6. offset' \in [Devices -> Nat]
    BY <2>2, <2>3, <2>4
  <2> QED
    BY <2>1, <2>2, <2>5, <2>6
<1>13. ASSUME NEW t \in LoopUsers, Detach(t) PROVE KernelTypeOK'
  <2>1. UNCHANGED <<offset, opens, udevs>>
    BY <1>13 DEF Detach, Ending, LOOP_CLR_FD, loop_kernel
  <2>2. dev[t] \in Devices
    BY <1>13 DEF Detach
  <2>3. bound' \in {bound, [bound EXCEPT ![dev[t]] = NoCall]}
    BY <1>13 DEF Detach, Ending, LOOP_CLR_FD, loop_kernel
  <2>4. autoclear' \in {autoclear, autoclear \ {dev[t]}, autoclear \cup {dev[t]}}
    BY <1>13 DEF Detach, Ending, LOOP_CLR_FD, loop_kernel
  <2> QED
    BY <2>1, <2>2, <2>3, <2>4
<1>14. ASSUME NEW d \in Devices, UdevOpen(d) PROVE KernelTypeOK'
  BY <1>14 DEF UdevOpen, open
<1>15. ASSUME NEW d \in Devices, UdevClose(d) PROVE KernelTypeOK'
  BY <1>15 DEF UdevClose, close
<1>16. CASE UNCHANGED lvars BY <1>16 DEF lvars
<1> QED
  BY <1>1, <1>2, <1>3, <1>4, <1>5, <1>6, <1>7, <1>8,
     <1>9, <1>10, <1>11, <1>12, <1>13, <1>14, <1>15, <1>16
  DEF LoopNext, LoopStep

\* A retry uses one try up and goes on until there is none.
LEMMA RetryTypes ==
    ASSUME LoopInv, NEW t \in LoopUsers, loop_pc[t] \in {"set_status", "set_block_size"}, Retry(t)
    PROVE  /\ li64' \in [LoopUsers -> Statuses]
           /\ loop_pc' \in [LoopUsers -> LoopLabels]
<1> USE DEF LoopInv, LoopTypeOK, ThreadTypeOK, OpenInv, Retry, LoopGoto
<1>1. loop_pc' \in [LoopUsers -> LoopLabels]
  BY DEF LoopLabels
<1>2. li64[t].n_try - 1 \in 0 .. Tries
  BY LoopAssumption DEF Statuses
<1>3. [li64 EXCEPT ![t].n_try = @ - 1] \in [LoopUsers -> Statuses]
  BY <1>2 DEF Statuses
<1> QED
  BY <1>1, <1>3

LEMMA ThreadTypeStep == LoopInv /\ [LoopNext]_lvars => ThreadTypeOK'
<1> SUFFICES ASSUME LoopInv, [LoopNext]_lvars PROVE ThreadTypeOK'
  OBVIOUS
<1> USE LoopAssumption DEF LoopInv, LoopTypeOK, ThreadTypeOK, KernelTypeOK, OpenInv, LoopLabels, LoopGoto
<1>1. ASSUME NEW t \in LoopUsers, SetupCall(t) PROVE ThreadTypeOK'
  BY <1>1 DEF SetupCall, LoopBegin, loop_kernel
<1>2. ASSUME NEW t \in LoopUsers, AutoclearCall(t) PROVE ThreadTypeOK'
  BY <1>2 DEF AutoclearCall, OpenNamed, LoopBegin, open
<1>3. ASSUME NEW t \in LoopUsers, TeardownCall(t) PROVE ThreadTypeOK'
  BY <1>3 DEF TeardownCall, OpenNamed, LoopBegin, open
<1>4. ASSUME NEW t \in LoopUsers, GetFree(t) PROVE ThreadTypeOK'
  <2>1. CASE FailEarly(t)
    BY <1>4, <2>1 DEF GetFree, FailEarly
  <2>2. CASE ~FailEarly(t)
    <3> DEFINE free == {d \in Devices : bound[d] = NoCall}
    <3>1. free # {} /\ dev' = [dev EXCEPT ![t] = CHOOSE d \in free : \A e \in free : d <= e]
      BY <1>4, <2>2 DEF GetFree
    <3>2. (CHOOSE d \in free : \A e \in free : d <= e) \in Devices
      BY <3>1, FirstDevice
    <3> HIDE DEF free
    <3>3. dev' \in [LoopUsers -> Devices \cup {NoDev}]
      BY <3>1, <3>2
    <3> QED
      BY <1>4, <2>2, <3>3 DEF GetFree
  <2> QED
    BY <2>1, <2>2
<1>5. ASSUME NEW t \in LoopUsers, OpenFree(t) PROVE ThreadTypeOK'
  <2>1. Asked(t) \in Nat
    BY <1>5, CallMade DEF OpenFree, Asked, CallTypeOK
  <2>2. [offset |-> Asked(t), autoclear |-> FALSE, n_try |-> Tries] \in Statuses
    BY <2>1 DEF Statuses
  <2> DEFINE asked == [offset |-> Asked(t), autoclear |-> FALSE, n_try |-> Tries]
  <2>3. li64' \in {li64, [li64 EXCEPT ![t] = asked]}
    BY <1>5 DEF OpenFree, FailEarly
  <2>4. asked \in Statuses
    BY <2>2
  <2> HIDE DEF asked
  <2>5. li64' \in [LoopUsers -> Statuses]
    BY <2>3, <2>4
  <2> QED
    BY <1>5, <2>5 DEF OpenFree, FailEarly
<1>6. ASSUME NEW t \in LoopUsers, Associate(t) PROVE ThreadTypeOK'
  BY <1>6 DEF Associate, Ending, LOOP_SET_FD, loop_kernel
<1>7. ASSUME NEW t \in LoopUsers, SetStatus(t) PROVE ThreadTypeOK'
  <2>1. CASE Retry(t)
    BY <1>7, <2>1, RetryTypes DEF SetStatus
  <2>2. CASE ~Retry(t)
    <3>1. li64' \in [LoopUsers -> Statuses]
      BY <1>7, <2>2 DEF SetStatus, Statuses
    <3> QED
      BY <1>7, <2>2, <3>1 DEF SetStatus, Ending
  <2> QED
    BY <2>1, <2>2
<1>8. ASSUME NEW t \in LoopUsers, SetBlockSize(t) PROVE ThreadTypeOK'
  <2>1. CASE Retry(t)
    BY <1>8, <2>1, RetryTypes DEF SetBlockSize
  <2>2. CASE ~Retry(t)
    <3>1. li64' \in [LoopUsers -> Statuses]
      BY <1>8, <2>2 DEF SetBlockSize, Statuses
    <3> QED
      BY <1>8, <2>2, <3>1 DEF SetBlockSize, Ending
  <2> QED
    BY <2>1, <2>2
<1>9. ASSUME NEW t \in LoopUsers, Clear(t) PROVE ThreadTypeOK'
  BY <1>9 DEF Clear, Ending, LOOP_CLR_FD
<1>10. ASSUME NEW t \in LoopUsers, Close(t) PROVE ThreadTypeOK'
  <2>1. NoStatus \in Statuses
    BY DEF NoStatus, Statuses
  <2> QED
    BY <1>10, <2>1 DEF Close
<1>11. ASSUME NEW t \in LoopUsers, GetStatus(t) PROVE ThreadTypeOK'
  <2>1. offset[dev[t]] \in Nat
    BY <1>11 DEF GetStatus, HasDevice
  <2>2. li64' \in [LoopUsers -> Statuses]
    BY <1>11, <2>1 DEF GetStatus, Statuses
  <2> QED
    BY <1>11, <2>2 DEF GetStatus, Ending
<1>12. ASSUME NEW t \in LoopUsers, PutStatus(t) PROVE ThreadTypeOK'
  BY <1>12 DEF PutStatus, Ending, LOOP_SET_STATUS64, loop_kernel
<1>13. ASSUME NEW t \in LoopUsers, Detach(t) PROVE ThreadTypeOK'
  BY <1>13 DEF Detach, Ending, LOOP_CLR_FD, loop_kernel
<1>14. ASSUME NEW d \in Devices, UdevOpen(d) PROVE ThreadTypeOK'
  BY <1>14 DEF UdevOpen, open
<1>15. ASSUME NEW d \in Devices, UdevClose(d) PROVE ThreadTypeOK'
  BY <1>15 DEF UdevClose, close
<1>16. CASE UNCHANGED lvars BY <1>16 DEF lvars
<1> QED
  BY <1>1, <1>2, <1>3, <1>4, <1>5, <1>6, <1>7, <1>8,
     <1>9, <1>10, <1>11, <1>12, <1>13, <1>14, <1>15, <1>16
  DEF LoopNext, LoopStep

LEMMA BeginTypes ==
    ASSUME LoopInv, NEW t \in LoopUsers, NEW o \in Nat, LoopBegin(t, o)
    PROVE  /\ loop_calls' \in [LoopUsers -> 0 .. MaxLoopCalls]
           /\ loop_args' \in [LoopCalls -> Nat]
           /\ <<t, loop_calls[t] + 1>> \in LoopCalls
BY NextCall DEF LoopInv, LoopTypeOK, CallTypeOK, LoopBegin

LEMMA CallTypeStep == LoopInv /\ [LoopNext]_lvars => CallTypeOK'
<1> SUFFICES ASSUME LoopInv, [LoopNext]_lvars PROVE CallTypeOK'
  OBVIOUS
<1> USE LoopAssumption DEF LoopInv, LoopTypeOK, KernelTypeOK, CallTypeOK, LoopEnds
<1>1. ASSUME NEW t \in LoopUsers, SetupCall(t) PROVE CallTypeOK'
  <2>1. PICK o \in Offsets : LoopBegin(t, o)
    BY <1>1 DEF SetupCall
  <2>2. loop_calls' \in [LoopUsers -> 0 .. MaxLoopCalls] /\ loop_args' \in [LoopCalls -> Nat]
    BY <2>1, BeginTypes
  <2> QED
    BY <1>1, <2>2 DEF SetupCall
<1>2. ASSUME NEW t \in LoopUsers, AutoclearCall(t) PROVE CallTypeOK'
  <2>1. PICK d \in Devices : OpenNamed(t, d, "ac_get")
    BY <1>2 DEF AutoclearCall
  <2>2. /\ loop_calls' \in [LoopUsers -> 0 .. MaxLoopCalls] /\ loop_args' \in [LoopCalls -> Nat]
        /\ <<t, loop_calls[t] + 1>> \in LoopCalls
    BY <2>1, BeginTypes DEF OpenNamed
  <2> QED
    BY <2>1, <2>2 DEF OpenNamed
<1>3. ASSUME NEW t \in LoopUsers, TeardownCall(t) PROVE CallTypeOK'
  <2>1. PICK d \in Devices : OpenNamed(t, d, "clr_fd")
    BY <1>3 DEF TeardownCall
  <2>2. /\ loop_calls' \in [LoopUsers -> 0 .. MaxLoopCalls] /\ loop_args' \in [LoopCalls -> Nat]
        /\ <<t, loop_calls[t] + 1>> \in LoopCalls
    BY <2>1, BeginTypes DEF OpenNamed
  <2> QED
    BY <2>1, <2>2 DEF OpenNamed
<1>4. ASSUME NEW t \in LoopUsers, GetFree(t) PROVE CallTypeOK'
  BY <1>4, CallMade DEF GetFree, FailEarly, loop_kernel
<1>5. ASSUME NEW t \in LoopUsers, OpenFree(t) PROVE CallTypeOK'
  BY <1>5, CallMade DEF OpenFree, FailEarly, open, loop_kernel
<1>6. ASSUME NEW t \in LoopUsers, Associate(t) PROVE CallTypeOK'
  BY <1>6, CallMade DEF Associate, Ending, LOOP_SET_FD, loop_kernel
<1>7. ASSUME NEW t \in LoopUsers, SetStatus(t) PROVE CallTypeOK'
  BY <1>7, CallMade DEF SetStatus, Ending, Retry, LOOP_SET_STATUS64, loop_kernel
<1>8. ASSUME NEW t \in LoopUsers, SetBlockSize(t) PROVE CallTypeOK'
  BY <1>8, CallMade DEF SetBlockSize, Ending, Retry, loop_kernel
<1>9. ASSUME NEW t \in LoopUsers, Clear(t) PROVE CallTypeOK'
  BY <1>9, CallMade DEF Clear, Ending, LOOP_CLR_FD
<1>10. ASSUME NEW t \in LoopUsers, Close(t) PROVE CallTypeOK'
  BY <1>10, CallMade DEF Close, close
<1>11. ASSUME NEW t \in LoopUsers, GetStatus(t) PROVE CallTypeOK'
  <2>1. dev[t] \in Devices
    BY <1>11 DEF GetStatus, OpenInv, HasDevice
  <2>2. early' \subseteq LoopCalls
    BY <1>11, <2>1 DEF GetStatus, NoteRead
  <2> QED
    BY <1>11, <2>2, CallMade DEF GetStatus, Ending
<1>12. ASSUME NEW t \in LoopUsers, PutStatus(t) PROVE CallTypeOK'
  BY <1>12, CallMade DEF PutStatus, Ending, LOOP_SET_STATUS64, loop_kernel
<1>13. ASSUME NEW t \in LoopUsers, Detach(t) PROVE CallTypeOK'
  BY <1>13, CallMade DEF Detach, Ending, LOOP_CLR_FD, loop_kernel
<1>14. ASSUME NEW d \in Devices, UdevOpen(d) PROVE CallTypeOK'
  BY <1>14 DEF UdevOpen, open
<1>15. ASSUME NEW d \in Devices, UdevClose(d) PROVE CallTypeOK'
  BY <1>15 DEF UdevClose, close
<1>16. CASE UNCHANGED lvars BY <1>16 DEF lvars
<1> QED
  BY <1>1, <1>2, <1>3, <1>4, <1>5, <1>6, <1>7, <1>8,
     <1>9, <1>10, <1>11, <1>12, <1>13, <1>14, <1>15, <1>16
  DEF LoopNext, LoopStep

LEMMA LoopTypeStep == LoopInv /\ [LoopNext]_lvars => LoopTypeOK'
BY KernelTypeStep, ThreadTypeStep, CallTypeStep DEF LoopTypeOK

\* What GetFree does, without the choice it makes.
LEMMA FreeNamed ==
    ASSUME LoopInv, NEW t \in LoopUsers, GetFree(t)
    PROVE  /\ loop_pc[t] = "get_free" /\ UNCHANGED <<loop_kernel, li64, loop_calls, loop_args, early>>
           /\ \/ /\ \E d \in Devices : dev' = [dev EXCEPT ![t] = d]
                 /\ loop_pc' = [loop_pc EXCEPT ![t] = "open"]
                 /\ UNCHANGED loop_result
              \/ /\ dev' = [dev EXCEPT ![t] = NoDev]
                 /\ loop_pc' = [loop_pc EXCEPT ![t] = "idle"]
                 /\ loop_result' = [loop_result EXCEPT ![LoopCall(t)] = "failed"]
<1> DEFINE free == {d \in Devices : bound[d] = NoCall}
<1>1. CASE FailEarly(t)
  BY <1>1 DEF GetFree, FailEarly, LoopGoto
<1>2. CASE ~FailEarly(t)
  <2>1. free # {} /\ dev' = [dev EXCEPT ![t] = CHOOSE d \in free : \A e \in free : d <= e]
    BY <1>2 DEF GetFree
  <2>2. (CHOOSE d \in free : \A e \in free : d <= e) \in Devices
    BY <2>1, FirstDevice
  <2> HIDE DEF free
  <2>3. \E d \in Devices : dev' = [dev EXCEPT ![t] = d]
    BY <2>1, <2>2
  <2> QED
    BY <1>2, <2>3 DEF GetFree, LoopGoto
<1> QED
  BY <1>1, <1>2

\* Two threads are never in the same call, and a step within a call starts none.
LEMMA CallsDiffer == \A t, u \in LoopUsers : LoopCall(t) = LoopCall(u) => t = u
BY DEF LoopCall

LEMMA CallsKept == UNCHANGED loop_calls => \A t \in LoopUsers : LoopCall(t)' = LoopCall(t)
BY DEF LoopCall

\* A call that names a device has it open when it goes on.
LEMMA NamedOpen ==
    ASSUME LoopInv, NEW t \in LoopUsers, NEW d \in Devices,
           NEW label \in {"ac_get", "clr_fd"}, OpenNamed(t, d, label)
    PROVE  OpenInv'
<1> USE DEF LoopInv, LoopTypeOK, KernelTypeOK, ThreadTypeOK, CallTypeOK, OpenInv, HasDevice, HasOpen
<1>1. loop_pc[t] = "idle" /\ loop_calls' = [loop_calls EXCEPT ![t] = @ + 1] /\ UNCHANGED li64
  BY DEF OpenNamed, LoopBegin
<1>2. \/ UNCHANGED <<dev, loop_pc, opens>>
      \/ /\ dev' = [dev EXCEPT ![t] = d] /\ opens' = [opens EXCEPT ![d] = @ \cup {t}]
         /\ loop_pc' = [loop_pc EXCEPT ![t] = label]
  BY DEF OpenNamed, open, LoopGoto
<1>3. ASSUME NEW u \in LoopUsers, loop_pc'[u] # "idle" PROVE loop_calls'[u] > 0
  <2>1. u # t => loop_calls'[u] = loop_calls[u] /\ loop_pc'[u] = loop_pc[u]
    BY <1>1, <1>2
  <2>2. loop_calls[t] \in Nat /\ loop_calls'[t] = loop_calls[t] + 1
    BY <1>1
  <2> QED
    BY <1>3, <2>1, <2>2
<1>4. ASSUME NEW u \in LoopUsers PROVE /\ HasDevice(u)' => dev'[u] \in Devices
                                       /\ HasOpen(u)' => u \in opens'[dev'[u]]
  <2>1. CASE u = t
    BY <1>1, <1>2, <2>1
  <2>2. CASE u # t
    <3>1. dev'[u] = dev[u] /\ loop_pc'[u] = loop_pc[u] /\ \A e \in Devices : opens[e] \subseteq opens'[e]
      BY <1>2, <2>2
    <3> QED
      BY <3>1
  <2> QED
    BY <2>1, <2>2
<1>5. ASSUME NEW u \in LoopUsers, loop_pc'[u] \in {"set_fd", "set_status", "set_block_size"}
      PROVE  li64'[u].n_try > 0
  BY <1>1, <1>2, <1>5
<1> QED
  BY <1>3, <1>4, <1>5

LEMMA OpenStep == LoopInv /\ [LoopNext]_lvars => OpenInv'
<1> SUFFICES ASSUME LoopInv, [LoopNext]_lvars PROVE OpenInv'
  OBVIOUS
<1> USE LoopAssumption DEF LoopInv, LoopTypeOK, KernelTypeOK, ThreadTypeOK, CallTypeOK,
    OpenInv, HasDevice, HasOpen, Statuses, NoStatus, LoopGoto, Udev
<1>1. ASSUME NEW t \in LoopUsers, SetupCall(t) PROVE OpenInv'
  BY <1>1 DEF SetupCall, LoopBegin, loop_kernel
<1>2. ASSUME NEW t \in LoopUsers, AutoclearCall(t) PROVE OpenInv'
  BY <1>2, NamedOpen DEF AutoclearCall
<1>3. ASSUME NEW t \in LoopUsers, TeardownCall(t) PROVE OpenInv'
  BY <1>3, NamedOpen DEF TeardownCall
<1>4. ASSUME NEW t \in LoopUsers, GetFree(t) PROVE OpenInv'
  BY <1>4, FreeNamed DEF loop_kernel
<1>5. ASSUME NEW t \in LoopUsers, OpenFree(t) PROVE OpenInv'
  <2>1. CASE FailEarly(t)
    BY <1>5, <2>1 DEF OpenFree, FailEarly, loop_kernel
  <2>2. CASE ~FailEarly(t)
    <3>1. li64'[t].n_try = Tries /\ \A u \in LoopUsers \ {t} : li64'[u] = li64[u]
      BY <1>5, <2>2 DEF OpenFree
    <3>2. dev[t] \in Devices
      BY <1>5 DEF OpenFree
    <3>3. /\ UNCHANGED <<dev, loop_calls>> /\ opens' = [opens EXCEPT ![dev[t]] = @ \cup {t}]
          /\ loop_pc[t] = "open" /\ loop_pc' = [loop_pc EXCEPT ![t] = "set_fd"]
      BY <1>5, <2>2 DEF OpenFree, open
    <3>4. \A u \in LoopUsers : HasOpen(u)' => u \in opens'[dev'[u]]
      BY <3>2, <3>3
    <3>5. \A u \in LoopUsers :
            loop_pc'[u] \in {"set_fd", "set_status", "set_block_size"} => li64'[u].n_try > 0
      BY <3>1, <3>3
    <3> QED
      BY <3>2, <3>3, <3>4, <3>5
  <2> QED
    BY <2>1, <2>2
<1>6. ASSUME NEW t \in LoopUsers, Associate(t) PROVE OpenInv'
  BY <1>6 DEF Associate, Ending, LOOP_SET_FD, loop_kernel
<1>7. ASSUME NEW t \in LoopUsers, SetStatus(t) PROVE OpenInv'
  BY <1>7 DEF SetStatus, Ending, Retry, LOOP_SET_STATUS64, loop_kernel
<1>8. ASSUME NEW t \in LoopUsers, SetBlockSize(t) PROVE OpenInv'
  BY <1>8 DEF SetBlockSize, Ending, Retry, loop_kernel
<1>9. ASSUME NEW t \in LoopUsers, Clear(t) PROVE OpenInv'
  BY <1>9 DEF Clear, Ending, LOOP_CLR_FD
<1>10. ASSUME NEW t \in LoopUsers, Close(t) PROVE OpenInv'
  BY <1>10 DEF Close, close
<1>11. ASSUME NEW t \in LoopUsers, GetStatus(t) PROVE OpenInv'
  BY <1>11 DEF GetStatus, Ending, loop_kernel
<1>12. ASSUME NEW t \in LoopUsers, PutStatus(t) PROVE OpenInv'
  BY <1>12 DEF PutStatus, Ending, LOOP_SET_STATUS64, loop_kernel
<1>13. ASSUME NEW t \in LoopUsers, Detach(t) PROVE OpenInv'
  BY <1>13 DEF Detach, Ending, LOOP_CLR_FD, loop_kernel
<1>14. ASSUME NEW d \in Devices, UdevOpen(d) PROVE OpenInv'
  BY <1>14 DEF UdevOpen, open
<1>15. ASSUME NEW d \in Devices, UdevClose(d) PROVE OpenInv'
  BY <1>15 DEF UdevClose, close
<1>16. CASE UNCHANGED lvars BY <1>16 DEF lvars
<1> QED
  BY <1>1, <1>2, <1>3, <1>4, <1>5, <1>6, <1>7, <1>8,
     <1>9, <1>10, <1>11, <1>12, <1>13, <1>14, <1>15, <1>16
  DEF LoopNext, LoopStep

LEMMA CallsStep == LoopInv /\ [LoopNext]_lvars => CallsInv'
<1> SUFFICES ASSUME LoopInv, [LoopNext]_lvars PROVE CallsInv'
  OBVIOUS
<1> USE LoopAssumption DEF LoopInv, LoopTypeOK, KernelTypeOK, ThreadTypeOK, CallTypeOK,
    OpenInv, CallsInv, HasDevice, LoopCall, LoopCalls, LoopGoto
<1>1. ASSUME NEW t \in LoopUsers, SetupCall(t) PROVE CallsInv'
  BY <1>1 DEF SetupCall, LoopBegin, loop_kernel
<1>2. ASSUME NEW t \in LoopUsers, AutoclearCall(t) PROVE CallsInv'
  BY <1>2 DEF AutoclearCall, OpenNamed, LoopBegin, open
<1>3. ASSUME NEW t \in LoopUsers, TeardownCall(t) PROVE CallsInv'
  BY <1>3 DEF TeardownCall, OpenNamed, LoopBegin, open
<1>4. ASSUME NEW t \in LoopUsers, GetFree(t) PROVE CallsInv'
  BY <1>4 DEF GetFree, FailEarly, loop_kernel
<1>5. ASSUME NEW t \in LoopUsers, OpenFree(t) PROVE CallsInv'
  BY <1>5 DEF OpenFree, FailEarly, open, loop_kernel
<1>6. ASSUME NEW t \in LoopUsers, Associate(t) PROVE CallsInv'
  <2>1. UNCHANGED loop_calls
    BY <1>6 DEF Associate
  <2>2. CASE LOOP_SET_FD(t) /\ LoopGoto(t, "set_status") /\ UNCHANGED loop_result
    <3>1. ASSUME NEW u \in LoopUsers, loop_pc'[u] \notin {"idle", "close"}
          PROVE  loop_result'[LoopCall(u)'] = "none"
      BY <1>6, <2>1, <2>2, <3>1 DEF Associate
    <3>2. ASSUME NEW c \in LoopCalls, c[2] > loop_calls'[c[1]]
          PROVE  loop_result'[c] = "none" /\ \A d \in Devices : bound'[d] # c
      <4>1. loop_result[c] = "none" /\ \A d \in Devices : bound[d] # c
        BY <2>1, <3>2
      <4>2. LoopCall(t) # c
        BY <2>1, <3>2
      <4>3. bound' = [bound EXCEPT ![dev[t]] = LoopCall(t)]
        BY <2>2 DEF LOOP_SET_FD
      <4> HIDE DEF LoopCall
      <4>4. \A d \in Devices : bound'[d] # c
        BY <4>1, <4>2, <4>3
      <4> QED
        BY <2>2, <4>1, <4>4
    <3> QED
      BY <3>1, <3>2
  <2>3. CASE Ending(t, "failed") /\ UNCHANGED loop_kernel
    <3>1. loop_result' = [loop_result EXCEPT ![LoopCall(t)] = "failed"]
          /\ loop_pc' = [loop_pc EXCEPT ![t] = "close"] /\ UNCHANGED bound
      BY <2>3 DEF Ending, loop_kernel
    <3> QED
      BY <2>1, <3>1
  <2> QED
    BY <1>6, <2>2, <2>3 DEF Associate
<1>7. ASSUME NEW t \in LoopUsers, SetStatus(t) PROVE CallsInv'
  BY <1>7 DEF SetStatus, Ending, Retry, LOOP_SET_STATUS64, loop_kernel
<1>8. ASSUME NEW t \in LoopUsers, SetBlockSize(t) PROVE CallsInv'
  BY <1>8 DEF SetBlockSize, Ending, Retry, loop_kernel
<1>9. ASSUME NEW t \in LoopUsers, Clear(t) PROVE CallsInv'
  BY <1>9 DEF Clear, Ending, LOOP_CLR_FD
<1>10. ASSUME NEW t \in LoopUsers, Close(t) PROVE CallsInv'
  BY <1>10 DEF Close, close
<1>11. ASSUME NEW t \in LoopUsers, GetStatus(t) PROVE CallsInv'
  BY <1>11 DEF GetStatus, Ending, loop_kernel
<1>12. ASSUME NEW t \in LoopUsers, PutStatus(t) PROVE CallsInv'
  BY <1>12 DEF PutStatus, Ending, LOOP_SET_STATUS64, loop_kernel
<1>13. ASSUME NEW t \in LoopUsers, Detach(t) PROVE CallsInv'
  BY <1>13 DEF Detach, Ending, LOOP_CLR_FD, loop_kernel
<1>14. ASSUME NEW d \in Devices, UdevOpen(d) PROVE CallsInv'
  BY <1>14 DEF UdevOpen, open
<1>15. ASSUME NEW d \in Devices, UdevClose(d) PROVE CallsInv'
  BY <1>15 DEF UdevClose, close
<1>16. CASE UNCHANGED lvars BY <1>16 DEF lvars
<1> QED
  BY <1>1, <1>2, <1>3, <1>4, <1>5, <1>6, <1>7, <1>8,
     <1>9, <1>10, <1>11, <1>12, <1>13, <1>14, <1>15, <1>16
  DEF LoopNext, LoopStep

\* What a step within a call of t leaves alone, and how t goes on.
LEMMA StepFrame ==
    ASSUME LoopInv, NEW t \in LoopUsers, LoopStep(t)
    PROVE  /\ loop_pc[t] # "idle" /\ UNCHANGED <<loop_calls, loop_args>>
           /\ \A u \in LoopUsers \ {t} :
                loop_pc'[u] = loop_pc[u] /\ dev'[u] = dev[u] /\ li64'[u] = li64[u]
           /\ HasDevice(t) => dev'[t] = dev[t] \/ loop_pc'[t] = "idle"
           /\ Configuring(t) => Configuring(t)' \/ loop_pc'[t] = "close"
           /\ loop_pc'[t] = "ac_set" =>
                /\ loop_pc[t] = "ac_get" /\ bound[dev[t]] # NoCall /\ NoteRead(dev[t])
                /\ UNCHANGED <<bound, loop_result, dev>>
           /\ early \subseteq early'
           /\ loop_pc[t] = "close" => loop_pc'[t] = "idle"
<1> USE DEF LoopInv, LoopTypeOK, ThreadTypeOK, LoopLabels, HasDevice, Configuring, LoopGoto
<1>1. CASE GetFree(t) BY <1>1, FreeNamed DEF loop_kernel
<1>2. CASE OpenFree(t) BY <1>2 DEF OpenFree, FailEarly, open, loop_kernel
<1>3. CASE Associate(t) BY <1>3 DEF Associate, Ending, LOOP_SET_FD, loop_kernel
<1>4. CASE SetStatus(t) 
  BY <1>4 DEF SetStatus, Ending, Retry, LOOP_SET_STATUS64, loop_kernel
<1>5. CASE SetBlockSize(t) BY <1>5 DEF SetBlockSize, Ending, Retry, loop_kernel
<1>6. CASE Clear(t) BY <1>6 DEF Clear, Ending, LOOP_CLR_FD
<1>7. CASE Close(t) BY <1>7 DEF Close, close
<1>8. CASE GetStatus(t) BY <1>8 DEF GetStatus, NoteRead, Ending, loop_kernel
<1>9. CASE PutStatus(t) BY <1>9 DEF PutStatus, Ending, LOOP_SET_STATUS64, loop_kernel
<1>10. CASE Detach(t) BY <1>10 DEF Detach, Ending, LOOP_CLR_FD, loop_kernel
<1> QED
  BY <1>1, <1>2, <1>3, <1>4, <1>5, <1>6, <1>7, <1>8, <1>9, <1>10 DEF LoopStep

\* Only the call of t can get a result, and it had none.
LEMMA ResultFrame ==
    ASSUME LoopInv, NEW t \in LoopUsers, LoopStep(t), NEW c \in LoopCalls,
           loop_result'[c] # loop_result[c]
    PROVE  /\ c = LoopCall(t) /\ loop_result[c] = "none" /\ loop_pc[t] # "close"
           /\ loop_result'[c] = "failed" => ~Configuring(t) \/ loop_pc[t] = "clear"
           /\ loop_result'[c] = "set_up" => loop_pc[t] \in {"set_status", "set_block_size"}
<1> USE DEF LoopInv, LoopTypeOK, CallTypeOK, LoopEnds, CallsInv, Configuring
<1>1. CASE GetFree(t) BY <1>1, FreeNamed DEF loop_kernel
<1>2. CASE OpenFree(t) BY <1>2 DEF OpenFree, FailEarly, open, loop_kernel
<1>3. CASE Associate(t) BY <1>3 DEF Associate, Ending, LOOP_SET_FD, loop_kernel
<1>4. CASE SetStatus(t) 
  BY <1>4 DEF SetStatus, Ending, Retry, LOOP_SET_STATUS64, loop_kernel
<1>5. CASE SetBlockSize(t) BY <1>5 DEF SetBlockSize, Ending, Retry, loop_kernel
<1>6. CASE Clear(t) BY <1>6 DEF Clear, Ending, LOOP_CLR_FD
<1>7. CASE Close(t) BY <1>7 DEF Close, close
<1>8. CASE GetStatus(t) BY <1>8 DEF GetStatus, Ending, loop_kernel
<1>9. CASE PutStatus(t) BY <1>9 DEF PutStatus, Ending, LOOP_SET_STATUS64, loop_kernel
<1>10. CASE Detach(t) BY <1>10 DEF Detach, Ending, LOOP_CLR_FD, loop_kernel
<1> QED
  BY <1>1, <1>2, <1>3, <1>4, <1>5, <1>6, <1>7, <1>8, <1>9, <1>10 DEF LoopStep

\* A step of t attaches a file to its own device, which had none, or detaches
\* one from a device that nobody else has open.
LEMMA BoundFrame ==
    ASSUME LoopInv, NEW t \in LoopUsers, LoopStep(t), NEW d \in Devices, bound'[d] # bound[d]
    PROVE  \/ bound'[d] = NoCall /\ opens[d] \subseteq {t}
           \/ /\ d = dev[t] /\ bound[d] = NoCall /\ bound'[d] = LoopCall(t)
              /\ loop_pc[t] = "set_fd" /\ loop_pc'[t] = "set_status" /\ UNCHANGED loop_result
<1> USE DEF LoopInv, LoopTypeOK, KernelTypeOK, ThreadTypeOK, OpenInv, HasDevice, HasOpen, LoopGoto
<1>1. CASE GetFree(t) BY <1>1, FreeNamed DEF loop_kernel
<1>2. CASE OpenFree(t) BY <1>2 DEF OpenFree, FailEarly, open, loop_kernel
<1>3. CASE Associate(t) BY <1>3 DEF Associate, Ending, LOOP_SET_FD, loop_kernel
<1>4. CASE SetStatus(t) 
  BY <1>4 DEF SetStatus, Ending, Retry, LOOP_SET_STATUS64, loop_kernel
<1>5. CASE SetBlockSize(t) BY <1>5 DEF SetBlockSize, Ending, Retry, loop_kernel
<1>6. CASE Clear(t) BY <1>6 DEF Clear, Ending, LOOP_CLR_FD
<1>7. CASE Close(t) BY <1>7 DEF Close, close
<1>8. CASE GetStatus(t) BY <1>8 DEF GetStatus, Ending, loop_kernel
<1>9. CASE PutStatus(t) BY <1>9 DEF PutStatus, Ending, LOOP_SET_STATUS64, loop_kernel
<1>10. CASE Detach(t) BY <1>10 DEF Detach, Ending, LOOP_CLR_FD, loop_kernel
<1> QED
  BY <1>1, <1>2, <1>3, <1>4, <1>5, <1>6, <1>7, <1>8, <1>9, <1>10 DEF LoopStep

\* A step of t moves the window of its own device, by a status or when it
\* attaches the file.
LEMMA OffsetFrame ==
    ASSUME LoopInv, NEW t \in LoopUsers, LoopStep(t), NEW d \in Devices, offset'[d] # offset[d]
    PROVE  /\ d = dev[t]
           /\ \/ loop_pc[t] = "set_fd" /\ bound[d] = NoCall /\ bound'[d] = LoopCall(t)
                 /\ UNCHANGED loop_result
              \/ loop_pc[t] \in {"set_status", "ac_set"} /\ offset'[d] = li64[t].offset
                 /\ UNCHANGED bound
<1> USE DEF LoopInv, LoopTypeOK, KernelTypeOK, ThreadTypeOK, OpenInv, HasDevice, LoopGoto
<1>1. CASE GetFree(t) BY <1>1, FreeNamed DEF loop_kernel
<1>2. CASE OpenFree(t) BY <1>2 DEF OpenFree, FailEarly, open, loop_kernel
<1>3. CASE Associate(t) BY <1>3 DEF Associate, Ending, LOOP_SET_FD, loop_kernel
<1>4. CASE SetStatus(t) 
  BY <1>4 DEF SetStatus, Ending, Retry, LOOP_SET_STATUS64, loop_kernel
<1>5. CASE SetBlockSize(t) BY <1>5 DEF SetBlockSize, Ending, Retry, loop_kernel
<1>6. CASE Clear(t) BY <1>6 DEF Clear, Ending, LOOP_CLR_FD
<1>7. CASE Close(t) BY <1>7 DEF Close, close
<1>8. CASE GetStatus(t) BY <1>8 DEF GetStatus, Ending, loop_kernel
<1>9. CASE PutStatus(t) BY <1>9 DEF PutStatus, Ending, LOOP_SET_STATUS64, loop_kernel
<1>10. CASE Detach(t) BY <1>10 DEF Detach, Ending, LOOP_CLR_FD, loop_kernel
<1> QED
  BY <1>1, <1>2, <1>3, <1>4, <1>5, <1>6, <1>7, <1>8, <1>9, <1>10 DEF LoopStep

\* A device that somebody has open for a call of theirs stays as it is: a step
\* of another thread does not detach it.
LEMMA OpenKept ==
    ASSUME LoopInv, NEW t \in LoopUsers, LoopStep(t), NEW u \in LoopUsers \ {t}, HasOpen(u),
           bound[dev[u]] # NoCall
    PROVE  bound'[dev[u]] = bound[dev[u]]
<1>1. dev[u] \in Devices /\ u \in opens[dev[u]]
  BY DEF LoopInv, OpenInv, HasOpen, HasDevice
<1> QED
  BY <1>1, BoundFrame

\* A call in which a thread is has a result only once it is being closed, and
\* a device has been attached by a call.
LEMMA NoResult ==
    ASSUME LoopInv
    PROVE  /\ \A u \in LoopUsers : loop_pc[u] \notin {"idle", "close"} =>
                LoopCall(u) \in LoopCalls /\ LoopCall(u) # NoCall /\ loop_result[LoopCall(u)] = "none"
           /\ \A d \in Devices : bound[d] # NoCall => bound[d] \in LoopCalls
           /\ NoCall \notin LoopCalls
<1>1. NoCall \notin LoopCalls
  BY LoopAssumption DEF LoopCalls
<1> QED
  BY <1>1, CallMade DEF LoopInv, CallsInv, LoopTypeOK, KernelTypeOK

LEMMA BoundStep ==
    ASSUME LoopInv, NEW t \in LoopUsers, LoopStep(t)
    PROVE  BoundInv'
<1> SUFFICES ASSUME NEW u \in LoopUsers, NEW d \in Devices,
                    loop_pc'[u] \notin {"idle", "close"}, bound'[d] = LoopCall(u)
             PROVE  Configuring(u)' /\ dev'[u] = d
  BY StepFrame, CallsKept DEF BoundInv
<1>1. loop_pc[u] \notin {"idle", "close"}
  BY StepFrame
<1>2. LoopCall(u) # NoCall
  BY <1>1, NoResult
<1>3. CASE bound'[d] = bound[d]
  <2>1. Configuring(u) /\ dev[u] = d
    BY <1>1, <1>3 DEF LoopInv, BoundInv
  <2> QED
    BY <2>1, StepFrame DEF Configuring, HasDevice
<1>4. CASE bound'[d] # bound[d]
  <2>1. d = dev[t] /\ LoopCall(u) = LoopCall(t) /\ loop_pc[t] = "set_fd" /\ loop_pc'[t] = "set_status"
    BY <1>2, <1>4, BoundFrame
  <2>2. u = t
    BY <2>1, CallsDiffer
  <2> QED
    BY <2>1, <2>2, StepFrame DEF Configuring, HasDevice
<1> QED
  BY <1>3, <1>4

LEMMA NamedStep ==
    ASSUME LoopInv, NEW t \in LoopUsers, LoopStep(t)
    PROVE  NamedInv'
<1> SUFFICES ASSUME NEW u \in LoopUsers, loop_pc'[u] = "ac_set"
             PROVE  bound'[dev'[u]] # NoCall /\ (Known(dev[u])' \/ bound'[dev'[u]] \in early')
  BY DEF NamedInv
<1>1. CASE u = t
  BY <1>1, StepFrame DEF Known, NoteRead
<1>2. CASE u # t
  <2>1. loop_pc[u] = "ac_set" /\ dev'[u] = dev[u] /\ HasOpen(u) /\ dev[u] \in Devices
    BY <1>2, StepFrame DEF HasOpen, HasDevice, LoopInv, OpenInv
  <2>2. bound[dev[u]] # NoCall /\ (Known(dev[u]) \/ bound[dev[u]] \in early)
    BY <2>1 DEF LoopInv, NamedInv
  <2>3. bound'[dev[u]] = bound[dev[u]]
    BY <1>2, <2>1, <2>2, OpenKept
  <2>4. Known(dev[u]) => loop_result'[bound[dev[u]]] = "set_up"
    BY <2>1, NoResult, ResultFrame DEF Known
  <2> QED
    BY <2>1, <2>2, <2>3, <2>4, StepFrame DEF Known
<1> QED
  BY <1>1, <1>2

\* A thread that configures a device has just attached it or goes on doing so.
LEMMA StepOwn ==
    ASSUME LoopInv, NEW t \in LoopUsers, LoopStep(t), Configuring(t)'
    PROVE  bound'[dev'[t]] = LoopCall(t)
<1> USE DEF LoopInv, LoopTypeOK, KernelTypeOK, ThreadTypeOK, LoopLabels, OpenInv, HasDevice,
            OwnDevice, Configuring, LoopGoto
<1>1. CASE GetFree(t) BY <1>1, FreeNamed DEF loop_kernel
<1>2. CASE OpenFree(t) BY <1>2 DEF OpenFree, FailEarly, open, loop_kernel
<1>3. CASE Associate(t) BY <1>3 DEF Associate, Ending, LOOP_SET_FD, loop_kernel
<1>4. CASE SetStatus(t) 
  BY <1>4 DEF SetStatus, Ending, Retry, LOOP_SET_STATUS64, loop_kernel
<1>5. CASE SetBlockSize(t) BY <1>5 DEF SetBlockSize, Ending, Retry, loop_kernel
<1>6. CASE Clear(t) BY <1>6 DEF Clear, Ending, LOOP_CLR_FD
<1>7. CASE Close(t) BY <1>7 DEF Close, close
<1>8. CASE GetStatus(t) BY <1>8 DEF GetStatus, Ending, loop_kernel
<1>9. CASE PutStatus(t) BY <1>9 DEF PutStatus, Ending, LOOP_SET_STATUS64, loop_kernel
<1>10. CASE Detach(t) BY <1>10 DEF Detach, Ending, LOOP_CLR_FD, loop_kernel
<1> QED
  BY <1>1, <1>2, <1>3, <1>4, <1>5, <1>6, <1>7, <1>8, <1>9, <1>10 DEF LoopStep

LEMMA OwnStep ==
    ASSUME LoopInv, NEW t \in LoopUsers, LoopStep(t)
    PROVE  OwnDevice'
<1> SUFFICES ASSUME NEW u \in LoopUsers, Configuring(u)'
             PROVE  bound'[dev'[u]] = LoopCall(u)
  BY StepFrame, CallsKept DEF OwnDevice
<1>1. CASE u # t
  <2>1. Configuring(u) /\ dev'[u] = dev[u] /\ HasOpen(u)
    BY <1>1, StepFrame DEF Configuring, HasOpen
  <2>2. bound[dev[u]] = LoopCall(u) /\ LoopCall(u) # NoCall
    BY <2>1, NoResult DEF LoopInv, OwnDevice, Configuring
  <2> QED
    BY <1>1, <2>1, <2>2, OpenKept
<1>2. CASE u = t
  BY <1>2, StepOwn DEF LoopInv, OwnDevice
<1> QED
  BY <1>1, <1>2

\* The status that t writes, or has written, has the offset of the call.
LEMMA StepStatus ==
    ASSUME LoopInv, NEW t \in LoopUsers, LoopStep(t)
    PROVE  /\ loop_pc'[t] \in {"set_fd", "set_status"} => li64'[t].offset = Asked(t)
           /\ loop_pc'[t] = "set_block_size" => offset'[dev'[t]] = Asked(t) \/ LoopCall(t) \in early
           /\ loop_pc'[t] = "ac_set" => li64'[t].offset = offset[dev[t]]
<1> USE DEF LoopInv, LoopTypeOK, KernelTypeOK, ThreadTypeOK, LoopLabels, OpenInv, HasDevice,
            StatusInv, Statuses, LoopGoto
<1>1. CASE GetFree(t) BY <1>1, FreeNamed DEF loop_kernel
<1>2. CASE OpenFree(t) BY <1>2 DEF OpenFree, FailEarly, open, loop_kernel
<1>3. CASE Associate(t) BY <1>3 DEF Associate, Ending, LOOP_SET_FD, loop_kernel
<1>4. CASE SetStatus(t) 
  BY <1>4 DEF SetStatus, Ending, Retry, LOOP_SET_STATUS64, loop_kernel
<1>5. CASE SetBlockSize(t) BY <1>5 DEF SetBlockSize, Ending, Retry, loop_kernel
<1>6. CASE Clear(t) BY <1>6 DEF Clear, Ending, LOOP_CLR_FD
<1>7. CASE Close(t) BY <1>7 DEF Close, close
<1>8. CASE GetStatus(t) BY <1>8 DEF GetStatus, Ending, loop_kernel
<1>9. CASE PutStatus(t) BY <1>9 DEF PutStatus, Ending, LOOP_SET_STATUS64, loop_kernel
<1>10. CASE Detach(t) BY <1>10 DEF Detach, Ending, LOOP_CLR_FD, loop_kernel
<1> QED
  BY <1>1, <1>2, <1>3, <1>4, <1>5, <1>6, <1>7, <1>8, <1>9, <1>10 DEF LoopStep

LEMMA StatusStep ==
    ASSUME LoopInv, NEW t \in LoopUsers, LoopStep(t)
    PROVE  StatusInv'
<1>1. \A u \in LoopUsers : Asked(u)' = Asked(u) /\ LoopCall(u)' = LoopCall(u)
  BY StepFrame, CallsKept DEF Asked
<1> SUFFICES ASSUME NEW u \in LoopUsers
             PROVE  /\ loop_pc'[u] \in {"set_fd", "set_status"} => li64'[u].offset = Asked(u)
                    /\ loop_pc'[u] = "set_block_size" =>
                         offset'[dev'[u]] = Asked(u) \/ LoopCall(u) \in early'
                    /\ loop_pc'[u] = "ac_set" =>
                         \/ li64'[u].offset = loop_args[bound'[dev'[u]]]
                         \/ bound'[dev'[u]] \in early'
  BY <1>1, StepFrame DEF StatusInv
<1>2. CASE u = t
  <2>1. ASSUME loop_pc'[t] = "ac_set"
        PROVE  li64'[t].offset = loop_args[bound'[dev'[t]]] \/ bound'[dev'[t]] \in early'
    <3>1. loop_pc[t] = "ac_get" /\ NoteRead(dev[t]) /\ UNCHANGED <<bound, dev>> /\ early \subseteq early'
      BY <2>1, StepFrame
    <3>2. dev[t] \in Devices
      BY <3>1 DEF LoopInv, OpenInv, HasDevice
    <3>3. Known(dev[t]) => offset[dev[t]] = loop_args[bound[dev[t]]] \/ bound[dev[t]] \in early
      BY <3>2 DEF LoopInv, WindowKept
    <3> QED
      BY <2>1, <3>1, <3>3, StepStatus DEF NoteRead
  <2> QED
    BY <1>2, <2>1, StepStatus, StepFrame
<1>3. CASE u # t
  <2>1. loop_pc'[u] = loop_pc[u] /\ dev'[u] = dev[u] /\ li64'[u] = li64[u] /\ early \subseteq early'
    BY <1>3, StepFrame
  <2>2. loop_pc[u] = "set_block_size" => offset'[dev[u]] = offset[dev[u]] \/ LoopCall(u) \in early
    <3> SUFFICES ASSUME loop_pc[u] = "set_block_size", offset'[dev[u]] # offset[dev[u]]
                 PROVE  LoopCall(u) \in early
      OBVIOUS
    <3>1. dev[u] \in Devices /\ bound[dev[u]] = LoopCall(u) /\ LoopCall(u) # NoCall
          /\ loop_result[LoopCall(u)] = "none"
      BY NoResult DEF LoopInv, OpenInv, HasDevice, OwnDevice, Configuring
    <3>2. dev[u] = dev[t] /\ loop_pc[t] \in {"set_status", "ac_set"}
      BY <3>1, OffsetFrame
    <3>3. loop_pc[t] # "set_status"
      BY <1>3, <3>1, <3>2, CallsDiffer DEF LoopInv, OwnDevice, Configuring
    <3> QED
      BY <3>1, <3>2, <3>3 DEF LoopInv, NamedInv, Known
  <2>3. loop_pc[u] = "ac_set" => bound'[dev[u]] = bound[dev[u]]
    BY <1>3, OpenKept DEF LoopInv, NamedInv, HasOpen
  <2> QED
    BY <2>1, <2>2, <2>3 DEF LoopInv, StatusInv
<1> QED
  BY <1>2, <1>3

LEMMA WindowStep ==
    ASSUME LoopInv, NEW t \in LoopUsers, LoopStep(t)
    PROVE  WindowKept'
<1> SUFFICES ASSUME NEW d \in Devices, Known(d)'
             PROVE  offset'[d] = loop_args[bound'[d]] \/ bound'[d] \in early'
  BY StepFrame DEF WindowKept
<1>1. bound'[d] # NoCall /\ loop_result'[bound'[d]] = "set_up"
  BY DEF Known
<1>2. bound'[d] = bound[d] /\ bound[d] \in LoopCalls
  <2>1. bound'[d] # bound[d] => loop_result'[bound'[d]] = "none"
    BY <1>1, BoundFrame, NoResult
  <2> QED
    BY <1>1, <2>1, NoResult
<1>3. CASE Known(d)
  <2>1. offset[d] = loop_args[bound[d]] \/ bound[d] \in early
    BY <1>3 DEF LoopInv, WindowKept
  <2>2. offset'[d] # offset[d] => d = dev[t] /\ loop_pc[t] = "ac_set" /\ offset'[d] = li64[t].offset
    <3>1. d = dev[t] => loop_pc[t] # "set_status"
      BY <1>3, NoResult DEF LoopInv, OwnDevice, Configuring, Known
    <3> QED
      BY <1>3, <3>1, OffsetFrame DEF Known
  <2>3. loop_pc[t] = "ac_set" =>
          li64[t].offset = loop_args[bound[dev[t]]] \/ bound[dev[t]] \in early
    BY DEF LoopInv, StatusInv
  <2> QED
    BY <1>2, <2>1, <2>2, <2>3, StepFrame
<1>4. CASE ~Known(d)
  <2>1. loop_result'[bound[d]] # loop_result[bound[d]]
    BY <1>1, <1>2, <1>4 DEF Known
  <2>2. bound[d] = LoopCall(t) /\ loop_pc[t] \in {"set_status", "set_block_size"}
    BY <1>1, <1>2, <2>1, ResultFrame
  <2>3. d = dev[t]
    BY <2>2 DEF LoopInv, BoundInv
  <2>4. Asked(t) = loop_args[bound[d]]
    BY <2>2 DEF Asked
  <2>5. CASE loop_pc[t] = "set_status"
    <3>1. SetStatus(t)
      BY <2>5 DEF LoopStep, GetFree, OpenFree, Associate, SetBlockSize, Clear, Close, GetStatus,
         PutStatus, Detach
    <3>2. LOOP_SET_STATUS64(t)
      BY <2>1, <3>1 DEF SetStatus, Retry
    <3>3. offset'[dev[t]] = li64[t].offset
      BY <2>3, <3>2 DEF LOOP_SET_STATUS64, LoopInv, LoopTypeOK, KernelTypeOK
    <3> QED
      BY <1>2, <2>3, <2>4, <2>5, <3>3 DEF LoopInv, StatusInv
  <2>6. CASE loop_pc[t] = "set_block_size"
    <3>1. offset'[dev[t]] = offset[dev[t]]
      BY <2>3, <2>6, OffsetFrame
    <3> QED
      BY <1>2, <2>2, <2>3, <2>4, <2>6, <3>1, StepFrame DEF LoopInv, StatusInv
  <2> QED
    BY <2>2, <2>5, <2>6
<1> QED
  BY <1>3, <1>4

\* What becomes of the flag AUTOCLEAR and of who has a device open.
LEMMA FlagFrame ==
    ASSUME LoopInv, NEW t \in LoopUsers, LoopStep(t), NEW d \in Devices, bound'[d] # NoCall
    PROVE  /\ loop_pc[t] = "clear" /\ d = dev[t] => d \in autoclear' /\ opens'[d] # {}
           /\ d \in autoclear /\ opens[d] # {} =>
                \/ d \in autoclear' /\ opens'[d] # {}
                \/ d = dev[t] /\ loop_pc[t] \in {"set_status", "ac_set"}
<1> USE DEF LoopInv, LoopTypeOK, KernelTypeOK, ThreadTypeOK, LoopLabels, OpenInv, HasDevice, HasOpen
<1>1. CASE GetFree(t) BY <1>1, FreeNamed DEF loop_kernel
<1>2. CASE OpenFree(t) BY <1>2 DEF OpenFree, FailEarly, open, loop_kernel
<1>3. CASE Associate(t) BY <1>3 DEF Associate, Ending, LOOP_SET_FD, loop_kernel
<1>4. CASE SetStatus(t) 
  BY <1>4 DEF SetStatus, Ending, Retry, LOOP_SET_STATUS64, loop_kernel
<1>5. CASE SetBlockSize(t) BY <1>5 DEF SetBlockSize, Ending, Retry, loop_kernel
<1>6. CASE Clear(t) BY <1>6 DEF Clear, Ending, LOOP_CLR_FD
<1>7. CASE Close(t) BY <1>7 DEF Close, close
<1>8. CASE GetStatus(t) BY <1>8 DEF GetStatus, Ending, loop_kernel
<1>9. CASE PutStatus(t) BY <1>9 DEF PutStatus, Ending, LOOP_SET_STATUS64, loop_kernel
<1>10. CASE Detach(t) BY <1>10 DEF Detach, Ending, LOOP_CLR_FD, loop_kernel
<1> QED
  BY <1>1, <1>2, <1>3, <1>4, <1>5, <1>6, <1>7, <1>8, <1>9, <1>10 DEF LoopStep

LEMMA FailureStep ==
    ASSUME LoopInv, NEW t \in LoopUsers, LoopStep(t)
    PROVE  FailureDetaches'
<1> SUFFICES ASSUME NEW d \in Devices, bound'[d] # NoCall, loop_result'[bound'[d]] = "failed"
             PROVE  (d \in autoclear' /\ opens'[d] # {}) \/ bound'[d] \in early'
  BY DEF FailureDetaches
<1>1. bound'[d] = bound[d] /\ bound[d] \in LoopCalls
  <2>1. bound'[d] # bound[d] => loop_result'[bound'[d]] = "none"
    BY BoundFrame, NoResult
  <2> QED
    BY <2>1, NoResult
<1>2. CASE loop_result[bound[d]] = "failed"
  <2>1. (d \in autoclear /\ opens[d] # {}) \/ bound[d] \in early
    BY <1>1, <1>2 DEF LoopInv, FailureDetaches
  <2>2. d = dev[t] => loop_pc[t] # "set_status"
    BY <1>2, NoResult DEF LoopInv, OwnDevice, Configuring
  <2>3. d = dev[t] /\ loop_pc[t] = "ac_set" => bound[d] \in early
    BY <1>2 DEF LoopInv, NamedInv, Known
  <2> QED
    BY <1>1, <2>1, <2>2, <2>3, FlagFrame, StepFrame
<1>3. CASE loop_result[bound[d]] # "failed"
  <2>1. bound[d] = LoopCall(t) /\ loop_pc[t] # "close" /\ (~Configuring(t) \/ loop_pc[t] = "clear")
    BY <1>1, <1>3, ResultFrame
  <2>2. Configuring(t) /\ dev[t] = d
    BY <2>1, StepFrame DEF LoopInv, BoundInv
  <2> QED
    BY <2>1, <2>2, FlagFrame
<1> QED
  BY <1>2, <1>3

-----------------------------------------------------------------------------
(* The beginning of a call.                                                *)

Begins(t) == SetupCall(t) \/ AutoclearCall(t) \/ TeardownCall(t)

\* A call that begins changes nothing but what is its own, and opens a device.
LEMMA BeginFrame ==
    ASSUME LoopInv, NEW t \in LoopUsers, Begins(t)
    PROVE  LET n == <<t, loop_calls[t] + 1>> IN
           /\ loop_pc[t] = "idle" /\ LoopCall(t)' = n /\ n \in LoopCalls
           /\ loop_result[n] = "none" /\ (\A d \in Devices : bound[d] # n)
           /\ UNCHANGED <<bound, autoclear, offset, li64, early>>
           /\ \A d \in Devices : opens[d] \subseteq opens'[d]
           /\ \A u \in LoopUsers \ {t} :
                loop_pc'[u] = loop_pc[u] /\ dev'[u] = dev[u] /\ LoopCall(u)' = LoopCall(u)
           /\ \A c \in LoopCalls \ {n} :
                loop_args'[c] = loop_args[c] /\ loop_result'[c] = loop_result[c]
           /\ \/ loop_pc'[t] \in {"idle", "get_free"}
              \/ loop_pc'[t] \in {"ac_get", "clr_fd"} /\ dev'[t] \in Devices
<1> DEFINE n == <<t, loop_calls[t] + 1>>
<1>1. loop_pc[t] = "idle" /\ loop_calls[t] < MaxLoopCalls
      /\ loop_calls' = [loop_calls EXCEPT ![t] = @ + 1]
      /\ \E args : loop_args' = [loop_args EXCEPT ![n] = args]
  BY DEF Begins, SetupCall, AutoclearCall, TeardownCall, OpenNamed, LoopBegin
<1>2. n \in LoopCalls
  BY <1>1, NextCall
<1>3. LoopCall(t)' = n /\ \A u \in LoopUsers \ {t} : LoopCall(u)' = LoopCall(u)
  BY <1>1 DEF LoopCall, LoopInv, LoopTypeOK, CallTypeOK
<1>4. loop_result[n] = "none" /\ \A d \in Devices : bound[d] # n
  <2>1. n[2] > loop_calls[n[1]]
    BY DEF LoopInv, LoopTypeOK, CallTypeOK
  <2> QED
    BY <1>2, <2>1 DEF LoopInv, CallsInv
<1>5. UNCHANGED <<bound, autoclear, offset, li64, early>>
  BY DEF Begins, SetupCall, AutoclearCall, TeardownCall, OpenNamed, loop_kernel
<1>6. /\ loop_result' = loop_result \/ loop_result' = [loop_result EXCEPT ![n] = "failed"]
      /\ \/ UNCHANGED <<opens, dev>> /\ loop_pc' \in {loop_pc, [loop_pc EXCEPT ![t] = "get_free"]}
         \/ \E d \in Devices :
              /\ opens' = [opens EXCEPT ![d] = @ \cup {t}] /\ dev' = [dev EXCEPT ![t] = d]
              /\ loop_pc' \in {[loop_pc EXCEPT ![t] = "ac_get"], [loop_pc EXCEPT ![t] = "clr_fd"]}
  BY DEF Begins, SetupCall, AutoclearCall, TeardownCall, OpenNamed, open, LoopGoto, loop_kernel
<1> HIDE DEF n
<1>7. \A c \in LoopCalls \ {n} : loop_args'[c] = loop_args[c] /\ loop_result'[c] = loop_result[c]
  BY <1>1, <1>6 DEF LoopInv, LoopTypeOK, CallTypeOK
<1>8. /\ \A d \in Devices : opens[d] \subseteq opens'[d]
      /\ \A u \in LoopUsers \ {t} : loop_pc'[u] = loop_pc[u] /\ dev'[u] = dev[u]
      /\ \/ loop_pc'[t] \in {"idle", "get_free"}
         \/ loop_pc'[t] \in {"ac_get", "clr_fd"} /\ dev'[t] \in Devices
  BY <1>1, <1>6 DEF LoopInv, LoopTypeOK, KernelTypeOK, ThreadTypeOK
<1> QED
  BY <1>1, <1>2, <1>3, <1>4, <1>5, <1>7, <1>8 DEF n

LEMMA BeginStep ==
    ASSUME LoopInv, NEW t \in LoopUsers, Begins(t)
    PROVE  BoundInv' /\ NamedInv' /\ StatusInv' /\ OwnDevice' /\ WindowKept' /\ FailureDetaches'
<1> DEFINE n == <<t, loop_calls[t] + 1>>
<1>1. /\ loop_pc[t] = "idle" /\ LoopCall(t)' = n /\ n \in LoopCalls
      /\ loop_result[n] = "none" /\ (\A d \in Devices : bound[d] # n)
      /\ UNCHANGED <<bound, autoclear, offset, li64, early>>
      /\ \A d \in Devices : opens[d] \subseteq opens'[d]
      /\ \A u \in LoopUsers \ {t} :
           loop_pc'[u] = loop_pc[u] /\ dev'[u] = dev[u] /\ LoopCall(u)' = LoopCall(u)
      /\ \A c \in LoopCalls \ {n} :
           loop_args'[c] = loop_args[c] /\ loop_result'[c] = loop_result[c]
      /\ \/ loop_pc'[t] \in {"idle", "get_free"}
         \/ loop_pc'[t] \in {"ac_get", "clr_fd"} /\ dev'[t] \in Devices
  BY BeginFrame
<1> HIDE DEF n
<1>2. \A d \in Devices : Known(d)' <=> Known(d)
  BY <1>1, NoResult DEF Known
<1>3. \A u \in LoopUsers \ {t} : loop_pc[u] \notin {"idle", "close"} => LoopCall(u) \in LoopCalls \ {n}
  <2>1. \A u \in LoopUsers \ {t} : LoopCall(u) # n
    BY DEF LoopCall, n
  <2> QED
    BY <2>1, NoResult
<1>4. BoundInv'
  BY <1>1 DEF LoopInv, BoundInv, Configuring
<1>5. NamedInv'
  BY <1>1, <1>2 DEF LoopInv, NamedInv, OpenInv, HasDevice
<1>6. OwnDevice'
  BY <1>1 DEF LoopInv, OwnDevice, Configuring
<1>7. StatusInv'
  <2>1. \A u \in LoopUsers \ {t} : loop_pc[u] \notin {"idle", "close"} => Asked(u)' = Asked(u)
    BY <1>1, <1>3 DEF Asked
  <2>2. \A u \in LoopUsers : loop_pc[u] = "ac_set" => bound[dev[u]] \in LoopCalls \ {n}
    BY <1>1, NoResult DEF LoopInv, NamedInv, OpenInv, HasDevice
  <2> QED
    BY <1>1, <2>1, <2>2 DEF LoopInv, StatusInv
<1>8. WindowKept'
  BY <1>1, <1>2, NoResult DEF LoopInv, WindowKept, Known
<1>9. FailureDetaches'
  BY <1>1, NoResult DEF LoopInv, FailureDetaches
<1> QED
  BY <1>4, <1>5, <1>6, <1>7, <1>8, <1>9

-----------------------------------------------------------------------------
(* udev, which has a device open at most beside the threads.               *)

LEMMA UdevStep ==
    ASSUME LoopInv, NEW d \in Devices, UdevOpen(d) \/ UdevClose(d)
    PROVE  BoundInv' /\ NamedInv' /\ StatusInv' /\ OwnDevice' /\ WindowKept' /\ FailureDetaches'
<1>1. /\ UNCHANGED <<offset, loop_pc, loop_calls, loop_args, dev, li64, loop_result, early>>
      /\ \A t \in LoopUsers : LoopCall(t)' = LoopCall(t) /\ Asked(t)' = Asked(t)
  BY CallsKept DEF UdevOpen, UdevClose, close, Asked
<1>2. \A e \in Devices : bound'[e] # bound[e] => bound'[e] = NoCall /\ opens[e] \subseteq {Udev}
  BY DEF UdevOpen, UdevClose, close, LoopInv, LoopTypeOK, KernelTypeOK
<1>3. \A e \in Devices : bound'[e] # NoCall /\ e \in autoclear /\ opens[e] # {} =>
        e \in autoclear' /\ opens'[e] # {}
  BY DEF UdevOpen, UdevClose, open, close, LoopInv, LoopTypeOK, KernelTypeOK
<1>4. \A t \in LoopUsers : HasOpen(t) => dev[t] \in Devices /\ bound'[dev[t]] = bound[dev[t]]
  BY <1>2, LoopAssumption DEF LoopInv, OpenInv, HasOpen, HasDevice, Udev
<1>5. \A e \in Devices : Known(e)' => Known(e) /\ bound'[e] = bound[e]
  BY <1>1, <1>2 DEF Known
<1>6. BoundInv'
  BY <1>1, <1>2, NoResult DEF LoopInv, BoundInv, Configuring
<1>7. NamedInv'
  BY <1>1, <1>4 DEF LoopInv, NamedInv, Known, HasOpen
<1>8. StatusInv'
  BY <1>1, <1>4 DEF LoopInv, StatusInv, HasOpen
<1>9. OwnDevice'
  BY <1>1, <1>4 DEF LoopInv, OwnDevice, Configuring, HasOpen
<1>10. WindowKept'
  BY <1>1, <1>5 DEF LoopInv, WindowKept
<1>11. FailureDetaches'
  BY <1>1, <1>2, <1>3 DEF LoopInv, FailureDetaches
<1> QED
  BY <1>6, <1>7, <1>8, <1>9, <1>10, <1>11

-----------------------------------------------------------------------------
LEMMA LoopInitInv == LoopInit => LoopInv
<1> SUFFICES ASSUME LoopInit PROVE LoopInv
  OBVIOUS
<1>1. KernelTypeOK
  BY LoopAssumption DEF LoopInit, KernelTypeOK
<1>2. ThreadTypeOK
  <2>1. NoStatus \in Statuses
    BY LoopAssumption DEF NoStatus, Statuses
  <2> QED
    BY <2>1 DEF LoopInit, ThreadTypeOK, LoopLabels
<1>3. CallTypeOK
  BY LoopAssumption DEF LoopInit, CallTypeOK, LoopEnds
<1>4. OpenInv /\ CallsInv /\ BoundInv /\ NamedInv /\ StatusInv
  <2>1. \A c \in LoopCalls : NoCall # c
    BY LoopAssumption DEF LoopCalls
  <2> QED
    BY <2>1 DEF LoopInit, OpenInv, CallsInv, BoundInv, NamedInv, StatusInv, HasDevice, HasOpen
<1>5. OwnDevice /\ WindowKept /\ FailureDetaches
  BY DEF LoopInit, OwnDevice, WindowKept, FailureDetaches, Configuring, Known
<1> QED
  BY <1>1, <1>2, <1>3, <1>4, <1>5 DEF LoopInv, LoopTypeOK

LEMMA LoopStepInv == LoopInv /\ [LoopNext]_lvars => LoopInv'
<1> SUFFICES ASSUME LoopInv, [LoopNext]_lvars PROVE LoopInv'
  OBVIOUS
<1>1. LoopTypeOK' /\ OpenInv' /\ CallsInv'
  BY LoopTypeStep, OpenStep, CallsStep
<1>2. ASSUME NEW t \in LoopUsers, LoopStep(t) PROVE LoopInv'
  BY <1>1, <1>2, BoundStep, NamedStep, StatusStep, OwnStep, WindowStep, FailureStep DEF LoopInv
<1>3. ASSUME NEW t \in LoopUsers, Begins(t) PROVE LoopInv'
  BY <1>1, <1>3, BeginStep DEF LoopInv
<1>4. ASSUME NEW d \in Devices, UdevOpen(d) \/ UdevClose(d) PROVE LoopInv'
  BY <1>1, <1>4, UdevStep DEF LoopInv
<1>5. CASE UNCHANGED lvars
  <2>1. \A t \in LoopUsers : LoopCall(t)' = LoopCall(t) /\ Asked(t)' = Asked(t)
    BY <1>5, CallsKept DEF lvars, Asked
  <2>2. BoundInv' /\ NamedInv' /\ StatusInv'
    BY <1>5, <2>1 DEF lvars, LoopInv, BoundInv, NamedInv, StatusInv, Configuring, Known
  <2>3. OwnDevice' /\ WindowKept' /\ FailureDetaches'
    BY <1>5, <2>1 DEF lvars, LoopInv, OwnDevice, WindowKept, FailureDetaches, Configuring, Known
  <2> QED
    BY <1>1, <2>2, <2>3 DEF LoopInv
<1> QED
  BY <1>2, <1>3, <1>4, <1>5 DEF LoopNext, Begins

\* LoopInv holds in every state of the threads that use the loop plugin.
THEOREM LoopInvCorrect == LoopSpec => []LoopInv
  BY LoopInitInv, LoopStepInv, PTL DEF LoopSpec

\* The device that bd_loop_setup_from_fd configures, clears or returns is one
\* it has attached itself, for any number of threads that get the same free
\* device.
THEOREM OwnDeviceCorrect == LoopSpec => []OwnDevice
<1>1. LoopInv => OwnDevice
  BY DEF LoopInv
<1> QED
  BY <1>1, LoopInvCorrect, PTL

\* A device set up with an offset starts there, whatever status a concurrent
\* bd_loop_set_autoclear writes back and however often the device is torn down
\* and set up meanwhile, unless that call read the status in the middle of the
\* very setup.
THEOREM WindowKeptCorrect == LoopSpec => []WindowKept
<1>1. LoopInv => WindowKept
  BY DEF LoopInv
<1> QED
  BY <1>1, LoopInvCorrect, PTL

\* A bd_loop_setup_from_fd that failed leaves its file attached to no device,
\* except one that udev or another thread has open and that the last close
\* detaches, or one whose status somebody read, to change its flags, who did
\* not wait for the setup to succeed.
THEOREM FailureDetachesCorrect == LoopSpec => []FailureDetaches
<1>1. LoopInv => FailureDetaches
  BY DEF LoopInv
<1> QED
  BY <1>1, LoopInvCorrect, PTL
=============================================================================
