---------------------------- MODULE MCLvmConfig ----------------------------
(***************************************************************************)
(* Instances of LvmConfig: every operation, each with the arguments that   *)
(* make a difference to it.                                                *)
(***************************************************************************)
EXTENDS LvmConfig

CONSTANTS t1, t2

Plain(o) ==
    [op |-> o, config |-> NULL, devices |-> NULL, policy |-> NULL,
     section |-> TRUE, global_config |-> TRUE]

MCCalls ==
    {Plain(o) : o \in Ops \ {"vdo"}}
      \cup {[Plain("set_config") EXCEPT !.config = c] : c \in Configs}
      \cup {[Plain("set_devices") EXCEPT !.devices = d] : d \in Devices}
      \cup {[Plain("vdo") EXCEPT !.policy = p] : p \in Policies}
      \cup {[Plain("config_get") EXCEPT !.section = FALSE]}
=============================================================================
