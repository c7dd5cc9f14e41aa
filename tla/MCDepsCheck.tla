---------------------------- MODULE MCDepsCheck ----------------------------
(***************************************************************************)
(* Instances of DepsCheck: the masks a plugin with two dependencies of a   *)
(* kind is asked about, one of them or both.                               *)
(***************************************************************************)
EXTENDS DepsCheck

CONSTANTS t1, t2

MCRequests == {{0}, {0, 1}}
=============================================================================
