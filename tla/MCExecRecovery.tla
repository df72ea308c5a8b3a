---------------------------- MODULE MCExecRecovery ----------------------------
(* Instances of ExecRecovery. *)
EXTENDS ExecRecovery
===============================================================================
