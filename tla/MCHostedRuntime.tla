---------------------------- MODULE MCHostedRuntime ----------------------------
(* Instances of HostedRuntime. *)
EXTENDS HostedRuntime
===============================================================================
