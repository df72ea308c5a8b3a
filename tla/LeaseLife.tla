------------------------------ MODULE LeaseLife ------------------------------
(***************************************************************************)
(* What the control plane promises about a lease, whoever is asked and in   *)
(* whatever order: its generation only grows, it is lost only when its      *)
(* sandbox is, a begun release is never undone, and a released lease has no *)
(* sandbox left.  LeaseAccess and ReleaseLifecycle implement it.            *)
(***************************************************************************)
EXTENDS LeaseRow

VARIABLES lease, sandbox

Init == lease = NewLease /\ sandbox = "running"

Reconnect ==
  /\ lease.state \in {"active", "paused"} /\ sandbox = "running"
  /\ lease' = [state |-> "active", generation |-> lease.generation + 1]
  /\ UNCHANGED sandbox

RotateAccess ==
  /\ lease.state = "active"
  /\ lease' = [lease EXCEPT !.generation = @ + 1]
  /\ UNCHANGED sandbox

Lose ==
  /\ lease.state \in {"active", "paused"} /\ sandbox = "gone"
  /\ lease' = [state |-> "lost", generation |-> lease.generation + 1]
  /\ UNCHANGED sandbox

BeginRelease ==
  /\ lease.state \in {"active", "paused", "lost", "failed"}
  /\ lease' = [lease EXCEPT !.state = "release_pending"]
  /\ UNCHANGED sandbox

FinishRelease ==
  /\ lease.state = "release_pending" /\ sandbox = "gone"
  /\ lease' = [lease EXCEPT !.state = "released"]
  /\ UNCHANGED sandbox

SandboxEnds == sandbox = "running" /\ sandbox' = "gone" /\ UNCHANGED lease

Next == \/ Reconnect \/ RotateAccess \/ Lose \/ BeginRelease \/ FinishRelease
        \/ SandboxEnds

Spec == Init /\ [][Next]_<<lease, sandbox>>
=============================================================================
