------------------------------ MODULE LeaseRow ------------------------------
(***************************************************************************)
(* One row of hosted_agent_leases, and the guarded statements               *)
(* PostgresDurableState runs on it under the lease lock                     *)
(* (src/e2b/src/postgres-state.ts, src/e2b/src/db/queries/lifecycle.sql).   *)
(* A lease keeps its provider sandbox for life, so the row is its state and *)
(* its connection generation.                                               *)
(***************************************************************************)
EXTENDS Naturals

LeaseStates == {"active", "paused", "release_pending", "released", "lost", "failed"}

Lease == [state : LeaseStates, generation : Nat]

NewLease == [state |-> "active", generation |-> 0]

(* Mutant: any lease with a sandbox may be reconnected. *)
MutReconnectable(l) == l.state # "released"

Reconnectable(l) == l.state \in {"active", "paused"}

(* unavailableLease: a reconnect of such a lease answers 404, not 409. *)
Missing(l) == l.state \in {"release_pending", "released", "lost"}

(* Mutant: a state the lease table does not know. *)
MutBegunRelease(l) ==
  IF l.state = "released" THEN l ELSE [l EXCEPT !.state = "releasing"]

(* beginRelease *)
BegunRelease(l) ==
  IF l.state = "released" THEN l ELSE [l EXCEPT !.state = "release_pending"]

(* releaseLease of a release that was begun. *)
CompletedRelease(l) == [l EXCEPT !.state = "released"]

(* completeReconnect *)
CompletedReconnect(l) == [state |-> "active", generation |-> l.generation + 1]

(* rotateReconnectReplayAccess, of an active lease. *)
RotatedAccess(l) == [l EXCEPT !.generation = @ + 1]

(* markLeaseLost *)
MarkedLost(l) ==
  IF l.state = "lost" THEN l ELSE [state |-> "lost", generation |-> l.generation + 1]

(* The least generation a connection may have after a commit left row l. *)
Barrier(l) == IF l.state = "active" THEN l.generation ELSE l.generation + 1
=============================================================================
