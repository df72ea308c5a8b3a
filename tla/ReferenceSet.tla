----------------------------- MODULE ReferenceSet -----------------------------
(***************************************************************************)
(* The durable reference set the service keeps per agent                    *)
(* (postgres-reference-retention.ts): what the Codex thread of that agent   *)
(* wants kept alive, under a revision that fences stale writers, and the    *)
(* permanent clear of a deleted thread.  Each operation is one transaction  *)
(* under the agent's advisory lock, so each is one operator here.           *)
(***************************************************************************)
EXTENDS Naturals

(* A row; rev = 0 means there is none.  want carries the lease it names;    *)
(* rooted says whether its codex_thread roots exist.                        *)
References(rev, want) == [rev |-> rev, want |-> want, cleared |-> FALSE, rooted |-> rev > 0]

(* Mutant: a tombstone does not refuse. *)
MutRetainAccepted(row, want, expected) ==
  IF row.rev = 0 THEN expected = 0
  ELSE expected <= row.rev /\ (row.want = want \/ expected = row.rev)

(* Mutant: any writer may move the set forward. *)
MutUnfenced(row, want, expected) == ~row.cleared

(* retain: the fence.  expected = 0 is a null expectedRevision. *)
RetainAccepted(row, want, expected) ==
  /\ ~row.cleared
  /\ IF row.rev = 0 THEN expected = 0
     ELSE expected <= row.rev /\ (row.want = want \/ expected = row.rev)

Retained(row, want) ==
  [row EXCEPT !.rev = IF row.rev > 0 /\ row.want = want THEN @ ELSE @ + 1,
              !.want = want, !.rooted = TRUE]

(* clear: a lease it does not name, a future revision, or a stale one on a  *)
(* set not yet cleared, is refused; an exact or stale replay succeeds.      *)
ClearAccepted(row, lease, expected) ==
  /\ row.rev > 0 /\ row.want.lease = lease
  /\ expected <= row.rev
  /\ row.cleared \/ expected = row.rev

Cleared(row) ==
  [row EXCEPT !.rev = IF row.cleared THEN @ ELSE @ + 1, !.cleared = TRUE, !.rooted = FALSE]
===============================================================================
