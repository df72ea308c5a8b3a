--------------------------- MODULE MCLeaseAccess ---------------------------
(* Two replicas, each with a request handler; the reconciler runs beside    *)
(* the second.                                                              *)
EXTENDS LeaseAccess, TLC

CONSTANTS r1, r2, h1, h2, rec, x1, x2

MCHome == [w \in Coordinators \cup Reconcilers |-> IF w = h1 THEN r1 ELSE r2]

Symmetry == Permutations({x1, x2})
=============================================================================
