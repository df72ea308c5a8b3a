-------------------------- MODULE IdempotentOutcome --------------------------
(***************************************************************************)
(* What the operation journal promises its clients: a key is bound to the   *)
(* first request that used it and is decided at most once.  Every answer    *)
(* given for it is that decision, or a conflict for another request, but    *)
(* for one: the call that claimed the key may report a failure that is not  *)
(* recorded, once, and the decision may still turn out otherwise.           *)
(***************************************************************************)
CONSTANTS Keys, Requests, Outcomes, Failure, None, Conflict

VARIABLES
  bound,    \* the request a key belongs to
  outcome,  \* the decision of a key
  told,     \* the answers clients have received for a key
  reported  \* the keys whose claimant reported an unrecorded failure

vars == <<bound, outcome, told, reported>>

Init ==
  /\ bound    = [k \in Keys |-> None]
  /\ outcome  = [k \in Keys |-> None]
  /\ told     = [k \in Keys |-> {}]
  /\ reported = {}

Bind(k, q) ==
  /\ bound[k] = None
  /\ bound' = [bound EXCEPT ![k] = q]
  /\ UNCHANGED <<outcome, told, reported>>

Decide(k, v) ==
  /\ bound[k] # None
  /\ outcome[k] = None
  /\ outcome' = [outcome EXCEPT ![k] = v]
  /\ UNCHANGED <<bound, told, reported>>

Tell(k) ==
  /\ outcome[k] # None
  /\ told' = [told EXCEPT ![k] = @ \cup {<<bound[k], outcome[k]>>}]
  /\ UNCHANGED <<bound, outcome, reported>>

Refuse(k, q) ==
  /\ bound[k] # None
  /\ q # bound[k]
  /\ told' = [told EXCEPT ![k] = @ \cup {<<q, Conflict>>}]
  /\ UNCHANGED <<bound, outcome, reported>>

Report(k) ==
  /\ bound[k] # None
  /\ k \notin reported
  /\ reported' = reported \cup {k}
  /\ told' = [told EXCEPT ![k] = @ \cup {<<bound[k], Failure>>}]
  /\ UNCHANGED <<bound, outcome>>

Next == \E k \in Keys :
  \/ \E q \in Requests : Bind(k, q) \/ Refuse(k, q)
  \/ \E v \in Outcomes : Decide(k, v)
  \/ Tell(k) \/ Report(k)

Spec == Init /\ [][Next]_vars
=============================================================================
