----------------------------- MODULE JournalRow -----------------------------
(***************************************************************************)
(* One row of hosted_agent_operations, and the guarded UPDATE statements    *)
(* PostgresJournal runs on it (src/e2b/src/postgres-store.ts and            *)
(* src/e2b/src/db/queries/journal.sql).  The row is keyed by (operation,    *)
(* idempotency key); the modules that use it keep a function from keys to   *)
(* rows.  The heartbeat timestamp is abstracted to what the code reads of   *)
(* it: whether it is younger than the reconciler's stale bound.             *)
(***************************************************************************)
EXTENDS Naturals

CONSTANTS
  Requests,   \* canonical request hashes a client may send with a key
  Workers,    \* configured worker IDs (several handlers may share one)
  Responses,  \* logical responses a completed operation may store
  None        \* the SQL NULL

ASSUME NoneAssumption == None \notin Requests \cup Workers \cup Responses

(* What a terminal row answers: the stored response, or the stored error. *)
Failure  == "failed"
Outcomes == Responses \cup {Failure}

ASSUME FailureAssumption == Failure \notin Responses /\ None # Failure

RowStates == {"absent", "in_progress", "succeeded", "failed_terminal"}

Row == [state      : RowStates,
        hash       : Requests \cup {None},
        worker     : Workers \cup {None},
        generation : Nat,
        heartbeat  : {"fresh", "stale"},
        outcome    : Outcomes \cup {None}]

AbsentRow == [state |-> "absent", hash |-> None, worker |-> None,
              generation |-> 0, heartbeat |-> "stale", outcome |-> None]

(* Mutant: the claim stores the request where the worker belongs. *)
MutClaimedRow(w, q) == [state |-> "in_progress", hash |-> w, worker |-> q,
                        generation |-> 0, heartbeat |-> "fresh", outcome |-> None]

(* INSERT ... ON CONFLICT DO NOTHING of a claim nobody made before. *)
ClaimedRow(w, q) == [state |-> "in_progress", hash |-> q, worker |-> w,
                     generation |-> 0, heartbeat |-> "fresh", outcome |-> None]

InProgress(row) == row.state = "in_progress"
Terminal(row)   == row.state \in {"succeeded", "failed_terminal"}

(* The fence of every guarded statement: generation, worker and state. *)
Owns(row, w, g) == InProgress(row) /\ row.generation = g /\ row.worker = w

HeartbeatRow(row) == [row EXCEPT !.heartbeat = "fresh"]

AgedRow(row) == [row EXCEPT !.heartbeat = "stale"]

(* Mutant: a takeover that keeps the generation. *)
MutTakenOverRow(row, w) == [row EXCEPT !.worker = w, !.heartbeat = "fresh"]

(* claimStaleOperations: the next generation belongs to the new worker. *)
TakenOverRow(row, w) ==
  [row EXCEPT !.generation = row.generation + 1, !.worker = w, !.heartbeat = "fresh"]

(* Mutant: a decision that stores the response but not the state. *)
MutTerminalRow(row, v) == [row EXCEPT !.heartbeat = "fresh", !.outcome = v]

(* completeOperation and failOperation, by the outcome they store. *)
TerminalRow(row, v) ==
  [row EXCEPT !.state = IF v = Failure THEN "failed_terminal" ELSE "succeeded",
              !.heartbeat = "fresh", !.outcome = v]
=============================================================================
