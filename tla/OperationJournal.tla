-------------------------- MODULE OperationJournal --------------------------
(***************************************************************************)
(* The multi-replica operation journal: PostgresJournal and the protocol    *)
(* every coordinator and reconciler runs on it.  A handler is one running   *)
(* call of a coordinator or one operation of a reconciler pass.  Handlers   *)
(* crash, stall past the stale bound, and lose the acknowledgement of the   *)
(* transaction that decides an operation; the row lock that transaction     *)
(* holds outlives the client that sent it.  A coordinator that fails        *)
(* answers its client with the failure even when it could not record it.    *)
(***************************************************************************)
EXTENDS JournalRow

CONSTANTS
  Keys,           \* idempotency keys of one operation kind
  Handlers,
  WorkerOf,       \* the worker ID each handler runs under
  MaxGeneration   \* bound on takeovers

ASSUME WorkerAssumption == WorkerOf \in [Handlers -> Workers]
ASSUME GenerationAssumption == MaxGeneration \in Nat

Conflict == "conflict"
Answers  == Outcomes \cup {Conflict}

ASSUME ConflictAssumption == Conflict \notin Responses

VARIABLES
  ops,      \* the journal rows
  deciding, \* an undelivered deciding transaction that holds the row lock
  handler,  \* what each handler is doing
  told,     \* history: the answers clients received
  reported  \* history: the keys a coordinator answered with an unrecorded failure

journalVars == <<ops, deciding, handler, told, reported>>

HandlerStates == {"idle", "waiting", "owner", "deciding", "failing", "recovering"}
Decision      == [outcome : Outcomes, generation : Nat]
Idle          == [pc |-> "idle", key |-> None, request |-> None, generation |-> 0]
HandlerRecord == [pc         : HandlerStates,
                  key        : Keys \cup {None},
                  request    : Requests \cup {None},
                  generation : Nat]

(* A handler that still believes it owns its operation. *)
Holding(h) == handler[h].pc \in {"owner", "deciding", "failing", "recovering"}

(* The call that inserted the row; a takeover has a later generation. *)
Claimant(h) == handler[h].generation = 0

OwnsRow(h) ==
  Owns(ops[handler[h].key], WorkerOf[h], handler[h].generation)

Unlocked(k) == deciding[k] = None

Become(h, pc) == handler' = [handler EXCEPT ![h].pc = pc]
Leave(h)      == handler' = [handler EXCEPT ![h] = Idle]
Tell(k, q, a) == told' = [told EXCEPT ![k] = @ \cup {<<q, a>>}]

-----------------------------------------------------------------------------
(* claimOperation: one transaction of INSERT and SELECT ... FOR UPDATE, so  *)
(* it waits for a transaction that holds the row.                           *)

ClaimInserted(h, k, q) ==
  /\ handler[h].pc = "idle"
  /\ ops[k].state = "absent"
  /\ ops' = [ops EXCEPT ![k] = ClaimedRow(WorkerOf[h], q)]
  /\ handler' = [handler EXCEPT ![h] =
       [pc |-> "owner", key |-> k, request |-> q, generation |-> 0]]
  /\ UNCHANGED <<deciding, told, reported>>

ClaimMismatch(h, k, q) ==
  /\ handler[h].pc = "idle" /\ Unlocked(k)
  /\ ops[k].state # "absent" /\ ops[k].hash # q
  /\ Tell(k, q, Conflict)
  /\ UNCHANGED <<ops, deciding, handler, reported>>

ClaimReplayed(h, k, q) ==
  /\ handler[h].pc = "idle" /\ Unlocked(k)
  /\ Terminal(ops[k]) /\ ops[k].hash = q
  /\ Tell(k, q, ops[k].outcome)
  /\ UNCHANGED <<ops, deciding, handler, reported>>

ClaimInProgress(h, k, q) ==
  /\ handler[h].pc = "idle" /\ Unlocked(k)
  /\ InProgress(ops[k]) /\ ops[k].hash = q
  /\ handler' = [handler EXCEPT ![h] =
       [pc |-> "waiting", key |-> k, request |-> q, generation |-> 0]]
  /\ UNCHANGED <<ops, deciding, told, reported>>

(* waitForTerminal: a plain SELECT, never blocked, until the deadline. *)
WaitObserved(h) ==
  LET k == handler[h].key IN
  /\ handler[h].pc = "waiting"
  /\ Terminal(ops[k])
  /\ Tell(k, handler[h].request, ops[k].outcome)
  /\ Leave(h)
  /\ UNCHANGED <<ops, deciding, reported>>

WaitTimeout(h) ==
  /\ handler[h].pc = "waiting"
  /\ ~Terminal(ops[handler[h].key])
  /\ Leave(h)
  /\ UNCHANGED <<ops, deciding, told, reported>>

-----------------------------------------------------------------------------
(* The owner's side. *)

Heartbeat(h) ==
  LET k == handler[h].key IN
  /\ handler[h].pc = "owner" /\ Unlocked(k)
  /\ IF OwnsRow(h)
       THEN ops' = [ops EXCEPT ![k] = HeartbeatRow(@)] /\ UNCHANGED handler
       ELSE Leave(h) /\ UNCHANGED ops
  /\ UNCHANGED <<deciding, told, reported>>

(* The guarded terminal UPDATE of completeOperation or failOperation has    *)
(* run inside its transaction.                                              *)
DecideStatement(h, v) ==
  LET k == handler[h].key IN
  /\ handler[h].pc = "owner" /\ Unlocked(k) /\ OwnsRow(h)
  /\ deciding' = [deciding EXCEPT ![k] =
       [outcome |-> v, generation |-> handler[h].generation]]
  /\ Become(h, IF v = Failure THEN "failing" ELSE "deciding")
  /\ UNCHANGED <<ops, told, reported>>

(* The fence refuses the final transaction of an owner that was superseded. *)
CompletionRefused(h) ==
  /\ handler[h].pc = "owner" /\ Unlocked(handler[h].key) /\ ~OwnsRow(h)
  /\ Become(h, "recovering")
  /\ UNCHANGED <<ops, deciding, told, reported>>

(* failOperation(...).catch(() => undefined); throw failure: the statement  *)
(* was refused by the fence, never arrived, or has an unknown outcome, and  *)
(* the client is answered all the same.                                     *)
FailureSwallowed(h) ==
  LET k == handler[h].key IN
  /\ handler[h].pc \in {"owner", "failing"} /\ Claimant(h)
  /\ Tell(k, handler[h].request, Failure)
  /\ reported' = reported \cup {k}
  /\ Leave(h)
  /\ UNCHANGED <<ops, deciding>>

DatabaseCommits(k) ==
  /\ deciding[k] # None
  /\ ops' = [ops EXCEPT ![k] = TerminalRow(@, deciding[k].outcome)]
  /\ deciding' = [deciding EXCEPT ![k] = None]
  /\ UNCHANGED <<handler, told, reported>>

DatabaseRollsBack(k) ==
  /\ deciding[k] # None
  /\ deciding' = [deciding EXCEPT ![k] = None]
  /\ UNCHANGED <<ops, handler, told, reported>>

CommitAcknowledged(h) ==
  LET k == handler[h].key IN
  /\ handler[h].pc \in {"deciding", "failing"} /\ Unlocked(k) /\ Terminal(ops[k])
  /\ ops[k].generation = handler[h].generation
  /\ Tell(k, handler[h].request, ops[k].outcome)
  /\ Leave(h)
  /\ UNCHANGED <<ops, deciding, reported>>

(* The transaction call throws: rolled back, or committed and the           *)
(* acknowledgement lost, or still unresolved in the database.  A reconnect  *)
(* recovers the transaction of its failure too.                             *)
CommitUncertain(h) ==
  /\ handler[h].pc \in {"deciding", "failing"}
  /\ Become(h, "recovering")
  /\ UNCHANGED <<ops, deciding, told, reported>>

(* recoverCommitOutcome: claim the same key again, then heartbeat.  Only a  *)
(* reconnect answers with a failure it finds recorded.                      *)
RecoverCommitOutcome(h) ==
  LET k == handler[h].key IN
  /\ handler[h].pc = "recovering" /\ Unlocked(k)
  /\ \/ /\ Terminal(ops[k])
        /\ Tell(k, handler[h].request, ops[k].outcome)
        /\ Leave(h) /\ UNCHANGED ops
     \/ /\ ops[k].state # "succeeded" /\ OwnsRow(h)
        /\ ops' = [ops EXCEPT ![k] = HeartbeatRow(@)]
        /\ Become(h, "owner") /\ UNCHANGED told
     \/ /\ ops[k].state # "succeeded" /\ ~OwnsRow(h)
        /\ Leave(h) /\ UNCHANGED <<ops, told>>
  /\ UNCHANGED <<deciding, reported>>

(* The process dies, or the call gives up and answers 503 (cleanup pending, *)
(* still in progress), which says nothing about the outcome.                *)
HandlerCrash(h) ==
  /\ handler[h].pc # "idle"
  /\ Leave(h)
  /\ UNCHANGED <<ops, deciding, told, reported>>

-----------------------------------------------------------------------------
(* The stale bound passes without a heartbeat. *)
HeartbeatAges(k) ==
  /\ InProgress(ops[k]) /\ ops[k].heartbeat = "fresh"
  /\ ops' = [ops EXCEPT ![k] = AgedRow(@)]
  /\ UNCHANGED <<deciding, handler, told, reported>>

(* Mutant: a takeover that does not wait for the row lock. *)
MutClaimStaleOperation(h, k) ==
  /\ handler[h].pc = "idle"
  /\ InProgress(ops[k]) /\ ops[k].heartbeat = "stale"
  /\ ops[k].generation < MaxGeneration
  /\ ops' = [ops EXCEPT ![k] = TakenOverRow(@, WorkerOf[h])]
  /\ handler' = [handler EXCEPT ![h] =
       [pc |-> "owner", key |-> k, request |-> ops[k].hash,
        generation |-> ops'[k].generation]]
  /\ UNCHANGED <<deciding, told, reported>>

(* claimStaleOperations: FOR UPDATE SKIP LOCKED, so never a locked row. *)
ClaimStaleOperation(h, k) ==
  /\ handler[h].pc = "idle" /\ Unlocked(k)
  /\ InProgress(ops[k]) /\ ops[k].heartbeat = "stale"
  /\ ops[k].generation < MaxGeneration
  /\ ops' = [ops EXCEPT ![k] = TakenOverRow(@, WorkerOf[h])]
  /\ handler' = [handler EXCEPT ![h] =
       [pc |-> "owner", key |-> k, request |-> ops[k].hash,
        generation |-> ops'[k].generation]]
  /\ UNCHANGED <<deciding, told, reported>>

-----------------------------------------------------------------------------
JournalInit ==
  /\ ops      = [k \in Keys |-> AbsentRow]
  /\ deciding = [k \in Keys |-> None]
  /\ handler  = [h \in Handlers |-> Idle]
  /\ told     = [k \in Keys |-> {}]
  /\ reported = {}

ClaimOperation(h) == \E k \in Keys, q \in Requests :
  \/ ClaimInserted(h, k, q)
  \/ ClaimMismatch(h, k, q)
  \/ ClaimReplayed(h, k, q)
  \/ ClaimInProgress(h, k, q)

WaitForTerminal(h) == WaitObserved(h) \/ WaitTimeout(h)

OwnerStep(h) ==
  \/ Heartbeat(h)
  \/ \E v \in Outcomes : DecideStatement(h, v)
  \/ CompletionRefused(h)
  \/ FailureSwallowed(h)
  \/ CommitAcknowledged(h)
  \/ CommitUncertain(h)
  \/ RecoverCommitOutcome(h)

JournalNext ==
  \/ \E h \in Handlers :
       \/ ClaimOperation(h)
       \/ WaitForTerminal(h)
       \/ OwnerStep(h)
       \/ HandlerCrash(h)
       \/ \E k \in Keys : ClaimStaleOperation(h, k)
  \/ \E k \in Keys :
       DatabaseCommits(k) \/ DatabaseRollsBack(k) \/ HeartbeatAges(k)

JournalSpec == JournalInit /\ [][JournalNext]_journalVars

-----------------------------------------------------------------------------
(* The variables hold values of their types. *)
JournalTypeOK ==
  /\ ops \in [Keys -> Row]
  /\ deciding \in [Keys -> Decision \cup {None}]
  /\ handler \in [Handlers -> HandlerRecord]
  /\ told \in [Keys -> SUBSET (Requests \X Answers)]
  /\ reported \subseteq Keys

(* No two running handlers can both pass the fence of one operation, even   *)
(* when they share a worker ID: heartbeat, complete and fail of a           *)
(* superseded owner can never succeed beside those of its successor.        *)
SingleOwner ==
  \A g, h \in Handlers :
    /\ g # h /\ Holding(g) /\ Holding(h)
    /\ handler[g].key = handler[h].key
    => ~(OwnsRow(g) /\ OwnsRow(h))

(* A deciding transaction whose fence has been checked still decides its    *)
(* own generation when the database commits it, however late that is.       *)
DecisionIsCurrent ==
  \A k \in Keys : deciding[k] # None =>
    /\ InProgress(ops[k])
    /\ ops[k].generation = deciding[k].generation

(* The inductive strengthening of the three invariants above.               *)
RowsConsistent ==
  \A k \in Keys :
    /\ ops[k].hash = None <=> ops[k].state = "absent"
    /\ ops[k].outcome = None <=> ~Terminal(ops[k])

HandlersConsistent ==
  \A h \in Handlers : handler[h].pc # "idle" =>
    /\ handler[h].key \in Keys
    /\ ops[handler[h].key].state # "absent"
    /\ handler[h].request = ops[handler[h].key].hash
    /\ Holding(h) => handler[h].generation <= ops[handler[h].key].generation

FencesUnique ==
  \A g, h \in Handlers :
    /\ g # h /\ Holding(g) /\ Holding(h)
    /\ handler[g].key = handler[h].key
    => handler[g].generation # handler[h].generation

ReportsFinal ==
  \A k \in reported :
    /\ ops[k].state # "absent"
    /\ \A h \in Handlers : Holding(h) /\ handler[h].key = k => ~Claimant(h)

(* Rows carry a request and an outcome exactly when their state says so,    *)
(* running handlers serve the request their row is bound to and never hold  *)
(* a generation the row has not reached, no generation is handed to two     *)
(* running handlers, and the claimant that reported an unrecorded failure   *)
(* is gone.                                                                 *)
JournalInvariant ==
  /\ JournalTypeOK
  /\ DecisionIsCurrent
  /\ RowsConsistent
  /\ HandlersConsistent
  /\ FencesUnique
  /\ ReportsFinal

(* The journal implements one agreed outcome per idempotency key: whatever  *)
(* the replicas, takeovers and lost acknowledgements, every answer is the   *)
(* recorded decision or a conflict, except that the call which claimed the  *)
(* key may report, once, a failure it did not get recorded.                 *)
Outcome == INSTANCE IdempotentOutcome WITH
  bound   <- [k \in Keys |-> ops[k].hash],
  outcome <- [k \in Keys |-> ops[k].outcome]

AgreedOutcome == Outcome!Spec
=============================================================================
