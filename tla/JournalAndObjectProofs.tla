---------------------- MODULE JournalAndObjectProofs ----------------------
(***************************************************************************)
(* TLAPS proofs about the two components whose durable state is theirs      *)
(* alone: the operation journal, for every set of keys, requests, handlers  *)
(* and workers and every assignment of worker IDs, and the                  *)
(* content-addressed objects, for every set of preparations, uploads and    *)
(* locations, whichever objects share a location.                           *)
(***************************************************************************)
EXTENDS OperationJournal, ObjectLifecycle, TLAPS

-----------------------------------------------------------------------------
(* The operation journal.                                                   *)

(* One step per action: the disjuncts of JournalNext, for the proofs below. *)
LEMMA JournalCases ==
  ASSUME JournalNext
  PROVE  \/ \E h \in Handlers, k \in Keys, q \in Requests :
              \/ ClaimInserted(h, k, q) \/ ClaimMismatch(h, k, q)
              \/ ClaimReplayed(h, k, q) \/ ClaimInProgress(h, k, q)
         \/ \E h \in Handlers :
              \/ WaitObserved(h) \/ WaitTimeout(h) \/ Heartbeat(h)
              \/ CompletionRefused(h) \/ FailureSwallowed(h)
              \/ CommitAcknowledged(h) \/ CommitUncertain(h)
              \/ RecoverCommitOutcome(h) \/ HandlerCrash(h)
         \/ \E h \in Handlers, v \in Outcomes : DecideStatement(h, v)
         \/ \E h \in Handlers, k \in Keys : ClaimStaleOperation(h, k)
         \/ \E k \in Keys :
              DatabaseCommits(k) \/ DatabaseRollsBack(k) \/ HeartbeatAges(k)
  BY DEF JournalNext, ClaimOperation, WaitForTerminal, OwnerStep

(* The guarded statements of PostgresJournal map rows to rows. *)
LEMMA RowUpdates ==
  ASSUME NEW row \in Row, NEW w \in Workers, NEW q \in Requests, NEW v \in Outcomes
  PROVE  /\ ClaimedRow(w, q) \in Row
         /\ HeartbeatRow(row) \in Row
         /\ AgedRow(row) \in Row
         /\ TakenOverRow(row, w) \in Row
         /\ TerminalRow(row, v) \in Row
<1>1. ClaimedRow(w, q) \in Row
  BY DEF Row, RowStates, ClaimedRow
<1>2. HeartbeatRow(row) \in Row /\ AgedRow(row) \in Row
  BY DEF Row, RowStates, HeartbeatRow, AgedRow
<1>3. TakenOverRow(row, w) \in Row
  <2>1. row.generation + 1 \in Nat
    BY DEF Row
  <2> QED
    BY <2>1 DEF Row, TakenOverRow
<1>4. TerminalRow(row, v) \in Row
  BY DEF Row, RowStates, TerminalRow
<1> QED
  BY <1>1, <1>2, <1>3, <1>4

(* The initial state satisfies the invariant. *)
LEMMA JournalStarts == JournalInit => JournalInvariant
<1> SUFFICES ASSUME JournalInit PROVE JournalInvariant
  OBVIOUS
<1> USE DEF JournalInit
<1>1. AbsentRow \in Row
  BY DEF AbsentRow, Row, RowStates
<1>2. Idle \in HandlerRecord
  BY DEF Idle, HandlerRecord, HandlerStates
<1>3. JournalTypeOK
  BY <1>1, <1>2 DEF JournalTypeOK
<1>4. \A h \in Handlers : handler[h].pc = "idle" /\ ~Holding(h)
  BY DEF Idle, Holding
<1>5. RowsConsistent
  BY DEF RowsConsistent, AbsentRow, Terminal
<1> QED
  BY <1>3, <1>4, <1>5
     DEF JournalInvariant, DecisionIsCurrent, HandlersConsistent, FencesUnique,
         ReportsFinal

(* The three ways a handler record changes keep its type: it leaves, it     *)
(* moves to another state, or it starts on an operation.                    *)
LEMMA HandlerLeaves ==
  ASSUME JournalTypeOK, NEW h \in Handlers
  PROVE  [handler EXCEPT ![h] = Idle] \in [Handlers -> HandlerRecord]
<1>1. Idle \in HandlerRecord
  BY DEF Idle, HandlerRecord, HandlerStates
<1> QED
  BY <1>1 DEF JournalTypeOK

LEMMA HandlerBecomes ==
  ASSUME JournalTypeOK, NEW h \in Handlers, NEW pc \in HandlerStates
  PROVE  [handler EXCEPT ![h].pc = pc] \in [Handlers -> HandlerRecord]
<1>1. [handler[h] EXCEPT !.pc = pc] \in HandlerRecord
  BY DEF JournalTypeOK, HandlerRecord
<1> QED
  BY <1>1 DEF JournalTypeOK

LEMMA HandlerStarts ==
  ASSUME JournalTypeOK, NEW h \in Handlers, NEW pc \in HandlerStates,
         NEW k \in Keys, NEW q \in Requests \cup {None}, NEW g \in Nat
  PROVE  [handler EXCEPT ![h] = [pc |-> pc, key |-> k, request |-> q, generation |-> g]]
           \in [Handlers -> HandlerRecord]
<1>1. [pc |-> pc, key |-> k, request |-> q, generation |-> g] \in HandlerRecord
  BY DEF HandlerRecord
<1> QED
  BY <1>1 DEF JournalTypeOK

(* Every step of the journal keeps its variables well typed. *)
LEMMA TypeStep ==
  ASSUME JournalInvariant, [JournalNext]_journalVars
  PROVE  JournalTypeOK'
<1> USE DEF JournalInvariant
<1>1. ASSUME NEW h \in Handlers, NEW k \in Keys, NEW q \in Requests,
             ClaimInserted(h, k, q)
      PROVE  JournalTypeOK'
  <2>1. ClaimedRow(WorkerOf[h], q) \in Row
    BY WorkerAssumption, RowUpdates DEF ClaimedRow, Row, RowStates
  <2> QED
    BY <1>1, <2>1, HandlerStarts DEF ClaimInserted, JournalTypeOK, HandlerStates
<1>2. ASSUME NEW h \in Handlers, NEW k \in Keys, NEW q \in Requests,
             ClaimMismatch(h, k, q) \/ ClaimReplayed(h, k, q)
      PROVE  JournalTypeOK'
  <2>1. Terminal(ops[k]) => ops[k].outcome \in Answers
    BY DEF JournalTypeOK, RowsConsistent, Answers, Row
  <2>2. Conflict \in Answers
    BY DEF Answers
  <2> QED
    BY <1>2, <2>1, <2>2 DEF ClaimMismatch, ClaimReplayed, Tell, JournalTypeOK
<1>3. ASSUME NEW h \in Handlers, NEW k \in Keys, NEW q \in Requests,
             ClaimInProgress(h, k, q)
      PROVE  JournalTypeOK'
  BY <1>3, HandlerStarts DEF ClaimInProgress, JournalTypeOK, HandlerStates
<1>4. ASSUME NEW h \in Handlers, WaitObserved(h) \/ CommitAcknowledged(h)
      PROVE  JournalTypeOK'
  <2> DEFINE k == handler[h].key
  <2>1. k \in Keys /\ handler[h].request \in Requests /\ ops[k].outcome \in Answers
    BY <1>4
       DEF WaitObserved, CommitAcknowledged, HandlersConsistent, RowsConsistent,
           JournalTypeOK, Answers, Row, Terminal
  <2> QED
    BY <1>4, <2>1, HandlerLeaves
       DEF WaitObserved, CommitAcknowledged, Tell, Leave, JournalTypeOK
<1>5. ASSUME NEW h \in Handlers,
             \/ WaitTimeout(h) \/ CompletionRefused(h) \/ CommitUncertain(h)
             \/ HandlerCrash(h)
      PROVE  JournalTypeOK'
  <2>1. handler' = [handler EXCEPT ![h] = Idle]
          \/ handler' = [handler EXCEPT ![h].pc = "recovering"]
    BY <1>5
       DEF WaitTimeout, CompletionRefused, CommitUncertain, HandlerCrash, Leave, Become
  <2>2. handler' \in [Handlers -> HandlerRecord]
    BY <2>1, HandlerLeaves, HandlerBecomes DEF HandlerStates
  <2> QED
    BY <1>5, <2>2
       DEF WaitTimeout, CompletionRefused, CommitUncertain, HandlerCrash, JournalTypeOK
<1>6. ASSUME NEW h \in Handlers, Heartbeat(h)
      PROVE  JournalTypeOK'
  <2>1. handler[h].key \in Keys
    BY <1>6 DEF Heartbeat, HandlersConsistent
  <2>2. HeartbeatRow(ops[handler[h].key]) \in Row
    BY <2>1 DEF JournalTypeOK, HeartbeatRow, Row
  <2> QED
    BY <1>6, <2>1, <2>2, HandlerLeaves DEF Heartbeat, Leave, JournalTypeOK
<1>7. ASSUME NEW h \in Handlers, NEW v \in Outcomes, DecideStatement(h, v)
      PROVE  JournalTypeOK'
  <2>1. [outcome |-> v, generation |-> handler[h].generation] \in Decision
    BY DEF JournalTypeOK, HandlerRecord, Decision
  <2>2. handler' = [handler EXCEPT ![h].pc = "failing"]
          \/ handler' = [handler EXCEPT ![h].pc = "deciding"]
    BY <1>7 DEF DecideStatement, Become
  <2>3. handler' \in [Handlers -> HandlerRecord]
    BY <2>2, HandlerBecomes, ZenonT(60) DEF HandlerStates
  <2> QED
    BY <1>7, <2>1, <2>3 DEF DecideStatement, JournalTypeOK
<1>8. ASSUME NEW h \in Handlers, RecoverCommitOutcome(h)
      PROVE  JournalTypeOK'
  <2> DEFINE k == handler[h].key
  <2>1. k \in Keys /\ handler[h].request \in Requests
    BY <1>8
       DEF RecoverCommitOutcome, HandlersConsistent, RowsConsistent, JournalTypeOK, Row
  <2>2. Terminal(ops[k]) => ops[k].outcome \in Answers
    BY <2>1 DEF RowsConsistent, JournalTypeOK, Answers, Row, Terminal
  <2>3. HeartbeatRow(ops[k]) \in Row
    BY <2>1, SMTT(30) DEF JournalTypeOK, HeartbeatRow, Row
  <2>4. handler' = [handler EXCEPT ![h] = Idle]
          \/ handler' = [handler EXCEPT ![h].pc = "owner"]
    BY <1>8 DEF RecoverCommitOutcome, Leave, Become
  <2>5. handler' \in [Handlers -> HandlerRecord]
    BY <2>4, HandlerLeaves, HandlerBecomes, ZenonT(60) DEF HandlerStates
  <2> QED
    BY <1>8, <2>1, <2>2, <2>3, <2>5 DEF RecoverCommitOutcome, Tell, JournalTypeOK
<1>9. ASSUME NEW h \in Handlers, NEW k \in Keys, ClaimStaleOperation(h, k)
      PROVE  JournalTypeOK'
  <2>1. ops[k] \in Row /\ ops[k].generation + 1 \in Nat /\ WorkerOf[h] \in Workers
    BY WorkerAssumption DEF JournalTypeOK, Row
  <2>2. TakenOverRow(ops[k], WorkerOf[h]) \in Row
    BY <2>1 DEF TakenOverRow, Row
  <2>3. ops[k].hash \in Requests \cup {None}
    BY DEF JournalTypeOK, Row
  <2>4. ops' \in [Keys -> Row] /\ ops'[k].generation \in Nat
    BY <1>9, <2>2 DEF ClaimStaleOperation, JournalTypeOK, Row
  <2> QED
    BY <1>9, <2>1, <2>3, <2>4, HandlerStarts
       DEF ClaimStaleOperation, JournalTypeOK, HandlerStates
<1>10. ASSUME NEW k \in Keys,
              DatabaseCommits(k) \/ DatabaseRollsBack(k) \/ HeartbeatAges(k)
       PROVE  JournalTypeOK'
  <2>1. AgedRow(ops[k]) \in Row
    BY DEF JournalTypeOK, AgedRow, Row
  <2>2. deciding[k] # None => TerminalRow(ops[k], deciding[k].outcome) \in Row
    BY ZenonT(60) DEF JournalTypeOK, TerminalRow, Row, RowStates, Decision
  <2> QED
    BY <1>10, <2>1, <2>2
       DEF DatabaseCommits, DatabaseRollsBack, HeartbeatAges, JournalTypeOK
<1>11. CASE UNCHANGED journalVars
  BY <1>11 DEF journalVars, JournalTypeOK
<1>12. ASSUME NEW h \in Handlers, FailureSwallowed(h)
       PROVE  JournalTypeOK'
  <2>1. handler[h].key \in Keys /\ handler[h].request \in Requests
    BY <1>12 DEF FailureSwallowed, HandlersConsistent, RowsConsistent, JournalTypeOK, Row
  <2>2. Failure \in Answers
    BY DEF Answers, Outcomes
  <2> QED
    BY <1>12, <2>1, <2>2, HandlerLeaves DEF FailureSwallowed, Tell, Leave, JournalTypeOK
<1> QED
  BY <1>1, <1>2, <1>3, <1>4, <1>5, <1>6, <1>7, <1>8, <1>9, <1>10, <1>11, <1>12,
     JournalCases

(* A takeover changes the generation, the worker and the heartbeat alone. *)
LEMMA TakeoverFields ==
  ASSUME NEW row \in Row, NEW w \in Workers
  PROVE  LET r == TakenOverRow(row, w) IN
           /\ r.state = row.state /\ r.hash = row.hash /\ r.outcome = row.outcome
           /\ r.generation = row.generation + 1
  BY DEF Row, TakenOverRow

(* The steps that leave every row present, report nothing and make nobody   *)
(* a claimant.                                                              *)
LEMMA OtherJournalSteps ==
  ASSUME JournalInvariant, [JournalNext]_journalVars
  PROVE  \/ \E h \in Handlers, k \in Keys, q \in Requests : ClaimInserted(h, k, q)
         \/ \E h \in Handlers : FailureSwallowed(h)
         \/ /\ reported' = reported
            /\ \A k \in Keys : ops[k].state # "absent" => ops'[k].state # "absent"
            /\ \A h \in Handlers : Holding(h)' /\ Claimant(h)' =>
                 Holding(h) /\ Claimant(h) /\ handler'[h].key = handler[h].key
<1> USE DEF JournalInvariant
<1> DEFINE Same == /\ reported' = reported
                   /\ \A k \in Keys : ops[k].state # "absent" => ops'[k].state # "absent"
                   /\ \A h \in Handlers : Holding(h)' /\ Claimant(h)' =>
                        Holding(h) /\ Claimant(h) /\ handler'[h].key = handler[h].key
<1>1. ASSUME NEW h \in Handlers, NEW k \in Keys, NEW q \in Requests,
             ClaimMismatch(h, k, q) \/ ClaimReplayed(h, k, q)
      PROVE  Same
  BY <1>1 DEF ClaimMismatch, ClaimReplayed, Holding, Claimant
<1>2. ASSUME NEW h \in Handlers, NEW k \in Keys, NEW q \in Requests,
             ClaimInProgress(h, k, q)
      PROVE  Same
  BY <1>2 DEF ClaimInProgress, Holding, Claimant, JournalTypeOK
<1>3. ASSUME NEW h \in Handlers, reported' = reported, ops' = ops,
             \/ handler' = [handler EXCEPT ![h] = Idle]
             \/ Holding(h) /\ \E pc \in {"owner", "deciding", "failing", "recovering"} :
                                handler' = [handler EXCEPT ![h].pc = pc]
      PROVE  Same
  BY <1>3 DEF Holding, Claimant, Idle, JournalTypeOK, HandlerRecord
<1>4. ASSUME NEW h \in Handlers,
             \/ WaitObserved(h) \/ WaitTimeout(h) \/ CompletionRefused(h)
             \/ CommitAcknowledged(h) \/ CommitUncertain(h) \/ HandlerCrash(h)
      PROVE  Same
  <2>1. reported' = reported /\ ops' = ops
    BY <1>4
       DEF WaitObserved, WaitTimeout, CompletionRefused, CommitAcknowledged,
           CommitUncertain, HandlerCrash
  <2>2. \/ handler' = [handler EXCEPT ![h] = Idle]
        \/ Holding(h) /\ handler' = [handler EXCEPT ![h].pc = "recovering"]
    BY <1>4
       DEF WaitObserved, WaitTimeout, CompletionRefused, CommitAcknowledged,
           CommitUncertain, HandlerCrash, Leave, Become, Holding
  <2> QED
    BY <1>3, <2>1, <2>2
<1>5. ASSUME NEW h \in Handlers, NEW v \in Outcomes, DecideStatement(h, v)
      PROVE  Same
  BY <1>3, <1>5 DEF DecideStatement, Become, Holding
<1>6. ASSUME NEW h \in Handlers, Heartbeat(h) \/ RecoverCommitOutcome(h)
      PROVE  Same
  <2>1. reported' = reported /\ Holding(h)
    BY <1>6 DEF Heartbeat, RecoverCommitOutcome, Holding
  <2>2. \A k \in Keys : ops'[k].state = ops[k].state
    BY <1>6 DEF Heartbeat, RecoverCommitOutcome, HeartbeatRow, JournalTypeOK, Row
  <2>3. \/ handler' = handler
        \/ handler' = [handler EXCEPT ![h] = Idle]
        \/ handler' = [handler EXCEPT ![h].pc = "owner"]
    BY <1>6 DEF Heartbeat, RecoverCommitOutcome, Leave, Become
  <2> QED
    BY <2>1, <2>2, <2>3 DEF Holding, Claimant, Idle, JournalTypeOK, HandlerRecord
<1>7. ASSUME NEW h \in Handlers, NEW k \in Keys, ClaimStaleOperation(h, k)
      PROVE  Same
  <2>1. ops[k] \in Row /\ ops[k].generation \in Nat /\ WorkerOf[h] \in Workers
    BY WorkerAssumption DEF JournalTypeOK, Row
  <2>2. /\ TakenOverRow(ops[k], WorkerOf[h]).state = ops[k].state
        /\ TakenOverRow(ops[k], WorkerOf[h]).generation = ops[k].generation + 1
    BY <2>1, TakeoverFields
  <2>3. /\ \A j \in Keys : ops'[j].state = ops[j].state
        /\ ops'[k].generation = ops[k].generation + 1
    BY <1>7, <2>2 DEF ClaimStaleOperation, JournalTypeOK
  <2>4. handler'[h].generation # 0 /\ \A g \in Handlers \ {h} : handler'[g] = handler[g]
    BY <1>7, <2>1, <2>3 DEF ClaimStaleOperation, JournalTypeOK
  <2> QED
    BY <1>7, <2>3, <2>4 DEF ClaimStaleOperation, Holding, Claimant
<1>8. ASSUME NEW k \in Keys, DatabaseCommits(k)
      PROVE  Same
  <2>1. \A j \in Keys : ops[j].state # "absent" => ops'[j].state # "absent"
    BY <1>8 DEF DatabaseCommits, JournalTypeOK, Row, TerminalRow
  <2> QED
    BY <1>8, <2>1 DEF DatabaseCommits, Holding, Claimant
<1>9. ASSUME NEW k \in Keys, DatabaseRollsBack(k) \/ HeartbeatAges(k)
      PROVE  Same
  <2>1. \A j \in Keys : ops'[j].state = ops[j].state
    BY <1>9 DEF DatabaseRollsBack, HeartbeatAges, JournalTypeOK, Row, AgedRow
  <2> QED
    BY <1>9, <2>1 DEF DatabaseRollsBack, HeartbeatAges, Holding, Claimant
<1>10. CASE UNCHANGED journalVars
  BY <1>10 DEF journalVars, Holding, Claimant
<1> QED
  BY <1>1, <1>2, <1>4, <1>5, <1>6, <1>7, <1>8, <1>9, <1>10, JournalCases

(* The claimant that reported an unrecorded failure is gone for good: the   *)
(* row it inserted stays, and takeovers hand out later generations.         *)
LEMMA ReportsKept ==
  ASSUME JournalInvariant, [JournalNext]_journalVars
  PROVE  ReportsFinal'
<1> USE DEF JournalInvariant
<1>0. JournalTypeOK'
  BY TypeStep
<1>1. ASSUME NEW h \in Handlers, NEW k \in Keys, NEW q \in Requests,
             ClaimInserted(h, k, q)
      PROVE  ReportsFinal'
  <2>1. k \notin reported /\ reported' = reported
    BY <1>1 DEF ClaimInserted, ReportsFinal
  <2>2. \A j \in Keys \ {k} : ops'[j] = ops[j]
    BY <1>1 DEF ClaimInserted, JournalTypeOK
  <2>3. handler'[h].key = k /\ \A g \in Handlers \ {h} : handler'[g] = handler[g]
    BY <1>1 DEF ClaimInserted, JournalTypeOK
  <2> QED
    BY <2>1, <2>2, <2>3 DEF ReportsFinal, Holding, Claimant, JournalTypeOK
<1>2. ASSUME NEW h \in Handlers, FailureSwallowed(h)
      PROVE  ReportsFinal'
  <2> DEFINE k == handler[h].key
  <2>1. /\ k \in Keys /\ ops[k].state # "absent"
        /\ Holding(h) /\ handler[h].generation = 0
    BY <1>2 DEF FailureSwallowed, HandlersConsistent, Holding, Claimant
  <2>2. \A g \in Handlers \ {h} : Holding(g) /\ handler[g].key = k => ~Claimant(g)
    BY <2>1 DEF FencesUnique, Claimant
  <2>3. /\ handler'[h].pc = "idle" /\ \A g \in Handlers \ {h} : handler'[g] = handler[g]
        /\ ops' = ops /\ reported' = reported \cup {k}
    BY <1>2 DEF FailureSwallowed, Leave, Idle, JournalTypeOK
  <2> QED
    BY <2>1, <2>2, <2>3 DEF ReportsFinal, Holding, Claimant
<1>3. CASE /\ reported' = reported
           /\ \A k \in Keys : ops[k].state # "absent" => ops'[k].state # "absent"
           /\ \A h \in Handlers : Holding(h)' /\ Claimant(h)' =>
                Holding(h) /\ Claimant(h) /\ handler'[h].key = handler[h].key
  BY <1>3 DEF ReportsFinal, JournalTypeOK
<1> QED
  BY <1>1, <1>2, <1>3, OtherJournalSteps

(* Every step keeps the journal invariant. *)
LEMMA JournalKept ==
  ASSUME JournalInvariant, [JournalNext]_journalVars
  PROVE  JournalInvariant'
<1> USE DEF JournalInvariant
<1>t. JournalTypeOK'
  BY TypeStep
<1>r. ReportsFinal'
  BY ReportsKept
<1>1. ASSUME NEW h \in Handlers, NEW k \in Keys, NEW q \in Requests,
             ClaimInserted(h, k, q)
      PROVE  JournalInvariant'
  <2>1. /\ ops' = [ops EXCEPT ![k] = ClaimedRow(WorkerOf[h], q)]
        /\ handler' = [handler EXCEPT ![h] =
             [pc |-> "owner", key |-> k, request |-> q, generation |-> 0]]
        /\ deciding' = deciding /\ ops[k].state = "absent"
    BY <1>1 DEF ClaimInserted
  <2>2. \A g \in Handlers : g # h /\ handler[g].pc # "idle" => handler[g].key # k
    BY <2>1 DEF HandlersConsistent
  <2>3. DecisionIsCurrent'
    BY <2>1 DEF DecisionIsCurrent, InProgress, JournalTypeOK
  <2>4. RowsConsistent'
    BY <2>1, NoneAssumption DEF RowsConsistent, ClaimedRow, Terminal, JournalTypeOK
  <2>5. HandlersConsistent'
    BY <2>1, <2>2 DEF HandlersConsistent, ClaimedRow, Holding, JournalTypeOK
  <2>6. FencesUnique'
    BY <2>1, <2>2 DEF FencesUnique, Holding, JournalTypeOK
  <2> QED
    BY <1>t, <1>r, <2>3, <2>4, <2>5, <2>6
<1>2. ASSUME NEW h \in Handlers, NEW k \in Keys, NEW q \in Requests,
             ClaimMismatch(h, k, q) \/ ClaimReplayed(h, k, q)
      PROVE  JournalInvariant'
  BY <1>t, <1>r, <1>2
     DEF ClaimMismatch, ClaimReplayed, DecisionIsCurrent, RowsConsistent,
         HandlersConsistent, FencesUnique, Holding
<1>3. ASSUME NEW h \in Handlers, NEW k \in Keys, NEW q \in Requests,
             ClaimInProgress(h, k, q)
      PROVE  JournalInvariant'
  <2>1. /\ handler' = [handler EXCEPT ![h] =
             [pc |-> "waiting", key |-> k, request |-> q, generation |-> 0]]
        /\ ops' = ops /\ deciding' = deciding
        /\ ops[k].hash = q /\ ops[k].state = "in_progress"
    BY <1>3 DEF ClaimInProgress, InProgress
  <2>2. HandlersConsistent'
    BY <2>1 DEF HandlersConsistent, Holding, JournalTypeOK
  <2>3. FencesUnique'
    BY <2>1 DEF FencesUnique, Holding, JournalTypeOK
  <2> QED
    BY <1>t, <1>r, <2>1, <2>2, <2>3 DEF DecisionIsCurrent, RowsConsistent
(* A handler leaves, or moves between states in which it holds its fence. *)
<1>4. ASSUME NEW h \in Handlers, UNCHANGED <<ops, deciding>>,
             \/ handler' = [handler EXCEPT ![h] = Idle]
             \/ Holding(h) /\ \E pc \in {"owner", "deciding", "failing", "recovering"} :
                                handler' = [handler EXCEPT ![h].pc = pc]
      PROVE  JournalInvariant'
  <2>1. HandlersConsistent'
    BY <1>4, SMTT(30) DEF HandlersConsistent, Holding, Idle, JournalTypeOK, HandlerRecord
  <2>2. FencesUnique'
    BY <1>4 DEF FencesUnique, Holding, Idle, JournalTypeOK, HandlerRecord
  <2> QED
    BY <1>t, <1>r, <1>4, <2>1, <2>2 DEF DecisionIsCurrent, RowsConsistent
<1>5. ASSUME NEW h \in Handlers,
             \/ WaitObserved(h) \/ WaitTimeout(h) \/ CompletionRefused(h)
             \/ FailureSwallowed(h) \/ CommitAcknowledged(h) \/ CommitUncertain(h)
             \/ HandlerCrash(h)
      PROVE  JournalInvariant'
  <2>1. UNCHANGED <<ops, deciding>>
    BY <1>5
       DEF WaitObserved, WaitTimeout, CompletionRefused, FailureSwallowed,
           CommitAcknowledged, CommitUncertain, HandlerCrash
  <2>2. \/ handler' = [handler EXCEPT ![h] = Idle]
        \/ Holding(h) /\ handler' = [handler EXCEPT ![h].pc = "recovering"]
    BY <1>5
       DEF WaitObserved, WaitTimeout, CompletionRefused, FailureSwallowed,
           CommitAcknowledged, CommitUncertain, HandlerCrash, Leave, Become, Holding
  <2> QED
    BY <1>4, <2>1, <2>2
(* A heartbeat or the passing of the stale bound, possibly with a handler   *)
(* that returns to its work.                                                *)
<1>6. ASSUME NEW k \in Keys, deciding' = deciding,
             \E r \in {HeartbeatRow(ops[k]), AgedRow(ops[k])} :
               ops' = [ops EXCEPT ![k] = r],
             \/ handler' = handler
             \/ \E h \in Handlers :
                  Holding(h) /\ handler' = [handler EXCEPT ![h].pc = "owner"]
      PROVE  JournalInvariant'
  <2>1. \A j \in Keys : /\ ops'[j].state = ops[j].state
                        /\ ops'[j].hash = ops[j].hash
                        /\ ops'[j].generation = ops[j].generation
                        /\ ops'[j].outcome = ops[j].outcome
    BY <1>6 DEF JournalTypeOK, HeartbeatRow, AgedRow, Row
  <2>2. \A g \in Handlers :
          /\ handler'[g].key = handler[g].key
          /\ handler'[g].request = handler[g].request
          /\ handler'[g].generation = handler[g].generation
          /\ handler'[g].pc = "idle" <=> handler[g].pc = "idle"
          /\ Holding(g)' <=> Holding(g)
    BY <1>6 DEF JournalTypeOK, HandlerRecord, Holding
  <2>3. DecisionIsCurrent' /\ RowsConsistent'
    BY <1>6, <2>1 DEF DecisionIsCurrent, RowsConsistent, InProgress, Terminal
  <2>4. HandlersConsistent'
    BY <2>1, <2>2 DEF HandlersConsistent
  <2>5. FencesUnique'
    BY <2>2 DEF FencesUnique
  <2> QED
    BY <1>t, <1>r, <2>3, <2>4, <2>5
<1>7. ASSUME NEW h \in Handlers, Heartbeat(h)
      PROVE  JournalInvariant'
  <2>1. handler[h].key \in Keys
    BY <1>7 DEF Heartbeat, HandlersConsistent
  <2>2. CASE OwnsRow(h)
    BY <1>6, <1>7, <2>1, <2>2 DEF Heartbeat
  <2>3. CASE ~OwnsRow(h)
    BY <1>4, <1>7, <2>3 DEF Heartbeat, Leave
  <2> QED
    BY <2>2, <2>3
<1>8. ASSUME NEW h \in Handlers, NEW v \in Outcomes, DecideStatement(h, v)
      PROVE  JournalInvariant'
  <2> DEFINE k == handler[h].key
  <2>1. k \in Keys /\ Holding(h) /\ OwnsRow(h)
    BY <1>8 DEF DecideStatement, HandlersConsistent, Holding
  <2>2. PICK pc \in {"deciding", "failing"} :
          /\ deciding' = [deciding EXCEPT ![k] =
               [outcome |-> v, generation |-> handler[h].generation]]
          /\ handler' = [handler EXCEPT ![h].pc = pc]
          /\ ops' = ops
    BY <1>8 DEF DecideStatement, Become
  <2>3. DecisionIsCurrent'
    BY <2>1, <2>2 DEF DecisionIsCurrent, OwnsRow, Owns, InProgress, JournalTypeOK
  <2>4. HandlersConsistent'
    BY <2>1, <2>2 DEF HandlersConsistent, Holding, JournalTypeOK, HandlerRecord
  <2>5. FencesUnique'
    BY <2>1, <2>2 DEF FencesUnique, Holding, JournalTypeOK, HandlerRecord
  <2> QED
    BY <1>t, <1>r, <2>2, <2>3, <2>4, <2>5 DEF RowsConsistent
<1>9. ASSUME NEW h \in Handlers, RecoverCommitOutcome(h)
      PROVE  JournalInvariant'
  <2> DEFINE k == handler[h].key
  <2>1. k \in Keys /\ Holding(h) /\ deciding' = deciding
    BY <1>9 DEF RecoverCommitOutcome, HandlersConsistent, Holding
  <2>2. \/ ops' = ops /\ handler' = [handler EXCEPT ![h] = Idle]
        \/ /\ ops' = [ops EXCEPT ![k] = HeartbeatRow(ops[k])]
           /\ handler' = [handler EXCEPT ![h].pc = "owner"]
    BY <1>9 DEF RecoverCommitOutcome, Leave, Become
  <2> QED
    BY <1>4, <1>6, <2>1, <2>2
<1>10. ASSUME NEW h \in Handlers, NEW k \in Keys, ClaimStaleOperation(h, k)
       PROVE  JournalInvariant'
  <2> DEFINE g0 == ops[k].generation
  <2>0. /\ ops' = [ops EXCEPT ![k] = TakenOverRow(ops[k], WorkerOf[h])]
        /\ ops'[k].generation = g0 + 1
    BY <1>10, WorkerAssumption, TakeoverFields DEF ClaimStaleOperation, JournalTypeOK
  <2>1. /\ ops' = [ops EXCEPT ![k] = TakenOverRow(ops[k], WorkerOf[h])]
        /\ handler' = [handler EXCEPT ![h] =
             [pc |-> "owner", key |-> k, request |-> ops[k].hash, generation |-> g0 + 1]]
        /\ deciding' = deciding /\ deciding[k] = None
        /\ ops[k].state = "in_progress" /\ handler[h].pc = "idle"
    BY <1>10, <2>0 DEF ClaimStaleOperation, Unlocked, InProgress
  <2>2. /\ ops'[k].state = "in_progress" /\ ops'[k].hash = ops[k].hash
        /\ ops'[k].outcome = ops[k].outcome /\ ops'[k].generation = g0 + 1
        /\ \A j \in Keys \ {k} : ops'[j] = ops[j]
    BY <2>1, WorkerAssumption, TakeoverFields, ZenonT(60) DEF JournalTypeOK
  <2>3. g0 \in Nat /\ \A g \in Handlers : handler[g].generation \in Nat
    BY DEF JournalTypeOK, Row, HandlerRecord
  <2>4. DecisionIsCurrent'
    BY <2>1, <2>2 DEF DecisionIsCurrent
  <2>5. RowsConsistent'
    BY <2>1, <2>2 DEF RowsConsistent, Terminal
  <2>6. HandlersConsistent'
    BY <2>1, <2>2, <2>3 DEF HandlersConsistent, Holding, JournalTypeOK
  <2>7. FencesUnique'
    BY <2>1, <2>3 DEF FencesUnique, HandlersConsistent, Holding, JournalTypeOK
  <2> QED
    BY <1>t, <1>r, <2>4, <2>5, <2>6, <2>7
<1>11. ASSUME NEW k \in Keys, DatabaseCommits(k)
       PROVE  JournalInvariant'
  <2> DEFINE v == deciding[k].outcome
  <2>1. /\ ops' = [ops EXCEPT ![k] = TerminalRow(ops[k], v)]
        /\ deciding' = [deciding EXCEPT ![k] = None]
        /\ handler' = handler /\ v \in Outcomes /\ ops[k].state = "in_progress"
    BY <1>11 DEF DatabaseCommits, JournalTypeOK, Decision, DecisionIsCurrent, InProgress
  <2>2. /\ ops'[k].state \in {"succeeded", "failed_terminal"}
        /\ ops'[k].hash = ops[k].hash /\ ops'[k].generation = ops[k].generation
        /\ ops'[k].outcome = v
        /\ \A j \in Keys \ {k} : ops'[j] = ops[j]
    BY <2>1 DEF JournalTypeOK, Row, TerminalRow
  <2>3. DecisionIsCurrent'
    BY <2>1, <2>2 DEF DecisionIsCurrent, JournalTypeOK
  <2>4. v # None
    BY <2>1, NoneAssumption, FailureAssumption DEF Outcomes
  <2>5. RowsConsistent'
    BY <2>1, <2>2, <2>4 DEF RowsConsistent, Terminal
  <2>6. HandlersConsistent'
    BY <2>1, <2>2 DEF HandlersConsistent, Holding
  <2>7. FencesUnique'
    BY <2>1 DEF FencesUnique, Holding
  <2> QED
    BY <1>t, <1>r, <2>3, <2>5, <2>6, <2>7
<1>12. ASSUME NEW k \in Keys, DatabaseRollsBack(k)
       PROVE  JournalInvariant'
  BY <1>t, <1>r, <1>12
     DEF DatabaseRollsBack, DecisionIsCurrent, RowsConsistent, HandlersConsistent,
         FencesUnique, Holding, JournalTypeOK
<1>13. ASSUME NEW k \in Keys, HeartbeatAges(k)
       PROVE  JournalInvariant'
  BY <1>6, <1>13 DEF HeartbeatAges
<1>14. CASE UNCHANGED journalVars
  BY <1>t, <1>r, <1>14
     DEF journalVars, DecisionIsCurrent, RowsConsistent, HandlersConsistent, FencesUnique,
         Holding
<1> QED
  BY <1>1, <1>2, <1>3, <1>5, <1>7, <1>8, <1>9, <1>10, <1>11, <1>12, <1>13, <1>14,
     JournalCases

(* The invariant holds in every reachable state. *)
THEOREM JournalInvariantHolds == JournalSpec => []JournalInvariant
  BY JournalStarts, JournalKept, PTL DEF JournalSpec

(* Every variable of the journal keeps to the values the code gives it. *)
THEOREM JournalTypeCorrect == JournalSpec => []JournalTypeOK
<1>1. JournalInvariant => JournalTypeOK
  BY DEF JournalInvariant
<1> QED
  BY <1>1, JournalInvariantHolds, PTL

(* A terminal UPDATE that was sent and not yet committed was sent under the *)
(* generation its row still has: no takeover slips between its fence check  *)
(* and its commit.                                                          *)
THEOREM DecisionIsCurrentHolds == JournalSpec => []DecisionIsCurrent
<1>1. JournalInvariant => DecisionIsCurrent
  BY DEF JournalInvariant
<1> QED
  BY <1>1, JournalInvariantHolds, PTL

(* At every moment at most one running handler passes the fence of an       *)
(* operation, whatever worker IDs the replicas are configured with.         *)
THEOREM SingleOwnerHolds == JournalSpec => []SingleOwner
<1>1. JournalInvariant => SingleOwner
  BY DEF JournalInvariant, FencesUnique, SingleOwner, OwnsRow, Owns
<1> QED
  BY <1>1, JournalInvariantHolds, PTL

(* A step that keeps every row's request and outcome and tells nobody       *)
(* anything is invisible to clients.                                        *)
LEMMA InvisibleStep ==
  ASSUME \A k \in Keys : ops'[k].hash = ops[k].hash /\ ops'[k].outcome = ops[k].outcome,
         told' = told, reported' = reported
  PROVE  UNCHANGED Outcome!vars
  BY DEF Outcome!vars

(* A step that gives an answer with the decided outcome is a Tell. *)
LEMMA TellStep ==
  ASSUME JournalInvariant, NEW k \in Keys, ops' = ops, Terminal(ops[k]),
         Tell(k, ops[k].hash, ops[k].outcome), reported' = reported
  PROVE  Outcome!Next
<1>1. ops[k].outcome # None
  BY DEF JournalInvariant, RowsConsistent
<1>2. Outcome!Tell(k)
  BY <1>1 DEF Outcome!Tell, Tell
<1> QED
  BY <1>2 DEF Outcome!Next

(* Every step of the journal is a step of the outcome register or a stutter. *)
LEMMA OutcomeStep ==
  ASSUME JournalInvariant, [JournalNext]_journalVars
  PROVE  [Outcome!Next]_(Outcome!vars)
<1> USE DEF JournalInvariant
<1>1. ASSUME NEW h \in Handlers, NEW k \in Keys, NEW q \in Requests,
             ClaimInserted(h, k, q)
      PROVE  Outcome!Next
  <2>1. ops[k].hash = None /\ ops[k].outcome = None
    BY <1>1 DEF ClaimInserted, RowsConsistent, Terminal
  <2>2. /\ ops'[k].hash = q /\ ops'[k].outcome = None
        /\ \A j \in Keys \ {k} : ops'[j] = ops[j]
    BY <1>1 DEF ClaimInserted, ClaimedRow, JournalTypeOK
  <2>3. [j \in Keys |-> ops'[j].hash] = [[j \in Keys |-> ops[j].hash] EXCEPT ![k] = q]
    BY <2>2
  <2>4. [j \in Keys |-> ops'[j].outcome] = [j \in Keys |-> ops[j].outcome]
    BY <2>1, <2>2
  <2>5. told' = told /\ reported' = reported
    BY <1>1 DEF ClaimInserted
  <2>6. Outcome!Bind(k, q)
    BY <2>1, <2>3, <2>4, <2>5 DEF Outcome!Bind
  <2> QED
    BY <2>6 DEF Outcome!Next
<1>2. ASSUME NEW h \in Handlers, NEW k \in Keys, NEW q \in Requests,
             ClaimMismatch(h, k, q)
      PROVE  Outcome!Next
  <2>1. Outcome!Refuse(k, q)
    BY <1>2 DEF Outcome!Refuse, ClaimMismatch, Tell, RowsConsistent
  <2> QED
    BY <2>1 DEF Outcome!Next
<1>3. ASSUME NEW h \in Handlers, NEW k \in Keys, NEW q \in Requests,
             ClaimReplayed(h, k, q)
      PROVE  Outcome!Next
  BY <1>3, TellStep DEF ClaimReplayed
<1>4. ASSUME NEW h \in Handlers, WaitObserved(h) \/ CommitAcknowledged(h)
      PROVE  Outcome!Next
  <2>1. /\ handler[h].key \in Keys
        /\ handler[h].request = ops[handler[h].key].hash
    BY <1>4 DEF WaitObserved, CommitAcknowledged, HandlersConsistent
  <2> QED
    BY <1>4, <2>1, TellStep DEF WaitObserved, CommitAcknowledged
<1>5. ASSUME NEW h \in Handlers, RecoverCommitOutcome(h)
      PROVE  [Outcome!Next]_(Outcome!vars)
  <2>1. /\ handler[h].key \in Keys
        /\ handler[h].request = ops[handler[h].key].hash
    BY <1>5 DEF RecoverCommitOutcome, HandlersConsistent
  <2>2. CASE /\ Terminal(ops[handler[h].key]) /\ ops' = ops
             /\ Tell(handler[h].key, handler[h].request, ops[handler[h].key].outcome)
    BY <1>5, <2>1, <2>2, TellStep DEF RecoverCommitOutcome
  <2>3. CASE told' = told
    <3>1. \A k \in Keys : ops'[k].hash = ops[k].hash /\ ops'[k].outcome = ops[k].outcome
      BY <1>5, <2>1 DEF RecoverCommitOutcome, HeartbeatRow, JournalTypeOK, Row
    <3>2. reported' = reported
      BY <1>5 DEF RecoverCommitOutcome
    <3> QED
      BY <2>3, <3>1, <3>2, InvisibleStep
  <2> QED
    BY <1>5, <2>2, <2>3 DEF RecoverCommitOutcome
<1>6. ASSUME NEW k \in Keys, DatabaseCommits(k)
      PROVE  Outcome!Next
  <2>0. deciding[k].outcome \in Outcomes /\ ops[k].state = "in_progress"
    BY <1>6 DEF DatabaseCommits, JournalTypeOK, Decision, DecisionIsCurrent, InProgress
  <2>1. PICK v \in Outcomes : v = deciding[k].outcome
    BY <2>0
  <2>2. ops[k].outcome = None /\ ops[k].hash # None
    BY <2>0 DEF RowsConsistent, Terminal
  <2>3. /\ ops'[k].hash = ops[k].hash /\ ops'[k].outcome = v
        /\ \A j \in Keys \ {k} : ops'[j] = ops[j]
    BY <1>6, <2>1 DEF DatabaseCommits, JournalTypeOK, Row, TerminalRow
  <2>4. [j \in Keys |-> ops'[j].outcome] = [[j \in Keys |-> ops[j].outcome] EXCEPT ![k] = v]
    BY <2>3
  <2>5. [j \in Keys |-> ops'[j].hash] = [j \in Keys |-> ops[j].hash]
    BY <2>3
  <2>6. told' = told /\ reported' = reported
    BY <1>6 DEF DatabaseCommits
  <2>7. Outcome!Decide(k, v)
    BY <2>2, <2>4, <2>5, <2>6 DEF Outcome!Decide
  <2> QED
    BY <2>7 DEF Outcome!Next
<1>7. ASSUME NEW h \in Handlers, NEW k \in Keys, ClaimStaleOperation(h, k)
      PROVE  UNCHANGED Outcome!vars
  <2>1. ops[k] \in Row /\ WorkerOf[h] \in Workers
    BY WorkerAssumption DEF JournalTypeOK
  <2>2. /\ TakenOverRow(ops[k], WorkerOf[h]).hash = ops[k].hash
        /\ TakenOverRow(ops[k], WorkerOf[h]).outcome = ops[k].outcome
    BY <2>1, TakeoverFields
  <2>3. \A j \in Keys : ops'[j].hash = ops[j].hash /\ ops'[j].outcome = ops[j].outcome
    BY <1>7, <2>2 DEF ClaimStaleOperation, JournalTypeOK
  <2> QED
    BY <1>7, <2>3, InvisibleStep DEF ClaimStaleOperation
<1>8. ASSUME NEW h \in Handlers, Heartbeat(h)
      PROVE  UNCHANGED Outcome!vars
  <2>0. ops' = ops \/ ops' = [ops EXCEPT ![handler[h].key] = HeartbeatRow(ops[handler[h].key])]
    BY <1>8 DEF Heartbeat
  <2>1. \A j \in Keys : ops'[j].hash = ops[j].hash /\ ops'[j].outcome = ops[j].outcome
    BY <2>0 DEF HeartbeatRow, JournalTypeOK, Row
  <2>2. told' = told /\ reported' = reported
    BY <1>8 DEF Heartbeat
  <2> QED
    BY <2>1, <2>2, InvisibleStep
<1>9. ASSUME NEW k \in Keys, HeartbeatAges(k)
      PROVE  UNCHANGED Outcome!vars
  <2>1. \A j \in Keys : ops'[j].hash = ops[j].hash /\ ops'[j].outcome = ops[j].outcome
    BY <1>9 DEF HeartbeatAges, AgedRow, JournalTypeOK, Row
  <2> QED
    BY <1>9, <2>1, InvisibleStep DEF HeartbeatAges
(* The remaining steps touch neither a row nor an answer. *)
<1>10. CASE ops' = ops /\ told' = told /\ reported' = reported
  BY <1>10, InvisibleStep
<1>11. CASE \E h \in Handlers, k \in Keys, q \in Requests : ClaimInProgress(h, k, q)
  BY <1>10, <1>11 DEF ClaimInProgress
<1>12. CASE \E h \in Handlers : \/ WaitTimeout(h) \/ CompletionRefused(h)
                                \/ CommitUncertain(h) \/ HandlerCrash(h)
  BY <1>10, <1>12 DEF WaitTimeout, CompletionRefused, CommitUncertain, HandlerCrash
<1>13. CASE \E h \in Handlers, v \in Outcomes : DecideStatement(h, v)
  BY <1>10, <1>13 DEF DecideStatement
<1>14. CASE \E k \in Keys : DatabaseRollsBack(k)
  BY <1>10, <1>14 DEF DatabaseRollsBack
<1>15. CASE UNCHANGED journalVars
  BY <1>10, <1>15 DEF journalVars
<1>16. ASSUME NEW h \in Handlers, FailureSwallowed(h)
       PROVE  Outcome!Next
  <2> DEFINE k == handler[h].key
  <2>1. /\ k \in Keys /\ ops[k].hash # None /\ handler[h].request = ops[k].hash
        /\ Holding(h) /\ Claimant(h)
    BY <1>16 DEF FailureSwallowed, HandlersConsistent, RowsConsistent, Holding
  <2>2. k \notin reported
    BY <2>1 DEF ReportsFinal
  <2>3. /\ ops' = ops /\ reported' = reported \cup {k}
        /\ told' = [told EXCEPT ![k] = @ \cup {<<ops[k].hash, Failure>>}]
    BY <1>16, <2>1 DEF FailureSwallowed, Tell
  <2>4. Outcome!Report(k)
    BY <2>1, <2>2, <2>3 DEF Outcome!Report
  <2> QED
    BY <2>1, <2>4 DEF Outcome!Next
<1> QED
  BY <1>1, <1>2, <1>3, <1>4, <1>5, <1>6, <1>7, <1>8, <1>9, <1>11, <1>12, <1>13,
     <1>14, <1>15, <1>16, JournalCases

(* The journal implements one agreed outcome per idempotency key: the first *)
(* request binds the key, the key is decided once, across takeovers, lost   *)
(* acknowledgements and crashes, and every answer is that decision, a       *)
(* conflict, or the one failure the claimant could not get recorded.        *)
THEOREM AgreedOutcomeHolds == JournalSpec => AgreedOutcome
<1>1. JournalInit => Outcome!Init
  BY DEF JournalInit, Outcome!Init, AbsentRow
<1>2. JournalInvariant /\ [JournalNext]_journalVars => [Outcome!Next]_(Outcome!vars)
  BY OutcomeStep
<1> QED
  BY <1>1, <1>2, JournalInvariantHolds, PTL DEF JournalSpec, AgreedOutcome, Outcome!Spec

-----------------------------------------------------------------------------
(* The content-addressed objects.                                           *)

(* A publisher has put the content and not registered it, a reclaimer has a  *)
(* row it is deleting, and the lock's phase says where the content is.       *)
HoldersHaveContent ==
  \A l \in Locations : lock[l].kind # "free" =>
    /\ Location[lock[l].obj] = l
    /\ lock[l].pc = "put" <=> lock[l].kind \in {"publish", "upload"}
    /\ lock[l].pc = "put" => l \in blob
    /\ lock[l].pc = "finish" => l \notin blob

(* The row a holder is about, which nobody else moves meanwhile. *)
HoldersHaveRows ==
  \A l \in Locations :
    /\ lock[l].kind = "publish" => lock[l].obj # SourceObject /\ object[lock[l].obj] = "none"
    /\ lock[l].kind \in {"upload", "cleanup"} => lock[l].obj = SourceObject
    /\ lock[l].kind \in {"reclaim", "stray", "recover"} => object[lock[l].obj] = "deleting"
    /\ lock[l].kind = "cleanup" => object[SourceObject] \in {"none", "deleting"}

(* The shared-locator check stays true for as long as the lock is held. *)
DeletersAreAlone ==
  \A l \in Locations : lock[l].kind \notin {"free", "publish", "upload"} =>
    l \in blind \/ \A o \in Objects : Location[o] = l => object[o] # "available"

(* A preparation is published only while it is `publishing', and one object  *)
(* after the other.                                                          *)
PublishersPublish ==
  \A p \in Preparations :
    /\ worker[p].pc \in {"publish", "error"} => prep[p] = "publishing"
    /\ \A l \in HeldBy(p, "publish") : worker[p].pc = "publish"
    /\ \A l, m \in HeldBy(p, "publish") : l = m

(* The owner reclaims one object of its batch after the other. *)
ReclaimersReclaim ==
  \A p \in Preparations :
    /\ \A l \in HeldBy(p, "reclaim") :
         worker[p].pc = "reclaim" /\ lock[l].obj \in worker[p].todo
    /\ \A l, m \in HeldBy(p, "reclaim") : l = m

(* An upload that has put its content, or is deleting it, is the one that    *)
(* holds the lock.                                                           *)
UploadersHold ==
  /\ \A u \in Uploads :
       /\ upload[u] = "put" => lock[SourceLocation].kind = "upload"
       /\ upload[u] = "deleting" => lock[SourceLocation].kind = "cleanup"
  /\ \A u, v \in Uploads :
       upload[u] \in {"put", "deleting"} /\ upload[v] \in {"put", "deleting"} => u = v

(* An object without an allocation was never registered, and one whose       *)
(* allocation is reclaimed is deleted.                                       *)
AllocationsFollowObjects ==
  \A p \in Preparations : \A o \in ObjectsOf[p] :
    /\ allocation[o] = "none" => object[o] = "none"
    /\ allocation[o] = "reclaimed" => object[o] = "deleted"

(* The inductive invariant. *)
ObjectInvariant ==
  /\ TypeOK
  /\ HoldersHaveContent /\ HoldersHaveRows /\ DeletersAreAlone
  /\ PublishersPublish /\ ReclaimersReclaim /\ UploadersHold /\ AllocationsFollowObjects
  /\ AvailableContentExists /\ ReferencedObjectIsAvailable
  /\ StoredContentIsAccounted /\ ReclaimedPreparationIsGone

----------------------------------------------------------------------------
(* The objects of a preparation are objects, and so is the source archive. *)
LEMMA ObjectFacts ==
  /\ SourceObject \in Objects
  /\ \A p \in Preparations : ObjectsOf[p] \subseteq Objects
  /\ \A p \in Preparations : \A o \in ObjectsOf[p] : o \in Objects /\ o # SourceObject
<1>1. SourceObject \in Objects
  BY DEF Objects
<1>2. ASSUME NEW p \in Preparations, NEW o \in ObjectsOf[p]
      PROVE  o \in Objects
  BY DEF Objects
<1> QED
  BY <1>1, <1>2, ObjectAssumption

(* What a location's lock looks like. *)
LEMMA LockShape ==
  ASSUME TypeOK, NEW l \in Locations
  PROVE  /\ lock[l] = Free <=> lock[l].kind = "free"
         /\ lock[l].kind # "free" =>
              /\ lock[l].kind \in HolderKinds /\ lock[l].obj \in Objects
              /\ lock[l].pc \in {"put", "delete", "finish"}
  BY DEF TypeOK, Free, HolderKinds

(* Taking and giving back a location's lock. *)
LEMMA LockTaken ==
  ASSUME TypeOK, NEW l \in Locations, NEW k \in HolderKinds, NEW o \in Objects,
         NEW s \in {"put", "delete", "finish"},
         lock' = [lock EXCEPT ![l] = Held(k, o, s)]
  PROVE  /\ lock' \in [Locations -> {Free} \cup [kind : HolderKinds, obj : Objects,
                                                 pc : {"put", "delete", "finish"}]]
         /\ lock'[l].kind = k /\ lock'[l].obj = o /\ lock'[l].pc = s
         /\ \A m \in Locations \ {l} : lock'[m] = lock[m]
  BY DEF TypeOK, Held

LEMMA LockFreed ==
  ASSUME TypeOK, NEW l \in Locations, lock' = [lock EXCEPT ![l] = Free]
  PROVE  /\ lock' \in [Locations -> {Free} \cup [kind : HolderKinds, obj : Objects,
                                                 pc : {"put", "delete", "finish"}]]
         /\ lock'[l].kind = "free"
         /\ \A m \in Locations \ {l} : lock'[m] = lock[m]
<1>1. Free.kind = "free"
  BY DEF Free
<1> QED
  BY <1>1 DEF TypeOK

(* Where the owner of an operation goes. *)
LEMMA OwnerGoes ==
  ASSUME TypeOK, NEW p \in Preparations, NEW s \in WorkerStates, Go(p, s)
  PROVE  /\ worker' \in [Preparations -> [pc : WorkerStates, todo : SUBSET Objects,
                                          full : BOOLEAN]]
         /\ worker'[p].pc = s
         /\ \A q \in Preparations \ {p} : worker'[q] = worker[q]
  BY DEF TypeOK, Go, At

(* What depends on the objects, the locks and the store only. *)
StoreInvariant ==
  /\ HoldersHaveContent /\ HoldersHaveRows /\ DeletersAreAlone
  /\ AvailableContentExists /\ StoredContentIsAccounted

LEMMA SameStore ==
  ASSUME StoreInvariant, UNCHANGED <<object, lock, blob, orphan, blind>>
  PROVE  StoreInvariant'
  BY DEF StoreInvariant, HoldersHaveContent, HoldersHaveRows, DeletersAreAlone,
         AvailableContentExists, StoredContentIsAccounted

LEMMA SameReferences ==
  ASSUME ReferencedObjectIsAvailable, UNCHANGED <<object, source>>,
         \A p \in Preparations : prep'[p] = "committed" => prep[p] = "committed"
  PROVE  ReferencedObjectIsAvailable'
  BY DEF ReferencedObjectIsAvailable, Referenced

LEMMA SameUploads ==
  ASSUME UploadersHold, UNCHANGED <<lock, upload>>
  PROVE  UploadersHold'
  BY DEF UploadersHold

(* The initial state satisfies the invariant. *)
LEMMA InitInvariant == Init => ObjectInvariant
<1> SUFFICES ASSUME Init PROVE ObjectInvariant
  OBVIOUS
<1>1. /\ \A l \in Locations : lock[l].kind = "free" /\ l \notin blob
      /\ \A o \in Objects : object[o] = "none" /\ allocation[o] = "none"
      /\ \A p \in Preparations : prep[p] = "none" /\ worker[p].pc = "create"
      /\ \A u \in Uploads : upload[u] = "new"
  BY DEF Init, Free, At
<1>2. TypeOK
  <2>1. worker \in [Preparations -> [pc : WorkerStates, todo : SUBSET Objects, full : BOOLEAN]]
    BY DEF Init, WorkerStates, At
  <2>2. faults \in 0..MaxFault
    BY ObjectAssumption DEF Init
  <2> QED
    BY <2>1, <2>2 DEF Init, TypeOK
<1>3. HoldersHaveContent /\ HoldersHaveRows /\ DeletersAreAlone
  BY <1>1 DEF HoldersHaveContent, HoldersHaveRows, DeletersAreAlone
<1>4. PublishersPublish /\ ReclaimersReclaim /\ UploadersHold
  BY <1>1 DEF PublishersPublish, ReclaimersReclaim, UploadersHold, HeldBy
<1>5. AllocationsFollowObjects /\ ReclaimedPreparationIsGone /\ AvailableContentExists
  BY <1>1, ObjectFacts
     DEF AllocationsFollowObjects, ReclaimedPreparationIsGone, AvailableContentExists
<1>6. ReferencedObjectIsAvailable /\ StoredContentIsAccounted
  BY <1>1 DEF Init, ReferencedObjectIsAvailable, Referenced, StoredContentIsAccounted
<1> QED
  BY <1>2, <1>3, <1>4, <1>5, <1>6 DEF ObjectInvariant

(* The steps of an owner that touch neither an object nor a lock. *)
LEMMA OwnerKeepsInvariant ==
  ASSUME ObjectInvariant, NEW p \in Preparations,
         \/ CreateOrReplay(p) \/ MarkPrepared(p) \/ BeginAbort(p) \/ Settle(p)
         \/ FinalizePreparation(p) \/ Crash(p) \/ Commit(p) \/ ClaimPreparationObjects(p)
  PROVE  ObjectInvariant'
<1> USE DEF ObjectInvariant
<1>1. UNCHANGED <<object, source, lock, upload, blob, orphan, blind>>
  BY DEF CreateOrReplay, MarkPrepared, BeginAbort, Settle, FinalizePreparation, Crash,
         Commit, ClaimPreparationObjects, rows, store
<1>2. /\ prep' \in [Preparations -> {"none", "publishing", "prepared", "committed",
                                     "reclaim_pending", "reclaimed"}]
      /\ \A q \in Preparations \ {p} : prep'[q] = prep[q]
      /\ faults' \in 0..MaxFault /\ open' \subseteq Preparations
  BY ObjectAssumption
     DEF CreateOrReplay, MarkPrepared, BeginAbort, Settle, FinalizePreparation, Crash,
         Commit, ClaimPreparationObjects, rows, TypeOK, Fault
<1>3. /\ worker' \in [Preparations -> [pc : WorkerStates, todo : SUBSET Objects,
                                       full : BOOLEAN]]
      /\ worker'[p].pc = "publish" => prep'[p] = "publishing"
      /\ worker'[p].pc # "error"
      /\ \A q \in Preparations \ {p} : worker'[q] = worker[q]
  <2>1. CASE ClaimPreparationObjects(p)
    <3>1. PICK batch \in SUBSET Candidates(p) :
            worker' = [worker EXCEPT ![p] =
              [pc |-> "reclaim", todo |-> batch, full |-> Cardinality(batch) = Limit]]
      BY <2>1 DEF ClaimPreparationObjects
    <3>2. batch \in SUBSET Objects
      BY ObjectFacts DEF Candidates
    <3> QED
      BY <3>1, <3>2 DEF TypeOK, WorkerStates
  <2>2. CASE ~ClaimPreparationObjects(p)
    <3>1. PICK s \in WorkerStates : /\ Go(p, s)
                                    /\ s = "publish" => prep'[p] = "publishing"
                                    /\ s # "error"
      BY <2>2
         DEF CreateOrReplay, MarkPrepared, BeginAbort, Settle, FinalizePreparation, Crash,
             Commit, WorkerStates
    <3> QED
      BY <3>1, OwnerGoes
  <2> QED
    BY <2>1, <2>2
<1>4. HeldBy(p, "publish") = {} /\ HeldBy(p, "reclaim") = {}
  BY DEF CreateOrReplay, MarkPrepared, BeginAbort, Settle, FinalizePreparation, Crash,
         Commit, ClaimPreparationObjects, PublishersPublish, ReclaimersReclaim
<1>5. allocation' \in [Objects -> {"none", "allocated", "adopted", "reclaim_pending",
                                   "reclaimed"}]
  BY DEF CreateOrReplay, MarkPrepared, BeginAbort, Settle, FinalizePreparation, Crash,
         Commit, ClaimPreparationObjects, TypeOK, rows
<1>6. TypeOK'
  BY <1>1, <1>2, <1>3, <1>5 DEF TypeOK
<1>7. StoreInvariant'
  BY <1>1, SameStore DEF StoreInvariant
<1>8. PublishersPublish' /\ ReclaimersReclaim'
  BY <1>1, <1>2, <1>3, <1>4 DEF PublishersPublish, ReclaimersReclaim, HeldBy
<1>9. UploadersHold'
  BY <1>1, SameUploads
<1>10. AllocationsFollowObjects'
  <2>1. \A o \in Objects : allocation'[o] \in {allocation[o], "adopted", "reclaim_pending"}
    BY DEF CreateOrReplay, MarkPrepared, BeginAbort, Settle, FinalizePreparation, Crash,
           Commit, ClaimPreparationObjects, TypeOK, rows
  <2> QED
    BY <1>1, <2>1, ObjectFacts DEF AllocationsFollowObjects
<1>11. ReferencedObjectIsAvailable'
  <2>1. CASE Commit(p)
    BY <2>1, <1>1, <1>2 DEF Commit, Complete, ReferencedObjectIsAvailable, Referenced
  <2>2. CASE ~Commit(p)
    <3>1. prep'[p] = "committed" => prep[p] = "committed"
      BY <2>2
         DEF CreateOrReplay, MarkPrepared, BeginAbort, Settle, FinalizePreparation, Crash,
             ClaimPreparationObjects, TypeOK, rows
    <3> QED
      BY <3>1, <1>1, <1>2, SameReferences
  <2> QED
    BY <2>1, <2>2
<1>12. ReclaimedPreparationIsGone'
  <2>1. prep'[p] = "reclaimed" =>
          prep[p] = "reclaimed" \/ (FinalizePreparation(p) /\ Outstanding(p) = {})
    BY DEF CreateOrReplay, MarkPrepared, BeginAbort, Settle, FinalizePreparation, Crash,
           Commit, ClaimPreparationObjects, TypeOK, rows
  <2>2. Outstanding(p) = {} => \A o \in ObjectsOf[p] : object[o] \in {"none", "deleted"}
    BY DEF Outstanding, AllocationsFollowObjects
  <2> QED
    BY <2>1, <2>2, <1>1, <1>2 DEF ReclaimedPreparationIsGone
<1> QED
  BY <1>6, <1>7, <1>8, <1>9, <1>10, <1>11, <1>12 DEF StoreInvariant

(* A takeover leaves a delete that was begun to a stray. *)
LEMMA TakeoverKeepsInvariant ==
  ASSUME ObjectInvariant, NEW p \in Preparations, NEW s \in {"create", "abort"}, Takeover(p, s)
  PROVE  ObjectInvariant'
<1> USE DEF ObjectInvariant
<1>1. /\ UNCHANGED <<object, allocation, prep, open, source, upload, blob, orphan, blind>>
      /\ faults' \in 0..MaxFault
  BY ObjectAssumption DEF Takeover, rows, store, Fault, TypeOK
<1>2. /\ worker' \in [Preparations -> [pc : WorkerStates, todo : SUBSET Objects,
                                       full : BOOLEAN]]
      /\ worker'[p].pc = s
      /\ \A q \in Preparations \ {p} : worker'[q] = worker[q]
  BY OwnerGoes DEF Takeover, WorkerStates
<1>3. /\ lock' \in [Locations -> {Free} \cup [kind : HolderKinds, obj : Objects,
                                              pc : {"put", "delete", "finish"}]]
      /\ \A l \in Locations :
           \/ lock'[l] = lock[l] /\ l \notin HeldBy(p, "reclaim")
           \/ /\ l \in HeldBy(p, "reclaim") /\ lock'[l].kind = "stray"
              /\ lock'[l].obj = lock[l].obj /\ lock'[l].pc = lock[l].pc
  BY LockShape DEF Takeover, TypeOK, HeldBy, HolderKinds
<1>4. HeldBy(p, "publish") = {}
  BY DEF Takeover
<1>5. TypeOK'
  BY <1>1, <1>2, <1>3 DEF TypeOK
<1>6. HoldersHaveContent' /\ HoldersHaveRows'
  BY <1>1, <1>3 DEF HoldersHaveContent, HoldersHaveRows, HeldBy
<1>7. DeletersAreAlone'
  BY <1>1, <1>3 DEF DeletersAreAlone, HeldBy
<1>8. PublishersPublish' /\ ReclaimersReclaim'
  BY <1>1, <1>2, <1>3, <1>4, ObjectAssumption
     DEF PublishersPublish, ReclaimersReclaim, HeldBy
<1>9. UploadersHold'
  BY <1>1, <1>3, ObjectFacts, ObjectAssumption DEF UploadersHold, HeldBy, SourceLocation
<1>10. AllocationsFollowObjects' /\ ReclaimedPreparationIsGone' /\ AvailableContentExists'
  BY <1>1 DEF AllocationsFollowObjects, ReclaimedPreparationIsGone, AvailableContentExists
<1>11. ReferencedObjectIsAvailable'
  BY <1>1, SameReferences
<1>12. StoredContentIsAccounted'
  BY <1>1, <1>3 DEF StoredContentIsAccounted, HeldBy, TypeOK
<1> QED
  BY <1>5, <1>6, <1>7, <1>8, <1>9, <1>10, <1>11, <1>12

(* Content is put under the lock of its location. *)
LEMMA PublishKeepsInvariant ==
  ASSUME ObjectInvariant, NEW p \in Preparations, NEW o \in ObjectsOf[p], PublishObject(p, o)
  PROVE  ObjectInvariant'
<1> USE DEF ObjectInvariant
<1> DEFINE l == Location[o]
<1>1. /\ UNCHANGED <<object, allocation, prep, open, source, upload, worker, orphan, blind,
                     faults>>
      /\ o \in Objects /\ o # SourceObject /\ l \in Locations /\ object[o] = "none"
      /\ blob' = blob \cup {l} /\ worker[p].pc = "publish" /\ HeldBy(p, "publish") = {}
      /\ \A q \in Preparations \ {p} : o \notin ObjectsOf[q]
      /\ lock[l].kind = "free"
  BY ObjectFacts, ObjectAssumption, LockShape DEF PublishObject, rows, store
<1>2. /\ lock' \in [Locations -> {Free} \cup [kind : HolderKinds, obj : Objects,
                                              pc : {"put", "delete", "finish"}]]
      /\ lock'[l].kind = "publish" /\ lock'[l].obj = o /\ lock'[l].pc = "put"
      /\ \A m \in Locations \ {l} : lock'[m] = lock[m]
  BY <1>1, LockTaken DEF PublishObject, HolderKinds
<1> HIDE DEF l
<1>3. TypeOK'
  BY <1>1, <1>2 DEF TypeOK
<1>4. HoldersHaveContent' /\ HoldersHaveRows'
  BY <1>1, <1>2 DEF HoldersHaveContent, HoldersHaveRows, l
<1>5. DeletersAreAlone'
  BY <1>1, <1>2 DEF DeletersAreAlone
<1>6. PublishersPublish' /\ ReclaimersReclaim'
  BY <1>1, <1>2 DEF PublishersPublish, ReclaimersReclaim, HeldBy
<1>7. UploadersHold'
  BY <1>1, <1>2, ObjectFacts, ObjectAssumption DEF UploadersHold, SourceLocation
<1>8. AllocationsFollowObjects' /\ ReclaimedPreparationIsGone' /\ AvailableContentExists'
  BY <1>1 DEF AllocationsFollowObjects, ReclaimedPreparationIsGone, AvailableContentExists
<1>9. ReferencedObjectIsAvailable'
  BY <1>1, SameReferences
<1>10. StoredContentIsAccounted'
  BY <1>1, <1>2 DEF StoredContentIsAccounted, TypeOK
<1> QED
  BY <1>3, <1>4, <1>5, <1>6, <1>7, <1>8, <1>9, <1>10

(* The row of what was put is committed with the lock. *)
LEMMA AssociateKeepsInvariant ==
  ASSUME ObjectInvariant, NEW l \in Locations, AssociateObject(l)
  PROVE  ObjectInvariant'
<1> USE DEF ObjectInvariant
<1> DEFINE o == lock[l].obj
<1>1. /\ UNCHANGED <<prep, open, source, upload, worker, blob, orphan, blind, faults>>
      /\ o \in Objects /\ o # SourceObject /\ Location[o] = l /\ l \in blob
      /\ lock[l].kind = "publish"
  BY LockShape DEF AssociateObject, store, HoldersHaveContent, HoldersHaveRows
<1>2. /\ object' \in [Objects -> {"none", "available", "deleting", "deleted"}]
      /\ object'[o] = "available"
      /\ \A q \in Objects \ {o} : object'[q] = object[q]
  BY <1>1 DEF AssociateObject, TypeOK
<1>3. /\ allocation' \in [Objects -> {"none", "allocated", "adopted", "reclaim_pending",
                                      "reclaimed"}]
      /\ allocation'[o] = "allocated"
      /\ \A q \in Objects \ {o} : allocation'[q] = allocation[q]
  BY <1>1 DEF AssociateObject, TypeOK
<1>4. /\ lock' \in [Locations -> {Free} \cup [kind : HolderKinds, obj : Objects,
                                              pc : {"put", "delete", "finish"}]]
      /\ lock'[l].kind = "free"
      /\ \A m \in Locations \ {l} : lock'[m] = lock[m]
  BY LockFreed DEF AssociateObject
<1>5. ASSUME NEW m \in Locations \ {l}, lock[m].kind # "free"
      PROVE  lock[m].obj \in Objects \ {o}
  BY <1>1, <1>5, LockShape DEF HoldersHaveContent
<1> HIDE DEF o
<1>6. TypeOK'
  BY <1>1, <1>2, <1>3, <1>4 DEF TypeOK
<1>7. HoldersHaveContent'
  BY <1>1, <1>4 DEF HoldersHaveContent
<1>8. HoldersHaveRows'
  BY <1>1, <1>2, <1>4, <1>5, ObjectFacts DEF HoldersHaveRows
<1>9. DeletersAreAlone'
  BY <1>1, <1>2, <1>4 DEF DeletersAreAlone
<1>10. PublishersPublish' /\ ReclaimersReclaim'
  BY <1>1, <1>4 DEF PublishersPublish, ReclaimersReclaim, HeldBy
<1>11. UploadersHold'
  BY <1>1, <1>4, ObjectFacts, ObjectAssumption DEF UploadersHold, SourceLocation
<1>12. AllocationsFollowObjects' /\ AvailableContentExists'
  BY <1>1, <1>2, <1>3, ObjectFacts DEF AllocationsFollowObjects, AvailableContentExists
<1>13. ReclaimedPreparationIsGone'
  <2>1. \A p \in Preparations : o \in ObjectsOf[p] => prep[p] = "publishing"
    BY <1>1 DEF PublishersPublish, HeldBy, o
  <2> QED
    BY <1>1, <1>2, <2>1, ObjectFacts DEF ReclaimedPreparationIsGone
<1>14. ReferencedObjectIsAvailable'
  BY <1>1, <1>2 DEF ReferencedObjectIsAvailable, Referenced
<1>15. StoredContentIsAccounted'
  BY <1>1, <1>2, <1>4 DEF StoredContentIsAccounted, TypeOK
<1> QED
  BY <1>6, <1>7, <1>8, <1>9, <1>10, <1>11, <1>12, <1>13, <1>14, <1>15

----------------------------------------------------------------------------
(* Deleting in the rows what another row keeps, or what is deleted. *)
LEMMA FinalizedRows ==
  ASSUME TypeOK, NEW o \in Objects, Finalized(o)
  PROVE  /\ object' \in [Objects -> {"none", "available", "deleting", "deleted"}]
         /\ object'[o] = "deleted"
         /\ \A q \in Objects \ {o} : object'[q] = object[q]
         /\ allocation' \in [Objects -> {"none", "allocated", "adopted", "reclaim_pending",
                                         "reclaimed"}]
         /\ allocation'[o] = allocation[o] \/ allocation'[o] = "reclaimed"
         /\ \A q \in Objects \ {o} : allocation'[q] = allocation[q]
  BY DEF TypeOK, Finalized

(* What a step keeps that deletes an object in the rows only. *)
LEMMA RowDeleted ==
  ASSUME ObjectInvariant, NEW o \in Objects,
         object' \in [Objects -> {"none", "available", "deleting", "deleted"}],
         object'[o] = "deleted",
         \A q \in Objects \ {o} : object'[q] = object[q],
         allocation'[o] = allocation[o] \/ allocation'[o] = "reclaimed",
         \A q \in Objects \ {o} : allocation'[q] = allocation[q],
         object[o] # "none", ~Referenced(o), lock[Location[o]].kind = "free",
         object[o] = "deleted" \/ Shared(o),
         UNCHANGED <<lock, prep, source, blob, orphan, blind>>
  PROVE  /\ StoreInvariant' /\ AllocationsFollowObjects'
         /\ ReferencedObjectIsAvailable' /\ ReclaimedPreparationIsGone'
<1> USE DEF ObjectInvariant
<1>1. HoldersHaveContent' /\ DeletersAreAlone' /\ AvailableContentExists'
  BY DEF HoldersHaveContent, DeletersAreAlone, AvailableContentExists
<1>2. HoldersHaveRows'
  <2>1. \A l \in Locations : lock[l].kind # "free" => lock[l].obj \in Objects \ {o}
    BY LockShape DEF HoldersHaveContent
  <2> QED
    BY <2>1, ObjectFacts DEF HoldersHaveRows
<1>3. AllocationsFollowObjects' /\ ReclaimedPreparationIsGone'
  BY ObjectFacts DEF AllocationsFollowObjects, ReclaimedPreparationIsGone
<1>4. ReferencedObjectIsAvailable'
  BY DEF ReferencedObjectIsAvailable, Referenced
<1>5. StoredContentIsAccounted'
  BY DEF StoredContentIsAccounted, Shared, TypeOK
<1> QED
  BY <1>1, <1>2, <1>3, <1>4, <1>5 DEF StoreInvariant

(* What a step keeps that takes the lock to delete an object's content: its  *)
(* row is available or already `deleting', or, for a source archive, absent. *)
LEMMA DeletionBegins ==
  ASSUME ObjectInvariant, NEW o \in Objects, NEW k \in {"reclaim", "recover", "cleanup"},
         NEW v \in {"none", "deleting"}, ~Referenced(o),
         lock[Location[o]].kind = "free",
         lock' = [lock EXCEPT ![Location[o]] = Held(k, o, "delete")],
         object' = [object EXCEPT ![o] = v],
         IF v = "none" THEN k = "cleanup" /\ object[o] = "none"
                       ELSE object[o] \in {"available", "deleting"},
         k = "cleanup" => o = SourceObject,
         blind \subseteq blind', Shared(o) => Location[o] \in blind',
         UNCHANGED <<allocation, prep, source, blob, orphan>>
  PROVE  /\ StoreInvariant' /\ AllocationsFollowObjects'
         /\ ReferencedObjectIsAvailable' /\ ReclaimedPreparationIsGone'
<1> USE DEF ObjectInvariant
<1> DEFINE l == Location[o]
<1>1. /\ l \in Locations
      /\ lock'[l].kind = k /\ lock'[l].obj = o /\ lock'[l].pc = "delete"
      /\ \A m \in Locations \ {l} : lock'[m] = lock[m]
  BY ObjectAssumption, LockTaken, ZenonT(60) DEF HolderKinds
<1>2. object'[o] = v /\ \A q \in Objects \ {o} : object'[q] = object[q]
  BY DEF TypeOK
<1>3. \A m \in Locations \ {l} : lock[m].kind # "free" => lock[m].obj \in Objects \ {o}
  BY LockShape DEF HoldersHaveContent
<1> HIDE DEF l
<1>4. HoldersHaveContent'
  BY <1>1 DEF HoldersHaveContent, l
<1>5. HoldersHaveRows'
  BY <1>1, <1>2, <1>3, ObjectFacts DEF HoldersHaveRows
<1>6. DeletersAreAlone'
  BY <1>1, <1>2 DEF DeletersAreAlone, Shared, l
<1>7. AvailableContentExists' /\ AllocationsFollowObjects' /\ ReclaimedPreparationIsGone'
  BY <1>2, ObjectFacts
     DEF AvailableContentExists, AllocationsFollowObjects, ReclaimedPreparationIsGone
<1>8. ReferencedObjectIsAvailable'
  BY <1>2 DEF ReferencedObjectIsAvailable, Referenced
<1>9. StoredContentIsAccounted'
  BY <1>1, <1>2 DEF StoredContentIsAccounted, TypeOK, l
<1> QED
  BY <1>4, <1>5, <1>6, <1>7, <1>8, <1>9 DEF StoreInvariant

(* The first transaction of a reclaim. *)
LEMMA ReclaimKeepsInvariant ==
  ASSUME ObjectInvariant, NEW p \in Preparations, NEW o \in ObjectsOf[p], ReclaimOne(p, o)
  PROVE  ObjectInvariant'
<1> USE DEF ObjectInvariant
<1>1. /\ o \in Objects /\ o # SourceObject /\ Location[o] \in Locations
      /\ lock[Location[o]].kind = "free"
      /\ worker[p].pc = "reclaim" /\ o \in worker[p].todo /\ HeldBy(p, "reclaim") = {}
      /\ \A q \in Preparations \ {p} : o \notin ObjectsOf[q]
      /\ UNCHANGED <<prep, open, source, upload, blob, orphan, faults>>
  BY ObjectFacts, ObjectAssumption, LockShape DEF ReclaimOne
<1>2. Done(p, o) =>
        /\ worker' \in [Preparations -> [pc : WorkerStates, todo : SUBSET Objects,
                                         full : BOOLEAN]]
        /\ worker'[p].pc = "reclaim"
        /\ \A q \in Preparations \ {p} : worker'[q] = worker[q]
  BY <1>1 DEF Done, TypeOK, WorkerStates
<1>3. Done(p, o) /\ lock' = lock => PublishersPublish' /\ ReclaimersReclaim' /\ UploadersHold'
  BY <1>1, <1>2 DEF PublishersPublish, ReclaimersReclaim, UploadersHold, HeldBy
<1>4. CASE Done(p, o) /\ UNCHANGED <<object, allocation, lock, blind>>
  <2>1. TypeOK' /\ StoreInvariant'
    BY <1>1, <1>2, <1>4, SameStore DEF StoreInvariant, TypeOK
  <2>2. AllocationsFollowObjects' /\ ReclaimedPreparationIsGone' /\ ReferencedObjectIsAvailable'
    BY <1>1, <1>4, SameReferences DEF AllocationsFollowObjects, ReclaimedPreparationIsGone
  <2> QED
    BY <1>3, <1>4, <2>1, <2>2 DEF StoreInvariant
<1>5. CASE /\ object[o] = "deleted" \/ (Unreferenced(o) /\ Shared(o))
           /\ Finalized(o) /\ Done(p, o) /\ UNCHANGED <<lock, blind>>
  <2>1. object[o] # "none" /\ ~Referenced(o)
    BY <1>1, <1>5 DEF Unreferenced, ReferencedObjectIsAvailable
  <2>2. /\ StoreInvariant' /\ AllocationsFollowObjects'
        /\ ReferencedObjectIsAvailable' /\ ReclaimedPreparationIsGone'
    BY <1>1, <1>5, <2>1, RowDeleted, FinalizedRows
  <2>3. TypeOK'
    BY <1>1, <1>2, <1>5, FinalizedRows DEF TypeOK
  <2> QED
    BY <1>3, <1>5, <2>2, <2>3 DEF StoreInvariant
<1>6. CASE /\ object[o] = "deleting" \/ (Unreferenced(o) /\ ~Shared(o))
           /\ object' = [object EXCEPT ![o] = "deleting"]
           /\ lock' = [lock EXCEPT ![Location[o]] = Held("reclaim", o, "delete")]
           /\ blind' = IF Shared(o) THEN blind \cup {Location[o]} ELSE blind
           /\ UNCHANGED <<allocation, worker>>
  <2>1. object[o] \in {"available", "deleting"} /\ ~Referenced(o)
    BY <1>1, <1>6 DEF Unreferenced, ReferencedObjectIsAvailable
  <2>2. /\ StoreInvariant' /\ AllocationsFollowObjects'
        /\ ReferencedObjectIsAvailable' /\ ReclaimedPreparationIsGone'
    BY <1>1, <1>6, <2>1, DeletionBegins
  <2>3. /\ lock' \in [Locations -> {Free} \cup [kind : HolderKinds, obj : Objects,
                                                pc : {"put", "delete", "finish"}]]
        /\ lock'[Location[o]].kind = "reclaim" /\ lock'[Location[o]].obj = o
        /\ \A m \in Locations \ {Location[o]} : lock'[m] = lock[m]
    BY <1>1, <1>6, LockTaken, ZenonT(60) DEF HolderKinds
  <2>4. TypeOK'
    BY <1>1, <1>6, <2>3 DEF TypeOK
  <2>5. PublishersPublish' /\ ReclaimersReclaim'
    BY <1>1, <1>6, <2>3 DEF PublishersPublish, ReclaimersReclaim, HeldBy
  <2>6. UploadersHold'
    BY <1>1, <2>3, ObjectFacts, ObjectAssumption DEF UploadersHold, SourceLocation
  <2> QED
    BY <2>2, <2>4, <2>5, <2>6 DEF StoreInvariant
<1> QED
  BY <1>4, <1>5, <1>6 DEF ReclaimOne

(* A reconciler pass takes up a deletion that was left behind. *)
LEMMA ResumeKeepsInvariant ==
  ASSUME ObjectInvariant, NEW o \in Objects, ResumeDeletingObject(o)
  PROVE  ObjectInvariant'
<1> USE DEF ObjectInvariant
<1>1. /\ Location[o] \in Locations /\ lock[Location[o]].kind = "free"
      /\ object[o] = "deleting" /\ ~Referenced(o)
      /\ UNCHANGED <<prep, open, source, worker, upload, blob, orphan, blind, faults>>
  BY ObjectAssumption, LockShape
     DEF ResumeDeletingObject, store, ReferencedObjectIsAvailable
<1>2. CASE Shared(o) /\ Finalized(o) /\ UNCHANGED lock
  <2>1. /\ StoreInvariant' /\ AllocationsFollowObjects'
        /\ ReferencedObjectIsAvailable' /\ ReclaimedPreparationIsGone'
    BY <1>1, <1>2, RowDeleted, FinalizedRows
  <2>2. TypeOK'
    BY <1>1, <1>2, FinalizedRows DEF TypeOK
  <2>3. PublishersPublish' /\ ReclaimersReclaim' /\ UploadersHold'
    BY <1>1, <1>2 DEF PublishersPublish, ReclaimersReclaim, UploadersHold, HeldBy
  <2> QED
    BY <2>1, <2>2, <2>3 DEF StoreInvariant
<1>3. CASE /\ ~Shared(o)
           /\ lock' = [lock EXCEPT ![Location[o]] = Held("recover", o, "delete")]
           /\ UNCHANGED <<object, allocation>>
  <2>1. object' = [object EXCEPT ![o] = "deleting"]
    BY <1>1, <1>3 DEF TypeOK
  <2>2. /\ StoreInvariant' /\ AllocationsFollowObjects'
        /\ ReferencedObjectIsAvailable' /\ ReclaimedPreparationIsGone'
    BY <1>1, <1>3, <2>1, DeletionBegins
  <2>3. /\ lock' \in [Locations -> {Free} \cup [kind : HolderKinds, obj : Objects,
                                                pc : {"put", "delete", "finish"}]]
        /\ lock'[Location[o]].kind = "recover"
        /\ \A m \in Locations \ {Location[o]} : lock'[m] = lock[m]
    BY <1>1, <1>3, LockTaken DEF HolderKinds
  <2>4. TypeOK'
    BY <1>1, <1>3, <2>3 DEF TypeOK
  <2>5. PublishersPublish' /\ ReclaimersReclaim'
    BY <1>1, <2>3 DEF PublishersPublish, ReclaimersReclaim, HeldBy
  <2>6. UploadersHold'
    BY <1>1, <2>3, ObjectFacts, ObjectAssumption DEF UploadersHold, SourceLocation
  <2> QED
    BY <2>2, <2>4, <2>5, <2>6 DEF StoreInvariant
<1> QED
  BY <1>2, <1>3 DEF ResumeDeletingObject

----------------------------------------------------------------------------
(* The holder of a lock deletes the content. *)
LEMMA DeleteKeepsInvariant ==
  ASSUME ObjectInvariant, NEW l \in Locations, Delete(l)
  PROVE  ObjectInvariant'
<1> USE DEF ObjectInvariant
<1>1. /\ lock[l].kind \notin {"free", "publish", "upload"} /\ lock[l].pc = "delete"
      /\ blob' = blob \ {l} /\ orphan' = orphan \ {l}
      /\ UNCHANGED <<object, allocation, prep, open, source, worker, upload, blind, faults>>
  BY DEF Delete, rows, HoldersHaveContent
<1>2. /\ lock' \in [Locations -> {Free} \cup [kind : HolderKinds, obj : Objects,
                                              pc : {"put", "delete", "finish"}]]
      /\ lock'[l].kind = lock[l].kind /\ lock'[l].obj = lock[l].obj
      /\ lock'[l].pc = "finish"
      /\ \A m \in Locations \ {l} : lock'[m] = lock[m]
  <2>1. lock[l] \in [kind : HolderKinds, obj : Objects, pc : {"put", "delete", "finish"}]
    BY <1>1, LockShape DEF TypeOK
  <2> QED
    BY <2>1 DEF Delete, TypeOK
<1>3. TypeOK'
  BY <1>1, <1>2 DEF TypeOK
<1>4. HoldersHaveContent' /\ HoldersHaveRows'
  BY <1>1, <1>2 DEF HoldersHaveContent, HoldersHaveRows
<1>5. DeletersAreAlone'
  BY <1>1, <1>2 DEF DeletersAreAlone
<1>6. PublishersPublish' /\ ReclaimersReclaim'
  BY <1>1, <1>2 DEF PublishersPublish, ReclaimersReclaim, HeldBy
<1>7. UploadersHold'
  BY <1>1, <1>2, ObjectFacts, ObjectAssumption DEF UploadersHold, SourceLocation
<1>8. AllocationsFollowObjects' /\ ReclaimedPreparationIsGone'
  BY <1>1 DEF AllocationsFollowObjects, ReclaimedPreparationIsGone
<1>9. ReferencedObjectIsAvailable'
  BY <1>1, SameReferences
<1>10. AvailableContentExists'
  BY <1>1 DEF AvailableContentExists, DeletersAreAlone
<1>11. StoredContentIsAccounted'
  BY <1>1, <1>2 DEF StoredContentIsAccounted, TypeOK
<1> QED
  BY <1>3, <1>4, <1>5, <1>6, <1>7, <1>8, <1>9, <1>10, <1>11

(* When a lock is given back, the upload that held it goes on and no other   *)
(* one held it.                                                              *)
LEMMA UploadReleased ==
  ASSUME ObjectInvariant, NEW l \in Locations, NEW s \in {"over", "cleanup"},
         lock[l].kind # "free", UploadTo(l, s), lock'[l].kind = "free",
         \A m \in Locations \ {l} : lock'[m] = lock[m]
  PROVE  /\ upload' \in [Uploads -> {"new", "checked", "put", "registered", "cleanup",
                                     "deleting", "over"}]
         /\ UploadersHold'
<1> USE DEF ObjectInvariant
<1>1. upload' \in [Uploads -> {"new", "checked", "put", "registered", "cleanup", "deleting",
                               "over"}]
  BY DEF UploadTo, TypeOK
<1>2. SourceLocation \in Locations
  BY ObjectFacts, ObjectAssumption DEF SourceLocation
<1>3. \A u \in Uploads : upload'[u] \in {"put", "deleting"} =>
        upload'[u] = upload[u] /\ lock[l].kind \notin {"upload", "cleanup"}
  BY DEF UploadTo
<1>4. ASSUME NEW u \in Uploads, upload'[u] \in {"put", "deleting"}
      PROVE  lock'[SourceLocation] = lock[SourceLocation]
  BY <1>2, <1>3, <1>4 DEF UploadersHold
<1>5. UploadersHold'
  BY <1>3, <1>4 DEF UploadersHold
<1> QED
  BY <1>1, <1>5

(* The second transaction of a reclaim, a recovery or a source's clean-up. *)
LEMMA FinishKeepsInvariant ==
  ASSUME ObjectInvariant, NEW l \in Locations, FinishDelete(l)
  PROVE  ObjectInvariant'
<1> USE DEF ObjectInvariant
<1> DEFINE o == lock[l].obj
<1>1. /\ lock[l].kind \notin {"free", "publish", "upload"} /\ l \notin blob
      /\ o \in Objects /\ Location[o] = l
      /\ UNCHANGED <<prep, open, source, blob, orphan, blind, faults>>
  BY LockShape DEF FinishDelete, store, HoldersHaveContent
<1>2. object[o] \in {"none", "deleting"} /\ ~Referenced(o)
  BY <1>1, LockShape DEF HoldersHaveRows, HolderKinds, ReferencedObjectIsAvailable
<1>3. /\ object' \in [Objects -> {"none", "available", "deleting", "deleted"}]
      /\ IF object[o] = "none" THEN object'[o] = "none" /\ allocation'[o] = allocation[o]
         ELSE /\ object'[o] = "deleted"
              /\ allocation'[o] = allocation[o] \/ allocation'[o] = "reclaimed"
      /\ \A q \in Objects \ {o} : object'[q] = object[q]
      /\ allocation' \in [Objects -> {"none", "allocated", "adopted", "reclaim_pending",
                                      "reclaimed"}]
      /\ \A q \in Objects \ {o} : allocation'[q] = allocation[q]
  BY <1>1, FinalizedRows DEF FinishDelete, TypeOK
<1>4. /\ lock' \in [Locations -> {Free} \cup [kind : HolderKinds, obj : Objects,
                                              pc : {"put", "delete", "finish"}]]
      /\ lock'[l].kind = "free"
      /\ \A m \in Locations \ {l} : lock'[m] = lock[m]
  BY LockFreed DEF FinishDelete
<1>5. \A m \in Locations \ {l} : lock[m].kind # "free" => lock[m].obj \in Objects \ {o}
  BY <1>1, LockShape DEF HoldersHaveContent
<1>6. /\ worker' \in [Preparations -> [pc : WorkerStates, todo : SUBSET Objects,
                                       full : BOOLEAN]]
      /\ \A p \in Preparations :
           worker'[p].pc = worker[p].pc /\ worker[p].todo \ {o} \subseteq worker'[p].todo
  BY DEF FinishDelete, TypeOK
<1>7. /\ upload' \in [Uploads -> {"new", "checked", "put", "registered", "cleanup",
                                  "deleting", "over"}]
      /\ UploadersHold'
  BY <1>1, <1>4, UploadReleased DEF FinishDelete
<1> HIDE DEF o
<1>8. TypeOK'
  BY <1>1, <1>3, <1>4, <1>6, <1>7 DEF TypeOK
<1>9. HoldersHaveContent'
  BY <1>1, <1>4 DEF HoldersHaveContent
<1>10. HoldersHaveRows'
  BY <1>1, <1>2, <1>3, <1>4, <1>5, ObjectFacts DEF HoldersHaveRows
<1>11. DeletersAreAlone'
  BY <1>1, <1>3, <1>4 DEF DeletersAreAlone
<1>12. PublishersPublish'
  BY <1>1, <1>4, <1>6 DEF PublishersPublish, HeldBy
<1>13. ReclaimersReclaim'
  BY <1>1, <1>4, <1>5, <1>6 DEF ReclaimersReclaim, HeldBy
<1>14. AllocationsFollowObjects' /\ ReclaimedPreparationIsGone' /\ AvailableContentExists'
  BY <1>1, <1>2, <1>3, ObjectFacts
     DEF AllocationsFollowObjects, ReclaimedPreparationIsGone, AvailableContentExists
<1>15. ReferencedObjectIsAvailable'
  BY <1>1, <1>2, <1>3 DEF ReferencedObjectIsAvailable, Referenced
<1>16. StoredContentIsAccounted'
  BY <1>1, <1>3, <1>4 DEF StoredContentIsAccounted, TypeOK
<1> QED
  BY <1>7, <1>8, <1>9, <1>10, <1>11, <1>12, <1>13, <1>14, <1>15, <1>16

(* A holder that fails or dies gives its lock back and keeps the rows. *)
LEMMA FailKeepsInvariant ==
  ASSUME ObjectInvariant, NEW l \in Locations, NEW alive \in BOOLEAN, Fail(l, alive)
  PROVE  ObjectInvariant'
<1> USE DEF ObjectInvariant
<1>1. /\ lock[l].kind # "free"
      /\ lock[l].kind \notin {"publish", "upload"} => ~alive
      /\ orphan' = IF lock[l].pc = "put" THEN orphan \cup {l} ELSE orphan
      /\ UNCHANGED <<object, allocation, prep, open, source, blob, blind>>
      /\ faults' \in 0..MaxFault
  BY LockShape, ObjectAssumption DEF Fail, rows, Fault, TypeOK
<1>2. /\ lock' \in [Locations -> {Free} \cup [kind : HolderKinds, obj : Objects,
                                              pc : {"put", "delete", "finish"}]]
      /\ lock'[l].kind = "free"
      /\ \A m \in Locations \ {l} : lock'[m] = lock[m]
  BY LockFreed DEF Fail
<1>3. worker' \in [Preparations -> [pc : WorkerStates, todo : SUBSET Objects, full : BOOLEAN]]
  BY DEF Fail, At, TypeOK, WorkerStates
<1>4. \A p \in Preparations :
        \/ worker'[p] = worker[p] /\ l \notin HeldBy(p, "publish") \cup HeldBy(p, "reclaim")
        \/ l \in HeldBy(p, "publish") /\ worker'[p].pc \in {"error", "none"}
        \/ l \in HeldBy(p, "reclaim") /\ worker'[p].pc = "none"
  BY <1>1 DEF Fail, At, HeldBy
<1>5. /\ upload' \in [Uploads -> {"new", "checked", "put", "registered", "cleanup",
                                  "deleting", "over"}]
      /\ UploadersHold'
  BY <1>1, <1>2, UploadReleased DEF Fail
<1>6. TypeOK'
  BY <1>1, <1>2, <1>3, <1>5 DEF TypeOK
<1>7. HoldersHaveContent' /\ HoldersHaveRows'
  BY <1>1, <1>2 DEF HoldersHaveContent, HoldersHaveRows
<1>8. DeletersAreAlone'
  BY <1>1, <1>2 DEF DeletersAreAlone
<1>9. PublishersPublish'
  BY <1>1, <1>2, <1>4 DEF PublishersPublish, ReclaimersReclaim, HeldBy
<1>10. ReclaimersReclaim'
  BY <1>1, <1>2, <1>4 DEF PublishersPublish, ReclaimersReclaim, HeldBy
<1>11. AllocationsFollowObjects' /\ ReclaimedPreparationIsGone' /\ AvailableContentExists'
  BY <1>1 DEF AllocationsFollowObjects, ReclaimedPreparationIsGone, AvailableContentExists
<1>12. ReferencedObjectIsAvailable'
  BY <1>1, SameReferences
<1>13. StoredContentIsAccounted'
  BY <1>1, <1>2 DEF StoredContentIsAccounted, HoldersHaveContent, TypeOK
<1> QED
  BY <1>5, <1>6, <1>7, <1>8, <1>9, <1>10, <1>11, <1>12, <1>13

----------------------------------------------------------------------------
(* The steps of an upload that touch neither an object nor a lock.  A        *)
(* snapshot is registered only of an object that is available.               *)
LEMMA UploadMoves ==
  ASSUME ObjectInvariant, NEW u \in Uploads,
         CheckSource(u) \/ RegisterSourceSnapshot(u) \/ AbandonSource(u)
  PROVE  ObjectInvariant'
<1> USE DEF ObjectInvariant
<1>1. /\ UNCHANGED <<object, allocation, prep, open, worker, lock, blob, orphan, blind>>
      /\ source' \in BOOLEAN
      /\ source' => source \/ object[SourceObject] = "available"
      /\ faults' \in 0..MaxFault
  <2>1. UNCHANGED <<object, allocation, prep, open, worker, lock, blob, orphan, blind>>
    BY DEF CheckSource, RegisterSourceSnapshot, AbandonSource, rows, store
  <2>2. /\ source' \in BOOLEAN
        /\ source' => source \/ object[SourceObject] = "available"
    <3>1. source' = source \/ source' = (source \/ object[SourceObject] = "available")
      BY DEF CheckSource, RegisterSourceSnapshot, AbandonSource, rows
    <3>2. source \in BOOLEAN
      BY DEF TypeOK
    <3>3. CASE source' = source
      BY <3>2, <3>3
    <3>4. CASE source' = (source \/ object[SourceObject] = "available")
      <4>1. (source \/ object[SourceObject] = "available") \in BOOLEAN
        OBVIOUS
      <4> QED
        BY <3>4, <4>1, Zenon
    <3> QED
      BY <3>1, <3>3, <3>4
  <2>3. faults' = faults \/ Fault
    BY DEF CheckSource, RegisterSourceSnapshot, AbandonSource
  <2>4. faults' \in 0..MaxFault
    BY <2>3, ObjectAssumption DEF Fault, TypeOK
  <2> QED
    BY <2>1, <2>2, <2>4
<1>2. /\ upload' \in [Uploads -> {"new", "checked", "put", "registered", "cleanup",
                                  "deleting", "over"}]
      /\ upload'[u] \notin {"put", "deleting"}
      /\ \A v \in Uploads \ {u} : upload'[v] = upload[v]
  BY DEF CheckSource, RegisterSourceSnapshot, AbandonSource, TypeOK
<1>3. TypeOK'
  BY <1>1, <1>2 DEF TypeOK
<1>4. StoreInvariant'
  BY <1>1, SameStore DEF StoreInvariant
<1>5. PublishersPublish' /\ ReclaimersReclaim'
  BY <1>1 DEF PublishersPublish, ReclaimersReclaim, HeldBy
<1>6. UploadersHold'
  BY <1>1, <1>2 DEF UploadersHold
<1>7. AllocationsFollowObjects' /\ ReclaimedPreparationIsGone'
  BY <1>1 DEF AllocationsFollowObjects, ReclaimedPreparationIsGone
<1>8. ReferencedObjectIsAvailable'
  BY <1>1 DEF ReferencedObjectIsAvailable, Referenced
<1> QED
  BY <1>3, <1>4, <1>5, <1>6, <1>7, <1>8 DEF StoreInvariant

(* The archive is put under the lock of its location. *)
LEMMA PutSourceKeepsInvariant ==
  ASSUME ObjectInvariant, NEW u \in Uploads, PutSource(u)
  PROVE  ObjectInvariant'
<1> USE DEF ObjectInvariant
<1> DEFINE l == SourceLocation
<1>1. /\ UNCHANGED <<object, allocation, prep, open, source, worker, orphan, blind, faults>>
      /\ SourceObject \in Objects /\ l \in Locations /\ Location[SourceObject] = l
      /\ blob' = blob \cup {l} /\ lock[l].kind = "free"
  BY ObjectFacts, ObjectAssumption, LockShape DEF PutSource, rows, SourceLocation
<1>2. /\ lock' \in [Locations -> {Free} \cup [kind : HolderKinds, obj : Objects,
                                              pc : {"put", "delete", "finish"}]]
      /\ lock'[l].kind = "upload" /\ lock'[l].obj = SourceObject /\ lock'[l].pc = "put"
      /\ \A m \in Locations \ {l} : lock'[m] = lock[m]
  BY <1>1, LockTaken, ZenonT(60) DEF PutSource, HolderKinds
<1>3. /\ upload' \in [Uploads -> {"new", "checked", "put", "registered", "cleanup",
                                  "deleting", "over"}]
      /\ upload'[u] = "put"
      /\ \A v \in Uploads \ {u} : upload'[v] = upload[v] /\ upload[v] \notin {"put", "deleting"}
  BY <1>1 DEF PutSource, TypeOK, UploadersHold
<1>4. UploadersHold'
  BY <1>2, <1>3 DEF UploadersHold
<1> HIDE DEF l
<1>5. TypeOK'
  BY <1>1, <1>2, <1>3 DEF TypeOK
<1>6. HoldersHaveContent' /\ HoldersHaveRows'
  BY <1>1, <1>2 DEF HoldersHaveContent, HoldersHaveRows
<1>7. DeletersAreAlone'
  BY <1>1, <1>2 DEF DeletersAreAlone
<1>8. PublishersPublish' /\ ReclaimersReclaim'
  BY <1>1, <1>2, ObjectFacts DEF PublishersPublish, ReclaimersReclaim, HeldBy
<1>9. AllocationsFollowObjects' /\ ReclaimedPreparationIsGone' /\ AvailableContentExists'
  BY <1>1 DEF AllocationsFollowObjects, ReclaimedPreparationIsGone, AvailableContentExists
<1>10. ReferencedObjectIsAvailable'
  BY <1>1, SameReferences
<1>11. StoredContentIsAccounted'
  BY <1>1, <1>2 DEF StoredContentIsAccounted, TypeOK
<1> QED
  BY <1>4, <1>5, <1>6, <1>7, <1>8, <1>9, <1>10, <1>11

(* The archive's row is inserted or found, with the lock. *)
LEMMA RegisterSourceKeepsInvariant ==
  ASSUME ObjectInvariant, NEW u \in Uploads, RegisterSourceObject(u)
  PROVE  ObjectInvariant'
<1> USE DEF ObjectInvariant
<1> DEFINE l == SourceLocation
<1>1. /\ UNCHANGED <<allocation, prep, open, source, worker, blob, blind, faults>>
      /\ SourceObject \in Objects /\ l \in Locations /\ Location[SourceObject] = l
      /\ lock[l].kind = "upload" /\ l \in blob
      /\ orphan' = IF object[SourceObject] = "deleted" THEN orphan \cup {l} ELSE orphan
  BY ObjectFacts, ObjectAssumption
     DEF RegisterSourceObject, SourceLocation, UploadersHold, HoldersHaveContent
<1>2. /\ lock' \in [Locations -> {Free} \cup [kind : HolderKinds, obj : Objects,
                                              pc : {"put", "delete", "finish"}]]
      /\ lock'[l].kind = "free"
      /\ \A m \in Locations \ {l} : lock'[m] = lock[m]
  BY <1>1, LockFreed DEF RegisterSourceObject
<1>3. /\ object' \in [Objects -> {"none", "available", "deleting", "deleted"}]
      /\ object'[SourceObject] =
           IF object[SourceObject] = "none" THEN "available" ELSE object[SourceObject]
      /\ \A q \in Objects \ {SourceObject} : object'[q] = object[q]
  BY <1>1 DEF RegisterSourceObject, TypeOK
<1>4. /\ upload' \in [Uploads -> {"new", "checked", "put", "registered", "cleanup",
                                  "deleting", "over"}]
      /\ upload'[u] \notin {"put", "deleting"}
      /\ \A v \in Uploads \ {u} : upload'[v] = upload[v] /\ upload[v] \notin {"put", "deleting"}
  BY <1>1 DEF RegisterSourceObject, TypeOK, UploadersHold
<1>5. UploadersHold'
  BY <1>4 DEF UploadersHold
<1>6. \A m \in Locations \ {l} : lock[m].kind # "free" => lock[m].obj \in Objects \ {SourceObject}
  BY <1>1, LockShape DEF HoldersHaveContent
<1> HIDE DEF l
<1>7. TypeOK'
  BY <1>1, <1>2, <1>3, <1>4 DEF TypeOK
<1>8. HoldersHaveContent'
  BY <1>1, <1>2 DEF HoldersHaveContent
<1>9. HoldersHaveRows'
  BY <1>1, <1>2, <1>3, <1>6 DEF HoldersHaveRows
<1>10. DeletersAreAlone'
  BY <1>1, <1>2, <1>3 DEF DeletersAreAlone
<1>11. PublishersPublish' /\ ReclaimersReclaim'
  BY <1>1, <1>2 DEF PublishersPublish, ReclaimersReclaim, HeldBy
<1>12. AllocationsFollowObjects' /\ ReclaimedPreparationIsGone' /\ AvailableContentExists'
  BY <1>1, <1>3, ObjectFacts
     DEF AllocationsFollowObjects, ReclaimedPreparationIsGone, AvailableContentExists
<1>13. ReferencedObjectIsAvailable'
  BY <1>1, <1>3 DEF ReferencedObjectIsAvailable, Referenced
<1>14. StoredContentIsAccounted'
  BY <1>1, <1>2, <1>3 DEF StoredContentIsAccounted, TypeOK
<1> QED
  BY <1>5, <1>7, <1>8, <1>9, <1>10, <1>11, <1>12, <1>13, <1>14

(* The first transaction of a source archive's clean-up. *)
LEMMA ReclaimSourceKeepsInvariant ==
  ASSUME ObjectInvariant, NEW u \in Uploads, ReclaimSourceArchive(u)
  PROVE  ObjectInvariant'
<1> USE DEF ObjectInvariant
<1> DEFINE o == SourceObject
           l == SourceLocation
           v(s) == IF object[o] = "none" THEN "none" ELSE s
<1>1. /\ UNCHANGED <<allocation, prep, open, source, worker, blob, orphan, blind, faults>>
      /\ o \in Objects /\ l \in Locations /\ Location[o] = l
      /\ lock[l].kind = "free" /\ \A w \in Uploads : upload[w] \notin {"put", "deleting"}
  BY ObjectFacts, ObjectAssumption, LockShape
     DEF ReclaimSourceArchive, store, SourceLocation, UploadersHold
<1>2. /\ upload' \in [Uploads -> {"new", "checked", "put", "registered", "cleanup",
                                  "deleting", "over"}]
      /\ upload'[u] \in {"over", "deleting"}
      /\ upload'[u] = "deleting" =>
           lock' = [lock EXCEPT ![l] = Held("cleanup", o, "delete")]
      /\ \A w \in Uploads \ {u} : upload'[w] = upload[w]
  BY DEF ReclaimSourceArchive, TypeOK
<1>3. ~SourceIsKept => ~Referenced(o) /\ object[o] # "deleted"
  BY <1>1, ObjectFacts DEF SourceIsKept, Referenced, ReferencedObjectIsAvailable
<1>4. CASE UNCHANGED <<object, lock>> /\ upload'[u] = "over"
  <2>1. TypeOK' /\ StoreInvariant'
    BY <1>1, <1>2, <1>4, SameStore DEF StoreInvariant, TypeOK
  <2>2. PublishersPublish' /\ ReclaimersReclaim' /\ UploadersHold'
    BY <1>1, <1>2, <1>4 DEF PublishersPublish, ReclaimersReclaim, UploadersHold, HeldBy
  <2>3. AllocationsFollowObjects' /\ ReclaimedPreparationIsGone' /\ ReferencedObjectIsAvailable'
    BY <1>1, <1>4, SameReferences DEF AllocationsFollowObjects, ReclaimedPreparationIsGone
  <2> QED
    BY <2>1, <2>2, <2>3 DEF StoreInvariant
<1>5. CASE /\ ~SourceIsKept /\ Shared(o) /\ upload'[u] = "over" /\ UNCHANGED lock
           /\ object[o] # "none" /\ object' = [object EXCEPT ![o] = "deleted"]
  <2>1. /\ object' \in [Objects -> {"none", "available", "deleting", "deleted"}]
        /\ object'[o] = "deleted" /\ \A q \in Objects \ {o} : object'[q] = object[q]
    BY <1>1, <1>5 DEF TypeOK
  <2>2. /\ StoreInvariant' /\ AllocationsFollowObjects'
        /\ ReferencedObjectIsAvailable' /\ ReclaimedPreparationIsGone'
    BY <1>1, <1>3, <1>5, <2>1, RowDeleted
  <2>3. PublishersPublish' /\ ReclaimersReclaim' /\ UploadersHold'
    BY <1>1, <1>2, <1>5 DEF PublishersPublish, ReclaimersReclaim, UploadersHold, HeldBy
  <2>4. TypeOK'
    BY <1>1, <1>2, <1>5, <2>1 DEF TypeOK
  <2> QED
    BY <2>2, <2>3, <2>4 DEF StoreInvariant
<1>6. CASE /\ ~SourceIsKept /\ ~Shared(o) /\ upload'[u] = "deleting"
           /\ object' = [object EXCEPT ![o] = v("deleting")]
           /\ lock' = [lock EXCEPT ![l] = Held("cleanup", o, "delete")]
  <2>1. /\ v("deleting") \in {"none", "deleting"}
        /\ IF v("deleting") = "none" THEN object[o] = "none"
                                     ELSE object[o] \in {"available", "deleting"}
    BY <1>1, <1>3, <1>6 DEF TypeOK
  <2> HIDE DEF v
  <2>2. /\ StoreInvariant' /\ AllocationsFollowObjects'
        /\ ReferencedObjectIsAvailable' /\ ReclaimedPreparationIsGone'
    BY <1>1, <1>3, <1>6, <2>1, DeletionBegins
  <2>3. /\ lock' \in [Locations -> {Free} \cup [kind : HolderKinds, obj : Objects,
                                                pc : {"put", "delete", "finish"}]]
        /\ lock'[l].kind = "cleanup"
        /\ \A m \in Locations \ {l} : lock'[m] = lock[m]
    BY <1>1, <1>6, LockTaken DEF HolderKinds
  <2>4. TypeOK'
    BY <1>1, <1>2, <1>6, <2>1, <2>3 DEF TypeOK
  <2>5. PublishersPublish' /\ ReclaimersReclaim'
    BY <1>1, <2>3 DEF PublishersPublish, ReclaimersReclaim, HeldBy
  <2>6. UploadersHold'
    BY <1>1, <1>2, <1>6, <2>3 DEF UploadersHold
  <2> QED
    BY <2>2, <2>4, <2>5, <2>6 DEF StoreInvariant
<1>7. \/ UNCHANGED <<object, lock>> /\ upload'[u] = "over"
      \/ /\ ~SourceIsKept /\ Shared(o) /\ upload'[u] = "over" /\ UNCHANGED lock
         /\ object' = [object EXCEPT ![o] = v("deleted")]
      \/ /\ ~SourceIsKept /\ ~Shared(o) /\ upload'[u] = "deleting"
         /\ object' = [object EXCEPT ![o] = v("deleting")]
         /\ lock' = [lock EXCEPT ![l] = Held("cleanup", o, "delete")]
  BY <1>1, <1>2 DEF ReclaimSourceArchive, TypeOK
<1>8. object' = [object EXCEPT ![o] = v("deleted")] =>
        object' = object \/ (object[o] # "none" /\ object' = [object EXCEPT ![o] = "deleted"])
  BY <1>1, ZenonT(60) DEF TypeOK
<1> QED
  BY <1>4, <1>5, <1>6, <1>7, <1>8

----------------------------------------------------------------------------
(* Every step keeps the invariant. *)
LEMMA InvariantStep ==
  ASSUME ObjectInvariant, [Next]_vars
  PROVE  ObjectInvariant'
<1>1. CASE Next
  BY <1>1, OwnerKeepsInvariant, TakeoverKeepsInvariant, PublishKeepsInvariant,
     AssociateKeepsInvariant, ReclaimKeepsInvariant, ResumeKeepsInvariant,
     DeleteKeepsInvariant, FinishKeepsInvariant, FailKeepsInvariant, UploadMoves,
     PutSourceKeepsInvariant, RegisterSourceKeepsInvariant, ReclaimSourceKeepsInvariant
     DEF Next, Step, Upload
<1>2. CASE UNCHANGED vars
  BY <1>2
     DEF vars, ObjectInvariant, TypeOK, HoldersHaveContent, HoldersHaveRows,
         DeletersAreAlone, PublishersPublish, ReclaimersReclaim, HeldBy, UploadersHold,
         AllocationsFollowObjects, AvailableContentExists, ReferencedObjectIsAvailable,
         Referenced, StoredContentIsAccounted, ReclaimedPreparationIsGone
<1> QED
  BY <1>1, <1>2

(* The inductive invariant holds whatever preparations, uploads, reclaims    *)
(* and reconciler passes overlap at a location and wherever they crash.      *)
THEOREM ObjectInvariantHolds == Spec => []ObjectInvariant
  BY InitInvariant, InvariantStep, PTL DEF Spec

(* Every variable keeps to the values the code gives it. *)
THEOREM TypeCorrect == Spec => []TypeOK
<1>1. ObjectInvariant => TypeOK
  BY DEF ObjectInvariant
<1> QED
  BY <1>1, ObjectInvariantHolds, PTL

(* The content of an available object is in the store, unless a reclaim       *)
(* resumed a deletion without the shared-locator check at its location        *)
(* (postgres-object-reclaimer.ts reclaimOne).                                 *)
THEOREM AvailableContentExistsHolds == Spec => []AvailableContentExists
<1>1. ObjectInvariant => AvailableContentExists
  BY DEF ObjectInvariant
<1> QED
  BY <1>1, ObjectInvariantHolds, PTL

(* No reclaim, recovery or clean-up deletes an object that a committed        *)
(* preparation or a source snapshot refers to.                                *)
THEOREM ReferencedObjectIsAvailableHolds == Spec => []ReferencedObjectIsAvailable
<1>1. ObjectInvariant => ReferencedObjectIsAvailable
  BY DEF ObjectInvariant
<1> QED
  BY <1>1, ObjectInvariantHolds, PTL

(* Content in the store has a row or a publisher, unless it was put and       *)
(* never registered.                                                          *)
THEOREM StoredContentIsAccountedHolds == Spec => []StoredContentIsAccounted
<1>1. ObjectInvariant => StoredContentIsAccounted
  BY DEF ObjectInvariant
<1> QED
  BY <1>1, ObjectInvariantHolds, PTL

(* A preparation is `reclaimed' only when all it had published is deleted     *)
(* (postgres-object-reclaimer.ts finalizePreparationIfReclaimed).             *)
THEOREM ReclaimedPreparationIsGoneHolds == Spec => []ReclaimedPreparationIsGone
<1>1. ObjectInvariant => ReclaimedPreparationIsGone
  BY DEF ObjectInvariant
<1> QED
  BY <1>1, ObjectInvariantHolds, PTL
=============================================================================
