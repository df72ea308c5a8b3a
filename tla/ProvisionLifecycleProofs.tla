---------------------- MODULE ProvisionLifecycleProofs ----------------------
(***************************************************************************)
(* Machine-checked proofs about ProvisionLifecycle, for any set of          *)
(* reconciler replicas: the sandbox and the snapshot of a lease survive     *)
(* every late cleanup and every sweep, an operation succeeds exactly with   *)
(* its lease, and nothing is called reclaimed that still exists.            *)
(***************************************************************************)
EXTENDS ProvisionLifecycle, TLAPS

-----------------------------------------------------------------------------
(* The inductive invariant, by its parts. *)

Allocating == {"idle", "calling", "returned", "recording", "inserted"}
Finishing  == {"committing", "recovering", "done"}
Concluding == {"preparing", "final", "committing", "recovering"}
Holding    == {"reclaiming", "effected"}

(* Nobody but the coordinator's claim creates the row. *)
UnclaimedIsAbsent == coord.pc = "idle" => op.state = "absent" /\ coord.kind = "sandbox"

(* The final transaction is sent last, and while it is unresolved its lock  *)
(* on the operation row keeps every takeover and every verdict out.         *)
CommitIsLast ==
  /\ lease = "active" => coord.pc \in Finishing
  /\ rowLock = CommitTx => coord.pc \in Finishing /\ Owns(Coordinator)

(* A reclaiming pass holds the operation row, so it owns the operation to   *)
(* the end of its transaction, and it writes "reclaimed" of what is gone.   *)
ReclaimersOwn ==
  \A r \in Reconcilers : recon[r].pc \in Holding =>
    /\ rowLock = r /\ Owns(r)
    /\ recon[r].todo # {} /\ recon[r].write \notin {"none", "adopted"}
    /\ recon[r].write = "reclaimed" => provider[ReclaimKind(r)] = "gone"

(* A pass works on what the ledger lists; rows never leave the ledger. *)
TodoIsListed ==
  \A r \in Reconcilers : \A k \in recon[r].todo : alloc[k] # "none"

(* Whatever reads "adopted", even from an old listing, read it of a lease. *)
AdoptedIsLeased ==
  /\ \A k \in Kinds : alloc[k] = "adopted" => lease = "active"
  /\ \A r \in Reconcilers : \A k \in Kinds :
       recon[r].seen[k] = "adopted" => lease = "active"

(* Nothing is in the ledger before it is recorded. *)
UnrecordedIsNone ==
  /\ coord.pc \in Allocating => alloc[coord.kind] = "none"
  /\ coord.pc \in Allocating \cup {"recorded"} /\ coord.kind = "sandbox"
       => alloc["provider_snapshot"] = "none"

(* From the record on, an owning coordinator's sandbox is in the ledger,    *)
(* which protects it; once it answered after that, it is alive.             *)
OwnedSandboxLives ==
  Owns(Coordinator) =>
    /\ coord.pc = "recorded" => alloc[coord.kind] = "allocated"
    /\ \/ coord.pc \in Allocating \cup {"recorded"} /\ coord.kind = "provider_snapshot"
       \/ coord.pc \in Concluding
       \/ rowLock = CommitTx
       => alloc["sandbox"] = "allocated" /\ provider["sandbox"] = "live"

(* The cleanup records as reclaimed what its call has removed. *)
CleanedIsGone ==
  coord.pc \in {"killed", "reclaiming"} =>
    CleanupKind \in ProviderKinds /\ provider[CleanupKind] = "gone"

ProvisionInvariant ==
  /\ TypeOK /\ UnclaimedIsAbsent /\ CommitIsLast /\ ReclaimersOwn /\ TodoIsListed
  /\ AdoptedIsLeased /\ UnrecordedIsNone /\ OwnedSandboxLives /\ CleanedIsGone
  /\ SuccessIsDurable /\ LeasedSandboxLives /\ ReclaimedIsGone

-----------------------------------------------------------------------------
OpRow ==
  [state : {"absent", "in_progress", "succeeded", "failed_terminal"},
   owner : Reconcilers \cup {Coordinator, Free}, heartbeat : {"fresh", "stale"}]
CoordLocals ==
  [pc : CoordStates, kind : ProviderKinds, known : SUBSET ProviderKinds,
   recorded : SUBSET ProviderKinds, prep : {"none", "started", "prepared", "aborted"},
   todo : SUBSET Kinds, clean : {"yes", "no"}]
PassLocals ==
  [pc : ReconStates, seen : [Kinds -> LedgerStates], todo : SUBSET ProviderKinds,
   write : LedgerStates]

(* What the parts of a step leave, as far as the invariant asks. *)
LEMMA Beats ==
  ASSUME TypeOK, Beat
  PROVE  op' \in OpRow /\ op'.state = op.state /\ op'.owner = op.owner
  BY DEF TypeOK, Beat, OpRow

LEMMA StartsCleanup ==
  ASSUME TypeOK, StartCleanup
  PROVE  coord' \in CoordLocals /\ coord'.pc = "cleanup" /\ coord'.kind = coord.kind
<1>1. coord \in CoordLocals
  BY DEF TypeOK, CoordLocals
<1>2. coord.known \cup (IF coord.prep = "prepared" THEN {"object"} ELSE {}) \in SUBSET Kinds
  BY <1>1 DEF CoordLocals, Kinds
<1> QED
  BY <1>1, <1>2 DEF StartCleanup, CoordLocals, CoordStates

LEMMA CleansUp ==
  ASSUME TypeOK, NEW ok, CleanedUp(ok)
  PROVE  coord' \in CoordLocals /\ coord'.pc = "cleanup" /\ coord'.kind = coord.kind
<1>1. coord \in CoordLocals
  BY DEF TypeOK, CoordLocals
<1>2. coord.todo \ {CleanupKind} \in SUBSET Kinds
  BY <1>1 DEF CoordLocals
<1> QED
  BY <1>1, <1>2 DEF CleanedUp, CoordLocals, CoordStates

LEMMA PassEnds ==
  ASSUME TypeOK, NEW r \in Reconcilers, recon' = [recon EXCEPT ![r] = IdlePass]
  PROVE  /\ recon' \in [Reconcilers -> PassLocals]
         /\ recon'[r].pc = "idle" /\ recon'[r].todo = {}
         /\ \A k \in Kinds : recon'[r].seen[k] = "none"
         /\ \A q \in Reconcilers \ {r} : recon'[q] = recon[q]
<1>1. NoLedger \in [Kinds -> LedgerStates] /\ \A k \in Kinds : NoLedger[k] = "none"
  BY DEF NoLedger, LedgerStates
<1>2. IdlePass \in PassLocals
  BY <1>1 DEF IdlePass, PassLocals, ReconStates, LedgerStates
<1>3. recon \in [Reconcilers -> PassLocals]
  BY DEF TypeOK, PassLocals
<1> QED
  BY <1>1, <1>2, <1>3 DEF IdlePass

LEMMA PassMoves ==
  ASSUME TypeOK, NEW r \in Reconcilers, NEW p \in ReconStates, NEW w \in LedgerStates,
         recon' = [recon EXCEPT ![r] = [recon[r] EXCEPT !.pc = p, !.write = w]]
  PROVE  /\ recon' \in [Reconcilers -> PassLocals]
         /\ recon'[r].pc = p /\ recon'[r].write = w
         /\ recon'[r].todo = recon[r].todo /\ recon'[r].seen = recon[r].seen
         /\ \A q \in Reconcilers \ {r} : recon'[q] = recon[q]
<1> DEFINE pass == [recon[r] EXCEPT !.pc = p, !.write = w]
<1>1. recon \in [Reconcilers -> PassLocals]
  BY DEF TypeOK, PassLocals
<1>2. recon[r] \in PassLocals
  BY <1>1
<1>3. /\ pass \in PassLocals /\ pass.pc = p /\ pass.write = w
      /\ pass.todo = recon[r].todo /\ pass.seen = recon[r].seen
  BY <1>2 DEF PassLocals
<1>4. recon' = [recon EXCEPT ![r] = pass]
  BY <1>1
<1> QED
  BY <1>1, <1>3, <1>4

LEMMA PassGoesOn ==
  ASSUME TypeOK, NEW r \in Reconcilers, NEW p \in ReconStates,
         recon' = [recon EXCEPT ![r].pc = p]
  PROVE  /\ recon' \in [Reconcilers -> PassLocals]
         /\ recon'[r].pc = p /\ recon'[r].write = recon[r].write
         /\ recon'[r].todo = recon[r].todo /\ recon'[r].seen = recon[r].seen
         /\ \A q \in Reconcilers \ {r} : recon'[q] = recon[q]
<1> DEFINE pass == [recon[r] EXCEPT !.pc = p]
<1>1. recon \in [Reconcilers -> PassLocals]
  BY DEF TypeOK, PassLocals
<1>2. recon[r] \in PassLocals
  BY <1>1
<1>3. /\ pass \in PassLocals /\ pass.pc = p /\ pass.write = recon[r].write
      /\ pass.todo = recon[r].todo /\ pass.seen = recon[r].seen
  BY <1>2 DEF PassLocals
<1>4. recon' = [recon EXCEPT ![r] = pass]
  BY <1>1
<1> QED
  BY <1>1, <1>3, <1>4

LEMMA UnlockTypes ==
  ASSUME TypeOK, NEW a
  PROVE  Unlocked(a) \in [ProviderKinds -> Reconcilers \cup {Coordinator, CommitTx, Free}]
  BY DEF TypeOK, Unlocked

-----------------------------------------------------------------------------
(* The parts that are about the coordinator, and the rest. *)
CoordinatorParts ==
  UnclaimedIsAbsent /\ CommitIsLast /\ UnrecordedIsNone /\ OwnedSandboxLives /\ CleanedIsGone

DurableParts ==
  /\ ReclaimersOwn /\ TodoIsListed /\ AdoptedIsLeased
  /\ SuccessIsDurable /\ LeasedSandboxLives /\ ReclaimedIsGone

(* A step of the coordinator's own memory, with a heartbeat or without,     *)
(* leaves every durable part alone.                                         *)
LEMMA LocalStep ==
  ASSUME ProvisionInvariant, op'.state = op.state, op'.owner = op.owner,
         UNCHANGED <<alloc, provider, lease, rowLock, recon>>
  PROVE  DurableParts'
<1> USE DEF ProvisionInvariant
<1>1. ReclaimersOwn'
  BY DEF ReclaimersOwn, Owns, ReclaimKind
<1>2. TodoIsListed' /\ AdoptedIsLeased'
  BY DEF TodoIsListed, AdoptedIsLeased
<1>3. SuccessIsDurable' /\ LeasedSandboxLives' /\ ReclaimedIsGone'
  BY DEF SuccessIsDurable, LeasedSandboxLives, ReclaimedIsGone
<1> QED
  BY <1>1, <1>2, <1>3 DEF DurableParts

Locks == [ProviderKinds -> Reconcilers \cup {Coordinator, CommitTx, Free}]

LEMMA LocalTypes ==
  ASSUME TypeOK, op' \in OpRow, coord' \in CoordLocals, lock' \in Locks,
         age' \in {"young", "old"}, UNCHANGED <<alloc, provider, lease, rowLock, recon>>
  PROVE  TypeOK'
  BY DEF TypeOK, OpRow, CoordLocals, Locks

(* Before the final transaction there is no lease, and nothing commits. *)
LEMMA NotCommitted ==
  ASSUME ProvisionInvariant, coord.pc \notin Finishing \/ (rowLock # CommitTx /\ Owns(Coordinator))
  PROVE  lease = "none" /\ rowLock # CommitTx
  BY DEF ProvisionInvariant, TypeOK, CommitIsLast, SuccessIsDurable, Owns

LEMMA ToCleanup ==
  ASSUME ProvisionInvariant, lease = "none", rowLock # CommitTx,
         coord' \in CoordLocals, coord'.pc = "cleanup", lock' \in Locks,
         op' \in OpRow, op'.state = op.state, op'.owner = op.owner,
         UNCHANGED <<alloc, provider, age, lease, rowLock, recon>>
  PROVE  ProvisionInvariant'
<1>1. TypeOK'
  BY LocalTypes DEF ProvisionInvariant, TypeOK
<1>2. CoordinatorParts'
  BY DEF ProvisionInvariant, CoordinatorParts, UnclaimedIsAbsent, CommitIsLast,
         UnrecordedIsNone, OwnedSandboxLives, CleanedIsGone, Allocating, Concluding
<1> QED
  BY <1>1, <1>2, LocalStep DEF ProvisionInvariant, CoordinatorParts, DurableParts

(* The steps before the final transaction that only move the coordinator. *)
LEMMA ForwardSteps ==
  ASSUME ProvisionInvariant,
         CallThrows \/ CallReturns \/ RecordStatement \/ PrepareSandbox \/ BeginPreparation
           \/ PreparationSucceeds \/ PreparationUnresolved
  PROVE  ProvisionInvariant'
<1> DEFINE Same == /\ op' \in OpRow /\ op'.state = op.state /\ op'.owner = op.owner
                   /\ lock' \in Locks /\ UNCHANGED <<alloc, provider, age, lease, rowLock, recon>>
<1> USE DEF Coordinator, CommitTx, Free
<1>1. lease = "none" /\ rowLock # CommitTx /\ coord.pc # "idle"
  BY NotCommitted
     DEF Finishing, CallThrows, CallReturns, RecordStatement, PrepareSandbox,
         BeginPreparation, PreparationSucceeds, PreparationUnresolved
<1>2. Same
  <2>1. op \in OpRow /\ lock \in Locks
    BY DEF ProvisionInvariant, TypeOK, OpRow, Locks
  <2>2. TypeOK
    BY DEF ProvisionInvariant
  <2>3. op' \in OpRow /\ op'.state = op.state /\ op'.owner = op.owner
    BY <2>1, <2>2, Beats
       DEF CallThrows, CallReturns, RecordStatement, PrepareSandbox, BeginPreparation,
           PreparationSucceeds, PreparationUnresolved
  <2>4. lock' \in Locks
    BY <2>1
       DEF Locks, CallThrows, CallReturns, RecordStatement, PrepareSandbox,
           BeginPreparation, PreparationSucceeds, PreparationUnresolved
  <2>5. UNCHANGED <<alloc, provider, age, lease, rowLock, recon>>
    BY DEF CallThrows, CallReturns, RecordStatement, PrepareSandbox, BeginPreparation,
           PreparationSucceeds, PreparationUnresolved
  <2> QED
    BY <2>3, <2>4, <2>5
<1>3. CASE StartCleanup
  <2>1. coord' \in CoordLocals /\ coord'.pc = "cleanup"
    BY <1>3, StartsCleanup DEF ProvisionInvariant
  <2> QED
    BY <1>1, <1>2, <2>1, ToCleanup
<1>4. CASE ~StartCleanup
  <2>1. coord \in CoordLocals
    BY DEF ProvisionInvariant, TypeOK, CoordLocals
  <2>2. coord' \in CoordLocals
    <3> USE DEF CoordLocals, CoordStates
    <3>1. CASE CallReturns
      <4>1. coord.known \cup {coord.kind} \in SUBSET ProviderKinds
        BY <2>1
      <4>2. coord' = [coord EXCEPT !.pc = "recording", !.known = coord.known \cup {coord.kind}]
        BY <1>4, <2>1, <3>1 DEF CallReturns
      <4> QED
        BY <2>1, <4>1, <4>2
    <3>2. CASE RecordStatement
      BY <1>4, <2>1, <3>2 DEF RecordStatement
    <3>3. CASE PrepareSandbox
      BY <1>4, <2>1, <3>3, ZenonT(60) DEF PrepareSandbox, ProviderKinds
    <3>4. CASE BeginPreparation
      BY <1>4, <2>1, <3>4 DEF BeginPreparation
    <3>5. CASE PreparationSucceeds
      BY <2>1, <3>5 DEF PreparationSucceeds
    <3> QED
      BY <1>4, <3>1, <3>2, <3>3, <3>4, <3>5 DEF CallThrows, PreparationUnresolved
  <2>3. CoordinatorParts'
    <3>1. UnclaimedIsAbsent' /\ CleanedIsGone' /\ CommitIsLast'
      BY <1>1, <1>2, <1>4, <2>1, <2>2
         DEF CoordLocals, CommitIsLast, CallThrows, CallReturns, RecordStatement,
             PrepareSandbox, BeginPreparation, PreparationSucceeds, PreparationUnresolved,
             UnclaimedIsAbsent, CleanedIsGone
    <3>2. UnrecordedIsNone'
      BY <1>1, <1>2, <1>4, <2>1, <2>2, ZenonT(60)
         DEF CoordLocals, CallThrows, CallReturns, RecordStatement, PrepareSandbox,
             BeginPreparation, PreparationSucceeds, PreparationUnresolved,
             UnrecordedIsNone, ProvisionInvariant, Allocating
    <3>3. OwnedSandboxLives'
      BY <1>1, <1>2, <1>4, <2>1, <2>2, ZenonT(60)
         DEF CoordLocals, CallThrows, CallReturns, RecordStatement, PrepareSandbox,
             BeginPreparation, PreparationSucceeds, PreparationUnresolved,
             OwnedSandboxLives, ProvisionInvariant, Allocating, Concluding, Owns
    <3> QED
      BY <3>1, <3>2, <3>3 DEF CoordinatorParts
  <2>4. TypeOK'
    BY <1>2, <2>2, LocalTypes DEF ProvisionInvariant, TypeOK
  <2> QED
    BY <1>2, <2>3, <2>4, LocalStep DEF ProvisionInvariant, CoordinatorParts, DurableParts
<1> QED
  BY <1>3, <1>4

(* Clocks and timers, the crash of the coordinator, the end of a run. *)
LEMMA AgeingSteps ==
  ASSUME ProvisionInvariant,
         TimerHeartbeat \/ HeartbeatAges \/ SandboxAges \/ CoordinatorCrash
           \/ FinalAcknowledged \/ FinalUncertain
  PROVE  ProvisionInvariant'
<1> USE DEF TimerHeartbeat, HeartbeatAges, SandboxAges, CoordinatorCrash,
            FinalAcknowledged, FinalUncertain
<1>1. op \in OpRow /\ lock \in Locks /\ coord \in CoordLocals /\ TypeOK
  BY DEF ProvisionInvariant, TypeOK, OpRow, Locks, CoordLocals
<1>2. op' \in OpRow /\ op'.state = op.state /\ op'.owner = op.owner
  BY <1>1, Beats DEF OpRow
<1>3. UNCHANGED <<alloc, provider, lease, rowLock, recon>> /\ age' \in {"young", "old"}
  BY DEF ProvisionInvariant, TypeOK
<1>4. lock' \in Locks
  BY <1>1, UnlockTypes DEF Locks
<1>5. coord' \in CoordLocals /\ coord'.kind = coord.kind
  BY <1>1 DEF CoordLocals, CoordStates
<1>6. \/ coord'.pc = coord.pc /\ coord'.todo = coord.todo
      \/ coord.pc # "idle" /\ coord'.pc = "done"
      \/ coord.pc = "committing" /\ coord'.pc = "recovering"
  BY <1>1 DEF CoordLocals
<1>7. TypeOK'
  BY <1>1, <1>2, <1>3, <1>4, <1>5, LocalTypes
<1>8. UnclaimedIsAbsent' /\ CleanedIsGone'
  BY <1>2, <1>3, <1>6
     DEF ProvisionInvariant, UnclaimedIsAbsent, CleanedIsGone, CleanupKind
<1>9. CommitIsLast'
  BY <1>2, <1>3, <1>6 DEF ProvisionInvariant, CommitIsLast, Finishing, Owns
<1>10. UnrecordedIsNone'
  BY <1>3, <1>5, <1>6 DEF ProvisionInvariant, UnrecordedIsNone, Allocating
<1>11. OwnedSandboxLives'
  BY <1>2, <1>3, <1>5, <1>6
     DEF ProvisionInvariant, OwnedSandboxLives, Owns, Allocating, Concluding
<1> HIDE DEF TimerHeartbeat, HeartbeatAges, SandboxAges, CoordinatorCrash,
            FinalAcknowledged, FinalUncertain
<1> QED
  BY <1>2, <1>3, <1>7, <1>8, <1>9, <1>10, <1>11, LocalStep
     DEF ProvisionInvariant, DurableParts

(* recoverCommitOutcome starts the cleanup of an operation that is its own. *)
LEMMA RecoverStep ==
  ASSUME ProvisionInvariant, RecoverCommitOutcome
  PROVE  ProvisionInvariant'
<1>1. op \in OpRow /\ lock \in Locks /\ coord \in CoordLocals /\ TypeOK
  BY DEF ProvisionInvariant, TypeOK, OpRow, Locks, CoordLocals
<1>2. UNCHANGED <<alloc, provider, age, lease, lock, rowLock, recon>> /\ age \in {"young", "old"}
  BY DEF RecoverCommitOutcome, ProvisionInvariant, TypeOK
<1>3. CASE Owns(Coordinator)
  <2>1. rowLock # CommitTx
    BY DEF RecoverCommitOutcome, RowFree, CommitTx, Free
  <2>2. coord' \in CoordLocals /\ coord'.pc = "cleanup"
    BY <1>1, <1>3, StartsCleanup DEF RecoverCommitOutcome
  <2>3. op' \in OpRow /\ op'.state = op.state /\ op'.owner = op.owner
    BY <1>1, <1>3, Beats DEF RecoverCommitOutcome
  <2> QED
    BY <1>1, <1>2, <1>3, <2>1, <2>2, <2>3, NotCommitted, ToCleanup
<1>4. CASE ~Owns(Coordinator)
  <2>1. UNCHANGED op /\ coord' \in CoordLocals /\ coord'.pc = "done"
    BY <1>1, <1>4 DEF RecoverCommitOutcome, CoordLocals, CoordStates
  <2>2. TypeOK'
    BY <1>1, <1>2, <2>1, LocalTypes
  <2>3. rowLock # CommitTx
    BY DEF RecoverCommitOutcome, RowFree, CommitTx, Free
  <2>4. CoordinatorParts'
    BY <1>2, <1>4, <2>1, <2>3
       DEF CoordinatorParts, UnclaimedIsAbsent, CommitIsLast, Finishing, UnrecordedIsNone,
           OwnedSandboxLives, Allocating, Concluding, CleanedIsGone, Owns
  <2> QED
    BY <1>2, <2>1, <2>2, <2>4, LocalStep
       DEF ProvisionInvariant, CoordinatorParts, DurableParts
<1> QED
  BY <1>3, <1>4

(* The final transaction starts under the row lock, and is resolved. *)
LEMMA FinalSteps ==
  ASSUME ProvisionInvariant, FinalStatement \/ DatabaseRollsBack
  PROVE  ProvisionInvariant'
<1>1. coord \in CoordLocals /\ TypeOK
  BY DEF ProvisionInvariant, TypeOK, CoordLocals
<1>2. UNCHANGED <<op, alloc, provider, age, lease, recon>>
  BY DEF FinalStatement, DatabaseRollsBack
<1>3. coord' \in CoordLocals /\ coord'.kind = coord.kind /\ lock' \in Locks
  <2>1. coord' \in CoordLocals /\ coord'.kind = coord.kind
    BY <1>1 DEF FinalStatement, DatabaseRollsBack, CoordLocals, CoordStates
  <2>2. lock' \in Locks
    BY <1>1 DEF FinalStatement, DatabaseRollsBack, TypeOK, Locks
  <2> QED
    BY <2>1, <2>2
<1>4. \/ /\ coord.pc = "final" /\ rowLock = Free
         /\ \/ coord'.pc = "committing" /\ rowLock' = CommitTx /\ Owns(Coordinator)
            \/ coord'.pc = "recovering" /\ rowLock' = rowLock
      \/ UNCHANGED coord /\ rowLock = CommitTx /\ rowLock' = Free
  BY <1>1 DEF FinalStatement, DatabaseRollsBack, CoordLocals, RowFree
<1>5. TypeOK'
  <2>1. rowLock' \in Reconcilers \cup {CommitTx, Free}
    BY <1>1, <1>4 DEF TypeOK
  <2> QED
    BY <1>1, <1>2, <1>3, <2>1 DEF TypeOK, CoordLocals, Locks
<1>6. UnclaimedIsAbsent' /\ CleanedIsGone'
  BY <1>2, <1>4 DEF ProvisionInvariant, UnclaimedIsAbsent, CleanedIsGone, CleanupKind
<1>7. CommitIsLast'
  BY <1>2, <1>4 DEF ProvisionInvariant, CommitIsLast, Finishing, Owns, CommitTx, Free
<1>8. UnrecordedIsNone'
  BY <1>2, <1>3, <1>4 DEF ProvisionInvariant, UnrecordedIsNone, Allocating
<1>9. OwnedSandboxLives'
  BY <1>2, <1>3, <1>4
     DEF ProvisionInvariant, OwnedSandboxLives, Owns, Allocating, Concluding, CommitTx,
         Free
<1>10. ReclaimersOwn'
  BY <1>2, <1>4, ActorsAssumption DEF ProvisionInvariant, ReclaimersOwn, Owns, ReclaimKind
<1>11. TodoIsListed' /\ AdoptedIsLeased'
  BY <1>2 DEF ProvisionInvariant, TodoIsListed, AdoptedIsLeased
<1>12. SuccessIsDurable' /\ LeasedSandboxLives' /\ ReclaimedIsGone'
  BY <1>2 DEF ProvisionInvariant, SuccessIsDurable, LeasedSandboxLives, ReclaimedIsGone
<1> QED
  BY <1>5, <1>6, <1>7, <1>8, <1>9, <1>10, <1>11, <1>12 DEF ProvisionInvariant

LEMMA CommitStep ==
  ASSUME ProvisionInvariant, DatabaseCommits
  PROVE  ProvisionInvariant'
<1>1. /\ rowLock = CommitTx /\ lease' = "active" /\ op'.state = "succeeded"
      /\ UNCHANGED <<provider, age, coord, recon>> /\ rowLock' = Free
      /\ \A k \in Kinds : alloc'[k] = "adopted"
  BY DEF DatabaseCommits, ProvisionInvariant, TypeOK
<1>2. coord.pc \in Finishing /\ Owns(Coordinator)
  BY <1>1 DEF ProvisionInvariant, CommitIsLast
<1>3. alloc["sandbox"] = "allocated" /\ provider["sandbox"] = "live"
  BY <1>1, <1>2 DEF ProvisionInvariant, OwnedSandboxLives
<1>4. TypeOK'
  <2>1. TypeOK
    BY DEF ProvisionInvariant
  <2>2. op' \in OpRow
    BY <2>1 DEF DatabaseCommits, TypeOK, OpRow
  <2>3. alloc' \in [Kinds -> LedgerStates] /\ lock' \in Locks
    BY DEF DatabaseCommits, LedgerStates, Locks
  <2> QED
    BY <1>1, <2>1, <2>2, <2>3 DEF TypeOK, OpRow, Locks
<1>5. \A r \in Reconcilers : recon[r].pc \notin Holding
  BY <1>1, ActorsAssumption DEF ProvisionInvariant, ReclaimersOwn
<1>6. UnclaimedIsAbsent' /\ CommitIsLast' /\ UnrecordedIsNone' /\ OwnedSandboxLives'
  BY <1>1, <1>2
     DEF UnclaimedIsAbsent, CommitIsLast, UnrecordedIsNone, OwnedSandboxLives, Finishing,
         Allocating, Owns, CommitTx, Free
<1>7. CleanedIsGone'
  BY <1>1 DEF ProvisionInvariant, CleanedIsGone, CleanupKind
<1>8. ReclaimersOwn'
  BY <1>1, <1>5 DEF ReclaimersOwn
<1>9. TodoIsListed'
  <2>1. \A r \in Reconcilers : recon[r].todo \in SUBSET Kinds
    BY DEF ProvisionInvariant, TypeOK, Kinds
  <2> QED
    BY <1>1, <2>1 DEF TodoIsListed
<1>10. AdoptedIsLeased' /\ SuccessIsDurable'
  BY <1>1 DEF AdoptedIsLeased, SuccessIsDurable
<1>11. LeasedSandboxLives' /\ ReclaimedIsGone'
  BY <1>1, <1>3 DEF LeasedSandboxLives, ReclaimedIsGone, Kinds
<1> QED
  BY <1>4, <1>6, <1>7, <1>8, <1>9, <1>10, <1>11 DEF ProvisionInvariant

LEMMA ClaimStep ==
  ASSUME ProvisionInvariant, Claim
  PROVE  ProvisionInvariant'
<1>1. coord \in CoordLocals /\ TypeOK
  BY DEF ProvisionInvariant, TypeOK, CoordLocals
<1>2. /\ op.state = "absent" /\ coord.pc = "idle" /\ coord.kind = "sandbox"
      /\ UNCHANGED <<alloc, provider, age, lease, lock, rowLock, recon>>
  BY DEF ProvisionInvariant, UnclaimedIsAbsent, Claim
<1>3. op' \in OpRow /\ op'.state = "in_progress" /\ op'.owner = Coordinator
  BY DEF Claim, OpRow
<1>4. coord' \in CoordLocals /\ coord'.pc = "calling" /\ coord'.kind = "sandbox"
  BY <1>1, <1>2 DEF Claim, CoordLocals, CoordStates
<1>5. rowLock # CommitTx /\ \A r \in Reconcilers : recon[r].pc \notin Holding
  BY <1>2 DEF ProvisionInvariant, CommitIsLast, ReclaimersOwn, Owns
<1>6. TypeOK'
  BY <1>1, <1>2, <1>3, <1>4 DEF TypeOK, OpRow, CoordLocals
<1>7. UnclaimedIsAbsent' /\ CleanedIsGone' /\ ReclaimersOwn'
  BY <1>2, <1>4, <1>5 DEF UnclaimedIsAbsent, CleanedIsGone, ReclaimersOwn
<1>8. CommitIsLast' /\ OwnedSandboxLives'
  BY <1>2, <1>4, <1>5
     DEF ProvisionInvariant, CommitIsLast, OwnedSandboxLives, Concluding, Finishing
<1>9. UnrecordedIsNone'
  BY <1>2, <1>4 DEF ProvisionInvariant, UnrecordedIsNone, Allocating
<1>10. TodoIsListed' /\ AdoptedIsLeased'
  BY <1>2 DEF ProvisionInvariant, TodoIsListed, AdoptedIsLeased
<1>11. SuccessIsDurable' /\ LeasedSandboxLives' /\ ReclaimedIsGone'
  BY <1>2, <1>3
     DEF ProvisionInvariant, SuccessIsDurable, LeasedSandboxLives, ReclaimedIsGone
<1> QED
  BY <1>6, <1>7, <1>8, <1>9, <1>10, <1>11 DEF ProvisionInvariant

(* The provider brings to life only what no ledger row and no pass names. *)
LEMMA AllocateStep ==
  ASSUME ProvisionInvariant, ProviderAllocates
  PROVE  ProvisionInvariant'
<1>1. coord \in CoordLocals /\ coord.pc = "calling" /\ coord.kind \in ProviderKinds /\ TypeOK
  BY DEF ProvisionInvariant, TypeOK, CoordLocals, ProviderAllocates
<1>2. /\ UNCHANGED <<op, alloc, age, lease, lock, rowLock, recon>>
      /\ provider' \in [ProviderKinds -> {"none", "live", "gone"}]
      /\ provider'[coord.kind] = "live"
      /\ \A k \in ProviderKinds \ {coord.kind} : provider'[k] = provider[k]
  BY <1>1 DEF ProviderAllocates, TypeOK
<1>3. coord' \in CoordLocals /\ coord'.pc = "returned" /\ coord'.kind = coord.kind
  BY <1>1 DEF ProviderAllocates, CoordLocals, CoordStates
<1>4. lease = "none" /\ rowLock # CommitTx /\ alloc[coord.kind] = "none"
  BY <1>1, NotCommitted DEF ProvisionInvariant, UnrecordedIsNone, Finishing, Allocating
<1>5. TypeOK'
  BY <1>1, <1>2, <1>3 DEF TypeOK, CoordLocals
<1>6. UnclaimedIsAbsent' /\ CleanedIsGone' /\ CommitIsLast' /\ LeasedSandboxLives'
  BY <1>2, <1>3, <1>4
     DEF UnclaimedIsAbsent, CleanedIsGone, CommitIsLast, LeasedSandboxLives
<1>7. UnrecordedIsNone' /\ OwnedSandboxLives'
  BY <1>1, <1>2, <1>3, <1>4
     DEF ProvisionInvariant, UnrecordedIsNone, OwnedSandboxLives, Owns, Allocating,
         Concluding, ProviderKinds
<1>8. ReclaimersOwn'
  <2>1. \A r \in Reconcilers : recon[r].pc \in Holding =>
          ReclaimKind(r) \in ProviderKinds \ {coord.kind}
    <3> SUFFICES ASSUME NEW r \in Reconcilers, recon[r].pc \in Holding
                 PROVE  ReclaimKind(r) \in ProviderKinds \ {coord.kind}
      OBVIOUS
    <3>1. recon[r].todo # {} /\ recon[r].todo \subseteq ProviderKinds
      BY DEF ProvisionInvariant, ReclaimersOwn, TypeOK
    <3>2. ReclaimKind(r) \in recon[r].todo
      BY <3>1 DEF ReclaimKind, ProviderKinds
    <3>3. alloc[ReclaimKind(r)] # "none"
      BY <3>2 DEF ProvisionInvariant, TodoIsListed
    <3> QED
      BY <1>4, <3>1, <3>2, <3>3
  <2>2. \A r \in Reconcilers : ReclaimKind(r)' = ReclaimKind(r)
    BY <1>2 DEF ReclaimKind
  <2> QED
    BY <1>2, <2>1, <2>2 DEF ProvisionInvariant, ReclaimersOwn, Owns
<1>9. TodoIsListed' /\ AdoptedIsLeased' /\ SuccessIsDurable'
  BY <1>2 DEF ProvisionInvariant, TodoIsListed, AdoptedIsLeased, SuccessIsDurable
<1>10. ReclaimedIsGone'
  BY <1>2, <1>4 DEF ProvisionInvariant, ReclaimedIsGone
<1> QED
  BY <1>5, <1>6, <1>7, <1>8, <1>9, <1>10 DEF ProvisionInvariant

(* A new ledger row protects what it names; it never replaces another. *)
LEMMA RecordSteps ==
  ASSUME ProvisionInvariant, RecordCommit \/ RecordUncertain
  PROVE  ProvisionInvariant'
<1>1. coord \in CoordLocals /\ coord.pc = "inserted" /\ coord.kind \in ProviderKinds /\ TypeOK
  BY DEF ProvisionInvariant, TypeOK, CoordLocals, RecordCommit, RecordUncertain
<1>2. /\ UNCHANGED <<op, provider, age, lease, rowLock, recon>>
      /\ \A k \in Kinds \ {coord.kind} : alloc'[k] = alloc[k]
  BY <1>1 DEF RecordCommit, RecordUncertain, TypeOK
<1>3. alloc' \in [Kinds -> LedgerStates] /\ lock' \in Locks
  <2>1. coord.kind \in Kinds /\ "allocated" \in LedgerStates
    BY <1>1 DEF Kinds, LedgerStates
  <2>2. alloc' \in [Kinds -> LedgerStates]
    BY <1>1, <2>1 DEF RecordCommit, RecordUncertain, TypeOK
  <2>3. lock' \in Locks
    BY <1>1 DEF RecordCommit, RecordUncertain, TypeOK, Locks
  <2> QED
    BY <2>2, <2>3
<1>4. lease = "none" /\ rowLock # CommitTx /\ alloc[coord.kind] = "none"
  BY <1>1, NotCommitted DEF ProvisionInvariant, UnrecordedIsNone, Finishing, Allocating
<1>5. coord' \in CoordLocals /\ coord'.kind = coord.kind
  <2>1. CASE RecordCommit
    <3>1. coord.recorded \cup {coord.kind} \in SUBSET ProviderKinds
      BY <1>1 DEF CoordLocals
    <3> QED
      BY <1>1, <2>1, <3>1 DEF RecordCommit, CoordLocals, CoordStates
  <2>2. CASE RecordUncertain
    BY <1>1, <2>2, StartsCleanup DEF RecordUncertain
  <2> QED
    BY <2>1, <2>2
<1>6. /\ alloc'[coord.kind] \in {"none", "allocated"}
      /\ \/ coord'.pc = "recorded" /\ alloc'[coord.kind] = "allocated"
         \/ coord'.pc = "cleanup"
  <2>1. CASE RecordCommit
    BY <1>1, <2>1 DEF RecordCommit, TypeOK, CoordLocals, Kinds
  <2>2. CASE RecordUncertain
    BY <1>1, <1>4, <2>2, StartsCleanup DEF RecordUncertain, TypeOK, Kinds
  <2> QED
    BY <2>1, <2>2
<1>7. TypeOK'
  BY <1>1, <1>2, <1>3, <1>5 DEF TypeOK, CoordLocals, Locks
<1>8. UnclaimedIsAbsent' /\ CleanedIsGone' /\ CommitIsLast'
  BY <1>2, <1>4, <1>6 DEF UnclaimedIsAbsent, CleanedIsGone, CommitIsLast
<1>9. UnrecordedIsNone'
  BY <1>1, <1>2, <1>5, <1>6
     DEF ProvisionInvariant, UnrecordedIsNone, Allocating, Kinds, ProviderKinds
<1>10. OwnedSandboxLives'
  BY <1>1, <1>2, <1>4, <1>5, <1>6
     DEF ProvisionInvariant, OwnedSandboxLives, Owns, Allocating, Concluding, Kinds,
         ProviderKinds
<1>11. ReclaimersOwn'
  BY <1>2 DEF ProvisionInvariant, ReclaimersOwn, Owns, ReclaimKind
<1>12. TodoIsListed'
  <2>1. \A r \in Reconcilers : recon[r].todo \in SUBSET Kinds
    BY <1>1 DEF TypeOK, Kinds
  <2> QED
    BY <1>2, <1>4, <2>1 DEF ProvisionInvariant, TodoIsListed
<1>13. AdoptedIsLeased'
  BY <1>2, <1>6 DEF ProvisionInvariant, AdoptedIsLeased
<1>14. SuccessIsDurable' /\ LeasedSandboxLives'
  BY <1>2, <1>4 DEF ProvisionInvariant, SuccessIsDurable, LeasedSandboxLives
<1>15. ReclaimedIsGone'
  BY <1>2, <1>6 DEF ProvisionInvariant, ReclaimedIsGone, Kinds
<1> QED
  BY <1>7, <1>8, <1>9, <1>10, <1>11, <1>12, <1>13, <1>14, <1>15 DEF ProvisionInvariant

(* The prepared objects are recorded under the fence. *)
LEMMA PublishStep ==
  ASSUME ProvisionInvariant, PreparationPublishes
  PROVE  ProvisionInvariant'
<1>1. TypeOK /\ coord.pc = "preparing" /\ UNCHANGED <<op, provider, age, lease, lock, rowLock, coord, recon>>
  BY DEF ProvisionInvariant, PreparationPublishes
<1>2. /\ alloc' \in [Kinds -> LedgerStates] /\ alloc'["object"] = "allocated"
      /\ \A k \in ProviderKinds : alloc'[k] = alloc[k]
  BY <1>1 DEF PreparationPublishes, TypeOK, Kinds, ProviderKinds, LedgerStates
<1>3. lease = "none"
  BY <1>1, NotCommitted DEF Finishing
<1>4. TypeOK'
  BY <1>1, <1>2 DEF TypeOK
<1>5. CoordinatorParts'
  BY <1>1, <1>2
     DEF ProvisionInvariant, CoordinatorParts, UnclaimedIsAbsent, CommitIsLast,
         UnrecordedIsNone, OwnedSandboxLives, CleanedIsGone, CleanupKind, Owns,
         Allocating, ProviderKinds
<1>6. ReclaimersOwn' /\ LeasedSandboxLives'
  BY <1>1 DEF ProvisionInvariant, ReclaimersOwn, LeasedSandboxLives, Owns, ReclaimKind
<1>7. TodoIsListed'
  <2>1. \A r \in Reconcilers : recon[r].todo \in SUBSET ProviderKinds
    BY <1>1 DEF TypeOK
  <2> QED
    BY <1>1, <1>2, <2>1 DEF ProvisionInvariant, TodoIsListed
<1>8. AdoptedIsLeased' /\ SuccessIsDurable' /\ ReclaimedIsGone'
  BY <1>1, <1>2, <1>3
     DEF ProvisionInvariant, AdoptedIsLeased, SuccessIsDurable, ReclaimedIsGone, Kinds
<1> QED
  BY <1>4, <1>5, <1>6, <1>7, <1>8 DEF ProvisionInvariant, CoordinatorParts

(* A run that is being undone: resources only vanish, and a row is marked   *)
(* reclaimed after its resource did.                                        *)
LEMMA Undoing ==
  ASSUME ProvisionInvariant, lease = "none", rowLock # CommitTx,
         coord' \in CoordLocals, coord'.pc \in {"cleanup", "killed", "reclaiming"},
         CleanedIsGone', lock' \in Locks,
         op' \in OpRow, op'.state = op.state, op'.owner = op.owner,
         UNCHANGED <<age, lease, rowLock, recon>>,
         provider' \in [ProviderKinds -> {"none", "live", "gone"}],
         \A k \in ProviderKinds : provider'[k] \in {provider[k], "gone"},
         alloc' \in [Kinds -> LedgerStates],
         \A k \in Kinds : \/ alloc'[k] = alloc[k]
                          \/ /\ alloc'[k] = "reclaimed"
                             /\ k \in ProviderKinds => provider[k] = "gone"
  PROVE  ProvisionInvariant'
<1>1. TypeOK
  BY DEF ProvisionInvariant
<1>2. TypeOK'
  BY <1>1 DEF TypeOK, OpRow, CoordLocals, Locks
<1>3. UnclaimedIsAbsent' /\ CommitIsLast' /\ UnrecordedIsNone' /\ OwnedSandboxLives'
  BY DEF UnclaimedIsAbsent, CommitIsLast, UnrecordedIsNone, OwnedSandboxLives, Allocating,
         Concluding
<1>4. ReclaimersOwn'
  <2>1. \A r \in Reconcilers : ReclaimKind(r)' = ReclaimKind(r) /\ ReclaimKind(r) \in ProviderKinds
    BY DEF ReclaimKind, ProviderKinds
  <2> QED
    BY <2>1 DEF ProvisionInvariant, ReclaimersOwn, Owns
<1>5. TodoIsListed'
  <2>1. \A r \in Reconcilers : recon[r].todo \in SUBSET Kinds
    BY <1>1 DEF TypeOK, Kinds
  <2> QED
    BY <2>1 DEF ProvisionInvariant, TodoIsListed
<1>6. AdoptedIsLeased' /\ SuccessIsDurable' /\ LeasedSandboxLives'
  BY DEF ProvisionInvariant, AdoptedIsLeased, SuccessIsDurable, LeasedSandboxLives
<1>7. ReclaimedIsGone'
  BY DEF ProvisionInvariant, ReclaimedIsGone, Kinds
<1> QED
  BY <1>2, <1>3, <1>4, <1>5, <1>6, <1>7 DEF ProvisionInvariant

LEMMA AbortSteps ==
  ASSUME ProvisionInvariant, PreparationAborts \/ AbortPreparation
  PROVE  ProvisionInvariant'
<1>1. TypeOK /\ coord \in CoordLocals /\ op \in OpRow /\ lock \in Locks
  BY DEF ProvisionInvariant, TypeOK, CoordLocals, OpRow, Locks
<1>2. lease = "none" /\ rowLock # CommitTx
  BY NotCommitted DEF PreparationAborts, AbortPreparation, Finishing
<1>3. UNCHANGED <<provider, age, lease, lock, rowLock, recon>>
  BY DEF PreparationAborts, AbortPreparation
<1>4. op' \in OpRow /\ op'.state = op.state /\ op'.owner = op.owner
  BY <1>1, Beats DEF PreparationAborts, AbortPreparation
<1>5. coord' \in CoordLocals /\ coord'.pc = "cleanup"
  <2>1. CASE PreparationAborts
    <3>1. coord.known \in SUBSET Kinds
      BY <1>1 DEF CoordLocals, Kinds
    <3> QED
      BY <1>1, <2>1, <3>1 DEF PreparationAborts, CoordLocals, CoordStates
  <2>2. CASE AbortPreparation
    BY <1>1, <2>2, CleansUp DEF AbortPreparation
  <2> QED
    BY <2>1, <2>2
<1>6. /\ alloc' \in [Kinds -> LedgerStates] /\ \A k \in ProviderKinds : alloc'[k] = alloc[k]
      /\ alloc'["object"] \in {alloc["object"], "reclaimed"}
  BY <1>1, ZenonT(60)
     DEF PreparationAborts, AbortPreparation, TypeOK, Kinds, ProviderKinds, LedgerStates
<1>7. CleanedIsGone'
  BY <1>5 DEF CleanedIsGone
<1>8. provider \in [ProviderKinds -> {"none", "live", "gone"}]
  BY <1>1 DEF TypeOK
<1>9. \A k \in Kinds : \/ alloc'[k] = alloc[k]
                       \/ /\ alloc'[k] = "reclaimed"
                          /\ k \in ProviderKinds => provider[k] = "gone"
  BY <1>6 DEF Kinds, ProviderKinds
<1> QED
  BY <1>1, <1>2, <1>3, <1>4, <1>5, <1>6, <1>7, <1>8, <1>9, Undoing

(* cleanupFailedProvision, one resource after the other. *)
LEMMA CleanupSteps ==
  ASSUME ProvisionInvariant,
         CleanupCall \/ CleanupCallThrows \/ CleanupStatement \/ CleanupCommit \/ CleanupRollsBack
  PROVE  ProvisionInvariant'
<1>1. TypeOK /\ coord \in CoordLocals /\ op \in OpRow /\ lock \in Locks
  BY DEF ProvisionInvariant, TypeOK, CoordLocals, OpRow, Locks
<1>2. lease = "none" /\ rowLock # CommitTx
  BY NotCommitted
     DEF CleanupCall, CleanupCallThrows, CleanupStatement, CleanupCommit,
         CleanupRollsBack, CleanupReady, Finishing
<1>3. /\ CleanupKind \in ProviderKinds
      /\ coord.pc \in {"killed", "reclaiming"} => provider[CleanupKind] = "gone"
  BY DEF ProvisionInvariant, CleanedIsGone, CleanupCall, CleanupCallThrows,
         CleanupStatement, CleanupCommit, CleanupRollsBack, CleanupReady
<1>4. UNCHANGED <<age, lease, rowLock, recon>>
  BY DEF CleanupCall, CleanupCallThrows, CleanupStatement, CleanupCommit, CleanupRollsBack
<1>5. op' \in OpRow /\ op'.state = op.state /\ op'.owner = op.owner
  BY <1>1, Beats
     DEF CleanupCall, CleanupCallThrows, CleanupStatement, CleanupCommit, CleanupRollsBack
<1>6. lock' \in Locks
  BY <1>1, <1>3
     DEF CleanupCall, CleanupCallThrows, CleanupStatement, CleanupCommit,
         CleanupRollsBack, Locks
<1>7. provider' \in [ProviderKinds -> {"none", "live", "gone"}]
  BY <1>1, <1>3
     DEF CleanupCall, CleanupCallThrows, CleanupStatement, CleanupCommit,
         CleanupRollsBack, TypeOK
<1>8. \A k \in ProviderKinds : provider'[k] \in {provider[k], "gone"}
  BY <1>1, <1>3
     DEF CleanupCall, CleanupCallThrows, CleanupStatement, CleanupCommit,
         CleanupRollsBack, TypeOK
<1>9. alloc' \in [Kinds -> LedgerStates] /\
      \A k \in Kinds : \/ alloc'[k] = alloc[k]
                       \/ /\ alloc'[k] = "reclaimed"
                          /\ k \in ProviderKinds => provider[k] = "gone"
  BY <1>1, <1>3, ZenonT(60)
     DEF CleanupCall, CleanupCallThrows, CleanupStatement, CleanupCommit,
         CleanupRollsBack, TypeOK, LedgerStates
<1>10. /\ coord' \in CoordLocals /\ coord'.pc \in {"cleanup", "killed", "reclaiming"}
       /\ CleanedIsGone'
  <2>1. CASE \E ok : CleanedUp(ok)
    BY <1>1, <2>1, CleansUp DEF CleanedIsGone
  <2>2. CASE CleanupCall
    <3>1. coord' \in CoordLocals /\ coord'.pc = "killed" /\ coord'.todo = coord.todo
      BY <1>1, <2>2 DEF CleanupCall, CoordLocals, CoordStates
    <3>2. CleanupKind' = CleanupKind
      BY <3>1 DEF CleanupKind
    <3>3. provider'[CleanupKind] = "gone"
      BY <1>1, <1>3, <2>2 DEF CleanupCall, TypeOK
    <3> QED
      BY <1>3, <3>1, <3>2, <3>3 DEF CleanedIsGone
  <2>3. CASE CleanupStatement /\ ~\E ok : CleanedUp(ok)
    <3>1. coord' = [coord EXCEPT !.pc = "reclaiming"] /\ coord.pc = "killed" /\ UNCHANGED provider
      BY <2>3 DEF CleanupStatement
    <3>2. coord' \in CoordLocals /\ coord'.pc = "reclaiming" /\ coord'.todo = coord.todo
      BY <1>1, <3>1 DEF CoordLocals, CoordStates
    <3>3. CleanupKind' = CleanupKind
      BY <3>2 DEF CleanupKind
    <3> QED
      BY <1>3, <3>1, <3>2, <3>3 DEF CleanedIsGone
  <2> QED
    BY <2>1, <2>2, <2>3 DEF CleanupCallThrows, CleanupCommit, CleanupRollsBack
<1> QED
  BY <1>2, <1>4, <1>5, <1>6, <1>7, <1>8, <1>9, <1>10, Undoing

LEMMA CleanupEnds ==
  ASSUME ProvisionInvariant, CleanupDone
  PROVE  ProvisionInvariant'
<1>1. TypeOK /\ coord \in CoordLocals /\ op \in OpRow
  BY DEF ProvisionInvariant, TypeOK, CoordLocals, OpRow
<1>2. lease = "none" /\ UNCHANGED <<alloc, provider, age, lease, lock, rowLock, recon>>
  BY NotCommitted DEF CleanupDone, Finishing
<1>3. coord' \in CoordLocals /\ coord'.pc = "done"
  BY <1>1 DEF CleanupDone, CoordLocals, CoordStates
<1>4. op' \in OpRow /\ (UNCHANGED op \/ op'.state = "failed_terminal")
  BY <1>1 DEF CleanupDone, OpRow
<1>5. rowLock # CommitTx /\ \A r \in Reconcilers : recon[r].pc \notin Holding
  BY ActorsAssumption
     DEF ProvisionInvariant, ReclaimersOwn, CleanupDone, RowFree, CommitTx, Free
<1>6. TypeOK'
  BY <1>1, <1>2, <1>3, <1>4 DEF TypeOK, CoordLocals, OpRow
<1>7. CoordinatorParts'
  BY <1>2, <1>3, <1>5
     DEF CoordinatorParts, UnclaimedIsAbsent, CommitIsLast, UnrecordedIsNone,
         OwnedSandboxLives, CleanedIsGone, Allocating, Concluding
<1>8. ReclaimersOwn' /\ TodoIsListed' /\ AdoptedIsLeased'
  BY <1>2, <1>5 DEF ProvisionInvariant, ReclaimersOwn, TodoIsListed, AdoptedIsLeased
<1>9. SuccessIsDurable' /\ LeasedSandboxLives' /\ ReclaimedIsGone'
  BY <1>2, <1>4
     DEF ProvisionInvariant, SuccessIsDurable, LeasedSandboxLives, ReclaimedIsGone
<1> QED
  BY <1>6, <1>7, <1>8, <1>9 DEF ProvisionInvariant, CoordinatorParts

-----------------------------------------------------------------------------
(* The reconcilers. *)

(* A step after which the pass holds no row, and that changed nothing else. *)
LEMMA PassOnly ==
  ASSUME ProvisionInvariant, NEW r \in Reconcilers,
         recon' \in [Reconcilers -> PassLocals], recon'[r].pc \notin Holding,
         \A q \in Reconcilers \ {r} : recon'[q] = recon[q],
         \A k \in recon'[r].todo : alloc[k] # "none",
         \A k \in Kinds : recon'[r].seen[k] = "adopted" => lease = "active",
         lock' \in Locks, rowLock' = rowLock \/ (rowLock = r /\ rowLock' = Free),
         UNCHANGED <<op, alloc, provider, age, lease, coord>>
  PROVE  ProvisionInvariant'
<1>1. TypeOK'
  <2>1. rowLock' \in Reconcilers \cup {CommitTx, Free}
    BY DEF ProvisionInvariant, TypeOK
  <2> QED
    BY <2>1 DEF ProvisionInvariant, TypeOK, PassLocals, Locks
<1>2. rowLock' = CommitTx <=> rowLock = CommitTx
  BY ActorsAssumption DEF CommitTx, Free
<1>3. CoordinatorParts'
  BY <1>2
     DEF ProvisionInvariant, CoordinatorParts, UnclaimedIsAbsent, CommitIsLast,
         UnrecordedIsNone, OwnedSandboxLives, CleanedIsGone, CleanupKind, Owns
<1>4. ReclaimersOwn'
  BY DEF ProvisionInvariant, ReclaimersOwn, Owns, ReclaimKind
<1>5. TodoIsListed' /\ AdoptedIsLeased'
  BY DEF ProvisionInvariant, TodoIsListed, AdoptedIsLeased
<1>6. SuccessIsDurable' /\ LeasedSandboxLives' /\ ReclaimedIsGone'
  BY DEF ProvisionInvariant, SuccessIsDurable, LeasedSandboxLives, ReclaimedIsGone
<1> QED
  BY <1>1, <1>3, <1>4, <1>5, <1>6 DEF ProvisionInvariant, CoordinatorParts

LEMMA PassEnding ==
  ASSUME ProvisionInvariant, NEW r \in Reconcilers, recon' = [recon EXCEPT ![r] = IdlePass],
         lock' \in Locks, rowLock' = rowLock \/ (rowLock = r /\ rowLock' = Free),
         UNCHANGED <<op, alloc, provider, age, lease, coord>>
  PROVE  ProvisionInvariant'
<1>1. TypeOK
  BY DEF ProvisionInvariant
<1> QED
  BY <1>1, PassEnds, PassOnly DEF Holding

LEMMA ListingSteps ==
  ASSUME ProvisionInvariant, NEW r \in Reconcilers,
         ListAllocations(r) \/ ListAgain(r) \/ LockTimeout(r) \/ InventoryObserve(r) \/ PassAborts(r)
  PROVE  ProvisionInvariant'
<1>1. TypeOK /\ lock \in Locks /\ recon \in [Reconcilers -> PassLocals]
  BY DEF ProvisionInvariant, TypeOK, Locks, PassLocals
<1>2. alloc \in [Kinds -> LedgerStates] /\ \A k \in Kinds : alloc[k] = "adopted" => lease = "active"
  BY <1>1 DEF TypeOK, ProvisionInvariant, AdoptedIsLeased
<1>3. CASE ListAllocations(r)
  <2> DEFINE pass == [pc |-> "working", seen |-> alloc, write |-> "none",
        todo |-> {k \in ProviderKinds : alloc[k] \in {"allocated", "reclaim_pending"}}]
  <2>1. pass \in PassLocals
    BY <1>2 DEF PassLocals, ReconStates, LedgerStates
  <2>2. recon' = [recon EXCEPT ![r] = pass] /\ UNCHANGED <<op, alloc, provider, age, lease, lock, rowLock, coord>>
    BY <1>3 DEF ListAllocations
  <2>3. recon' \in [Reconcilers -> PassLocals] /\ recon'[r] = pass
        /\ \A q \in Reconcilers \ {r} : recon'[q] = recon[q]
    BY <1>1, <2>1, <2>2
  <2>4. pass.pc \notin Holding /\ \A k \in pass.todo : alloc[k] # "none"
    BY DEF Holding
  <2> QED
    BY <1>1, <1>2, <2>2, <2>3, <2>4, PassOnly
<1>4. CASE ListAgain(r)
  <2> DEFINE pass == [recon[r] EXCEPT !.pc = "deciding", !.seen = alloc]
  <2>1. recon[r] \in PassLocals /\ recon[r].todo = {}
    BY <1>1, <1>4 DEF ListAgain
  <2>2. pass \in PassLocals /\ pass.pc = "deciding" /\ pass.seen = alloc /\ pass.todo = {}
    BY <1>2, <2>1 DEF PassLocals, ReconStates
  <2>3. recon' = [recon EXCEPT ![r] = pass] /\ UNCHANGED <<op, alloc, provider, age, lease, lock, rowLock, coord>>
    BY <1>1, <1>4 DEF ListAgain
  <2> HIDE DEF pass
  <2>4. recon' \in [Reconcilers -> PassLocals] /\ recon'[r] = pass
        /\ \A q \in Reconcilers \ {r} : recon'[q] = recon[q]
    BY <1>1, <2>2, <2>3
  <2> QED
    BY <1>1, <1>2, <2>2, <2>3, <2>4, PassOnly DEF Holding
<1>5. CASE LockTimeout(r)
  BY <1>1, <1>5, PassEnding DEF LockTimeout
<1>6. CASE InventoryObserve(r)
  <2>1. "inv_snapshots" \in ReconStates \ Holding
    BY DEF ReconStates, Holding
  <2>2. /\ recon' = [recon EXCEPT ![r].pc = "inv_snapshots"]
        /\ UNCHANGED <<op, alloc, provider, age, lease, lock, rowLock, coord>>
    BY <1>6 DEF InventoryObserve
  <2>3. /\ recon' \in [Reconcilers -> PassLocals] /\ recon'[r].pc \notin Holding
        /\ recon'[r].todo = recon[r].todo /\ recon'[r].seen = recon[r].seen
        /\ \A q \in Reconcilers \ {r} : recon'[q] = recon[q]
    BY <1>1, <2>1, <2>2, PassGoesOn
  <2>4. /\ \A k \in recon[r].todo : alloc[k] # "none"
        /\ \A k \in Kinds : recon[r].seen[k] = "adopted" => lease = "active"
    BY DEF ProvisionInvariant, TodoIsListed, AdoptedIsLeased
  <2> QED
    BY <1>1, <2>2, <2>3, <2>4, PassOnly
<1>7. CASE PassAborts(r)
  <2>1. lock' \in Locks
    BY <1>1, <1>7, UnlockTypes DEF PassAborts, Locks
  <2> QED
    BY <1>7, <2>1, PassEnding DEF PassAborts
<1> QED
  BY <1>3, <1>4, <1>5, <1>6, <1>7

(* A takeover or a verdict: the row is free, so nobody is in the middle of  *)
(* a transaction on it.                                                     *)
LEMMA TakeOverStep ==
  ASSUME ProvisionInvariant, NEW r \in Reconcilers, TakeOver(r)
  PROVE  ProvisionInvariant'
<1>1. TypeOK /\ op \in OpRow /\ op.state = "in_progress"
  BY DEF ProvisionInvariant, TypeOK, OpRow, TakeOver
<1>2. op' \in OpRow /\ op'.state = "in_progress" /\ op'.owner = r
  BY <1>1 DEF TakeOver, OpRow
<1>3. UNCHANGED <<alloc, provider, age, lease, lock, rowLock, coord>>
  BY DEF TakeOver
<1>4. "claimed" \in ReconStates /\ "claimed" \notin Holding
  BY DEF ReconStates, Holding
<1>5. /\ recon' \in [Reconcilers -> PassLocals] /\ recon'[r].pc \notin Holding
      /\ recon'[r].todo = recon[r].todo /\ recon'[r].seen = recon[r].seen
      /\ \A q \in Reconcilers \ {r} : recon'[q] = recon[q]
  BY <1>1, <1>4, PassGoesOn DEF TakeOver
<1>6. rowLock # CommitTx /\ \A q \in Reconcilers : recon[q].pc \notin Holding
  BY ActorsAssumption
     DEF ProvisionInvariant, ReclaimersOwn, TakeOver, RowFree, CommitTx, Free
<1>7. ~Owns(Coordinator)'
  BY <1>2, ActorsAssumption DEF Owns
<1>8. TypeOK'
  BY <1>1, <1>2, <1>3, <1>5 DEF TypeOK, OpRow, PassLocals
<1>9. UnclaimedIsAbsent' /\ UnrecordedIsNone' /\ CleanedIsGone'
  BY <1>1, <1>3
     DEF ProvisionInvariant, UnclaimedIsAbsent, UnrecordedIsNone, CleanedIsGone,
         CleanupKind
<1>10. CommitIsLast' /\ OwnedSandboxLives'
  BY <1>3, <1>6, <1>7 DEF ProvisionInvariant, CommitIsLast, OwnedSandboxLives
<1>11. ReclaimersOwn'
  BY <1>5, <1>6 DEF ReclaimersOwn
<1>12. TodoIsListed' /\ AdoptedIsLeased'
  BY <1>3, <1>5 DEF ProvisionInvariant, TodoIsListed, AdoptedIsLeased
<1>13. SuccessIsDurable' /\ LeasedSandboxLives' /\ ReclaimedIsGone'
  BY <1>1, <1>2, <1>3
     DEF ProvisionInvariant, SuccessIsDurable, LeasedSandboxLives, ReclaimedIsGone
<1> QED
  BY <1>8, <1>9, <1>10, <1>11, <1>12, <1>13 DEF ProvisionInvariant

LEMMA DecideStep ==
  ASSUME ProvisionInvariant, NEW r \in Reconcilers, DecideOperation(r)
  PROVE  ProvisionInvariant'
<1> DEFINE states == {recon[r].seen[k] : k \in Kinds} \ {"none"}
<1>1. TypeOK /\ op \in OpRow
  BY DEF ProvisionInvariant, TypeOK, OpRow
<1>2. /\ UNCHANGED <<alloc, provider, age, lease, lock, rowLock, coord>>
      /\ recon' = [recon EXCEPT ![r] = IdlePass]
  BY DEF DecideOperation
<1>3. "adopted" \in states => lease = "active"
  BY DEF ProvisionInvariant, AdoptedIsLeased
<1>4. UNCHANGED op \/ (Owns(r) /\ op' = [op EXCEPT !.state = IF "adopted" \in states THEN "succeeded" ELSE "failed_terminal"])
  BY DEF DecideOperation
<1>5. Owns(r) => lease = "none" /\ "adopted" \notin states
  BY <1>1, <1>3 DEF ProvisionInvariant, SuccessIsDurable, TypeOK, Owns
<1>6. op' \in OpRow /\ (UNCHANGED op \/ (Owns(r) /\ op'.state = "failed_terminal"))
  BY <1>1, <1>4, <1>5 DEF OpRow
<1> HIDE DEF states
<1>7. rowLock # CommitTx /\ \A q \in Reconcilers : recon[q].pc \notin Holding
  BY ActorsAssumption
     DEF ProvisionInvariant, ReclaimersOwn, DecideOperation, RowFree, CommitTx, Free
<1>8. /\ recon' \in [Reconcilers -> PassLocals] /\ recon'[r].pc = "idle" /\ recon'[r].todo = {}
      /\ \A k \in Kinds : recon'[r].seen[k] = "none"
      /\ \A q \in Reconcilers \ {r} : recon'[q] = recon[q]
  BY <1>1, <1>2, PassEnds
<1>9. TypeOK'
  BY <1>1, <1>2, <1>6, <1>8 DEF TypeOK, OpRow, PassLocals
<1>10. UnclaimedIsAbsent' /\ UnrecordedIsNone' /\ CleanedIsGone'
  BY <1>2, <1>6
     DEF ProvisionInvariant, UnclaimedIsAbsent, UnrecordedIsNone, CleanedIsGone,
         CleanupKind, Owns
<1>11. CommitIsLast' /\ OwnedSandboxLives'
  BY <1>2, <1>6, <1>7 DEF ProvisionInvariant, CommitIsLast, OwnedSandboxLives, Owns
<1>12. ReclaimersOwn'
  BY <1>7, <1>8 DEF ReclaimersOwn, Holding
<1>13. TodoIsListed' /\ AdoptedIsLeased'
  BY <1>2, <1>8 DEF ProvisionInvariant, TodoIsListed, AdoptedIsLeased
<1>14. SuccessIsDurable' /\ LeasedSandboxLives' /\ ReclaimedIsGone'
  BY <1>2, <1>5, <1>6
     DEF ProvisionInvariant, SuccessIsDurable, LeasedSandboxLives, ReclaimedIsGone
<1> QED
  BY <1>9, <1>10, <1>11, <1>12, <1>13, <1>14 DEF ProvisionInvariant

(* The kind a pass works on is one it listed. *)
LEMMA ReclaimKindListed ==
  ASSUME ProvisionInvariant, NEW r \in Reconcilers, recon[r].todo # {}
  PROVE  /\ ReclaimKind(r) \in recon[r].todo /\ ReclaimKind(r) \in ProviderKinds
         /\ ReclaimKind(r) \in Kinds /\ alloc[ReclaimKind(r)] # "none"
<1>1. recon[r].todo \subseteq ProviderKinds
  BY DEF ProvisionInvariant, TypeOK
<1>2. ReclaimKind(r) \in recon[r].todo
  BY <1>1 DEF ReclaimKind, ProviderKinds
<1> QED
  BY <1>1, <1>2 DEF ProvisionInvariant, TodoIsListed, Kinds

LEMMA ReclaimBeginStep ==
  ASSUME ProvisionInvariant, NEW r \in Reconcilers, ReclaimBegin(r)
  PROVE  ProvisionInvariant'
<1> DEFINE k == ReclaimKind(r)
           p == IF lease = "none" THEN "reclaiming" ELSE "effected"
           w == IF lease # "none" THEN "adopted"
                ELSE IF recon[r].seen[k] = "reclaim_pending" THEN alloc[k]
                ELSE "reclaim_pending"
<1>1. TypeOK /\ lock \in Locks /\ rowLock = Free /\ alloc \in [Kinds -> LedgerStates]
  BY DEF ProvisionInvariant, TypeOK, Locks, ReclaimBegin, RowFree
<1>2. UNCHANGED <<op, alloc, provider, age, lease, coord>>
  BY DEF ReclaimBegin
<1>3. CASE ~Owns(r)
  BY <1>1, <1>2, <1>3, PassEnding DEF ReclaimBegin
<1>4. CASE Owns(r)
  <2>1. /\ lock' = [lock EXCEPT ![k] = r] /\ rowLock' = r /\ recon[r].todo # {}
        /\ recon' = [recon EXCEPT ![r] = [recon[r] EXCEPT !.pc = p, !.write = w]]
    BY <1>1, <1>4 DEF ReclaimBegin, TypeOK
  <2>2. k \in ProviderKinds /\ k \in Kinds /\ alloc[k] # "none"
    BY <2>1, ReclaimKindListed
  <2>3. lease = "none"
    BY <1>4 DEF ProvisionInvariant, SuccessIsDurable, TypeOK, Owns
  <2>4. /\ p \in ReconStates /\ w \in LedgerStates /\ w \notin {"none", "adopted"}
        /\ w = "reclaimed" => provider[k] = "gone"
    BY <1>1, <2>2, <2>3
       DEF ReconStates, LedgerStates, ProvisionInvariant, ReclaimedIsGone, AdoptedIsLeased
  <2> HIDE DEF p, w, k
  <2>5. /\ recon' \in [Reconcilers -> PassLocals] /\ recon'[r].write = w
        /\ recon'[r].todo = recon[r].todo /\ recon'[r].seen = recon[r].seen
        /\ \A q \in Reconcilers \ {r} : recon'[q] = recon[q]
    <3> DEFINE pass == [recon[r] EXCEPT !.pc = p, !.write = w]
    <3>1. recon \in [Reconcilers -> PassLocals] /\ recon[r] \in PassLocals
      BY <1>1 DEF TypeOK, PassLocals
    <3>2. /\ pass \in PassLocals /\ pass.write = w
          /\ pass.todo = recon[r].todo /\ pass.seen = recon[r].seen
      BY <2>4, <3>1 DEF PassLocals
    <3> HIDE DEF pass
    <3> QED
      BY <2>1, <3>1, <3>2 DEF pass
  <2>6. lock' \in Locks /\ rowLock' \in Reconcilers
    BY <1>1, <2>1, <2>2 DEF Locks
  <2>7. TypeOK'
    BY <1>1, <1>2, <2>5, <2>6 DEF TypeOK, Locks, PassLocals
  <2>8. rowLock' # CommitTx /\ \A q \in Reconcilers : recon[q].pc \notin Holding
    BY <1>1, <2>6, ActorsAssumption DEF ProvisionInvariant, ReclaimersOwn
  <2>9. UnclaimedIsAbsent' /\ UnrecordedIsNone' /\ CleanedIsGone'
    BY <1>2
       DEF ProvisionInvariant, UnclaimedIsAbsent, UnrecordedIsNone, CleanedIsGone,
           CleanupKind
  <2>10. CommitIsLast' /\ OwnedSandboxLives'
    BY <1>2, <2>8 DEF ProvisionInvariant, CommitIsLast, OwnedSandboxLives, Owns
  <2>11. ReclaimersOwn'
    <3>1. ReclaimKind(r)' = k
      BY <2>5 DEF ReclaimKind, k
    <3> QED
      BY <1>2, <1>4, <2>1, <2>4, <2>5, <2>8, <3>1 DEF ReclaimersOwn, Owns
  <2>12. TodoIsListed' /\ AdoptedIsLeased'
    BY <1>2, <2>5 DEF ProvisionInvariant, TodoIsListed, AdoptedIsLeased
  <2>13. SuccessIsDurable' /\ LeasedSandboxLives' /\ ReclaimedIsGone'
    BY <1>2 DEF ProvisionInvariant, SuccessIsDurable, LeasedSandboxLives, ReclaimedIsGone
  <2> QED
    BY <2>7, <2>9, <2>10, <2>11, <2>12, <2>13 DEF ProvisionInvariant
<1> QED
  BY <1>3, <1>4

(* The provider call of a pass: the operation is not the coordinator's, and *)
(* it has no lease.                                                         *)
LEMMA ReclaimCallSteps ==
  ASSUME ProvisionInvariant, NEW r \in Reconcilers, ReclaimSucceeds(r) \/ ReclaimThrows(r)
  PROVE  ProvisionInvariant'
<1> DEFINE k == ReclaimKind(r)
<1>1. TypeOK /\ recon[r].pc \in Holding /\ UNCHANGED <<op, alloc, age, lease, lock, rowLock, coord>>
  BY DEF ProvisionInvariant, ReclaimSucceeds, ReclaimThrows, Holding
<1>2. /\ rowLock = r /\ Owns(r) /\ recon[r].todo # {} /\ recon[r].write \notin {"none", "adopted"}
      /\ recon[r].write = "reclaimed" => provider[k] = "gone"
  BY <1>1 DEF ProvisionInvariant, ReclaimersOwn
<1>3. k \in ProviderKinds
  BY <1>2, ReclaimKindListed
<1>4. lease = "none" /\ ~Owns(Coordinator) /\ rowLock # CommitTx
  BY <1>2, ActorsAssumption DEF ProvisionInvariant, SuccessIsDurable, TypeOK, Owns
<1>5. "effected" \in ReconStates /\ "reclaimed" \in LedgerStates
  BY DEF ReconStates, LedgerStates
<1> HIDE DEF k
<1>6. /\ recon' \in [Reconcilers -> PassLocals]
      /\ recon'[r].todo = recon[r].todo /\ recon'[r].seen = recon[r].seen
      /\ \A q \in Reconcilers \ {r} : recon'[q] = recon[q]
      /\ recon'[r].write \in {recon[r].write, "reclaimed"}
  <2>1. CASE ReclaimSucceeds(r)
    <3>1. recon' = [recon EXCEPT ![r] = [recon[r] EXCEPT !.pc = "effected", !.write = "reclaimed"]]
      BY <1>1, <2>1 DEF ReclaimSucceeds, TypeOK
    <3> QED
      BY <1>1, <1>5, <3>1, PassMoves, ZenonT(60)
  <2>2. CASE ReclaimThrows(r)
    BY <1>1, <1>5, <2>2, PassGoesOn DEF ReclaimThrows
  <2> QED
    BY <2>1, <2>2
<1>7. /\ provider' \in [ProviderKinds -> {"none", "live", "gone"}]
      /\ \A j \in ProviderKinds : provider'[j] \in {provider[j], "gone"}
  <2>1. \E s \in {provider[k], "gone"} : provider' = [provider EXCEPT ![k] = s]
    BY DEF ReclaimSucceeds, ReclaimThrows, k
  <2> QED
    BY <1>1, <1>3, <2>1 DEF TypeOK
<1>8. recon'[r].write = "reclaimed" => provider'[k] = "gone"
  <2>1. CASE ReclaimSucceeds(r)
    BY <1>1, <1>3, <2>1 DEF TypeOK, ReclaimSucceeds, k
  <2>2. CASE ReclaimThrows(r)
    <3>1. recon'[r].write = recon[r].write
      BY <1>1, <1>5, <2>2, PassGoesOn DEF ReclaimThrows
    <3> QED
      BY <1>2, <1>3, <1>7, <3>1
  <2> QED
    BY <2>1, <2>2
<1>9. TypeOK'
  BY <1>1, <1>6, <1>7 DEF TypeOK, PassLocals
<1>10. UnclaimedIsAbsent' /\ UnrecordedIsNone' /\ CommitIsLast' /\ OwnedSandboxLives'
  BY <1>1, <1>4
     DEF ProvisionInvariant, UnclaimedIsAbsent, UnrecordedIsNone, CommitIsLast,
         OwnedSandboxLives, Owns
<1>11. CleanedIsGone' /\ ReclaimedIsGone'
  BY <1>1, <1>7 DEF ProvisionInvariant, CleanedIsGone, ReclaimedIsGone, CleanupKind
<1>12. ReclaimersOwn'
  <2>1. ReclaimKind(r)' = k
    BY <1>6 DEF ReclaimKind, k
  <2>2. \A q \in Reconcilers \ {r} : recon[q].pc \notin Holding
    BY <1>2 DEF ProvisionInvariant, ReclaimersOwn
  <2> QED
    BY <1>1, <1>2, <1>6, <1>8, <2>1, <2>2 DEF ReclaimersOwn, Owns
<1>13. TodoIsListed' /\ AdoptedIsLeased'
  BY <1>1, <1>6 DEF ProvisionInvariant, TodoIsListed, AdoptedIsLeased
<1>14. SuccessIsDurable' /\ LeasedSandboxLives'
  BY <1>1, <1>4 DEF ProvisionInvariant, SuccessIsDurable, LeasedSandboxLives
<1> QED
  BY <1>9, <1>10, <1>11, <1>12, <1>13, <1>14 DEF ProvisionInvariant

LEMMA ReclaimCommitStep ==
  ASSUME ProvisionInvariant, NEW r \in Reconcilers, ReclaimCommit(r)
  PROVE  ProvisionInvariant'
<1> DEFINE k == ReclaimKind(r)
           pass == [recon[r] EXCEPT !.pc = "working", !.todo = recon[r].todo \ {k}]
<1>1. /\ TypeOK /\ recon[r].pc = "effected" /\ UNCHANGED <<provider, age, lease, coord>>
      /\ recon \in [Reconcilers -> PassLocals] /\ recon[r] \in PassLocals
  BY DEF ProvisionInvariant, TypeOK, PassLocals, ReclaimCommit
<1>2. /\ rowLock = r /\ Owns(r) /\ recon[r].todo # {} /\ recon[r].write \notin {"none", "adopted"}
      /\ recon[r].write = "reclaimed" => provider[k] = "gone"
  BY <1>1 DEF ProvisionInvariant, ReclaimersOwn, Holding
<1>3. k \in Kinds /\ k \in ProviderKinds /\ alloc[k] # "none"
  BY <1>2, ReclaimKindListed
<1>4. lease = "none" /\ ~Owns(Coordinator) /\ coord.pc # "idle"
  BY <1>2, ActorsAssumption
     DEF ProvisionInvariant, SuccessIsDurable, TypeOK, Owns, UnclaimedIsAbsent
<1>5. recon' = [recon EXCEPT ![r] = pass]
  BY <1>1 DEF ReclaimCommit
<1>6. pass \in PassLocals /\ pass.pc = "working" /\ pass.todo \subseteq recon[r].todo
      /\ pass.seen = recon[r].seen
  BY <1>1 DEF PassLocals, ReconStates
<1>7. op' \in OpRow /\ op'.state = op.state /\ op'.owner = op.owner
  BY <1>1, Beats DEF ReclaimCommit
<1>8. /\ alloc' \in [Kinds -> LedgerStates] /\ alloc'[k] = recon[r].write
      /\ \A j \in Kinds \ {k} : alloc'[j] = alloc[j]
  BY <1>1, <1>3 DEF ReclaimCommit, TypeOK, PassLocals
<1>9. lock' \in Locks /\ rowLock' = Free
  BY <1>1, UnlockTypes DEF ReclaimCommit, Locks
<1> HIDE DEF pass, k
<1>10. /\ recon' \in [Reconcilers -> PassLocals] /\ recon'[r] = pass
       /\ \A q \in Reconcilers \ {r} : recon'[q] = recon[q]
  BY <1>1, <1>5, <1>6
<1>11. TypeOK'
  BY <1>1, <1>7, <1>8, <1>9, <1>10 DEF TypeOK, OpRow, Locks, PassLocals
<1>12. rowLock' # CommitTx /\ ~Owns(Coordinator)'
       /\ \A q \in Reconcilers \ {r} : recon[q].pc \notin Holding
  BY <1>2, <1>4, <1>7, <1>9, ActorsAssumption
     DEF ProvisionInvariant, ReclaimersOwn, Owns, CommitTx, Free
<1>13. UnclaimedIsAbsent' /\ CommitIsLast' /\ OwnedSandboxLives' /\ CleanedIsGone'
  BY <1>1, <1>4, <1>12
     DEF ProvisionInvariant, UnclaimedIsAbsent, CommitIsLast, OwnedSandboxLives,
         CleanedIsGone, CleanupKind
<1>14. UnrecordedIsNone'
  <2>1. coord.kind \in Kinds /\ "provider_snapshot" \in Kinds
    BY <1>1 DEF TypeOK, Kinds, ProviderKinds
  <2> QED
    BY <1>1, <1>3, <1>8, <2>1 DEF ProvisionInvariant, UnrecordedIsNone
<1>15. ReclaimersOwn'
  BY <1>6, <1>10, <1>12 DEF ReclaimersOwn, Holding
<1>16. TodoIsListed'
  <2>1. \A q \in Reconcilers : recon'[q].todo \subseteq recon[q].todo
    BY <1>6, <1>10
  <2>2. \A q \in Reconcilers : recon[q].todo \subseteq Kinds
    BY <1>1 DEF TypeOK, Kinds
  <2> QED
    BY <1>2, <1>8, <2>1, <2>2 DEF ProvisionInvariant, TodoIsListed
<1>17. AdoptedIsLeased'
  BY <1>1, <1>2, <1>6, <1>8, <1>10 DEF ProvisionInvariant, AdoptedIsLeased
<1>18. SuccessIsDurable' /\ LeasedSandboxLives'
  BY <1>1, <1>4, <1>7 DEF ProvisionInvariant, SuccessIsDurable, LeasedSandboxLives
<1>19. ReclaimedIsGone'
  BY <1>1, <1>2, <1>8 DEF ProvisionInvariant, ReclaimedIsGone, Kinds
<1> QED
  BY <1>11, <1>13, <1>14, <1>15, <1>16, <1>17, <1>18, <1>19 DEF ProvisionInvariant

(* The sweep deletes nothing that a lease or a live ledger row names. *)
LEMMA SweepSteps ==
  ASSUME ProvisionInvariant, NEW r \in Reconcilers, InventorySnapshots(r) \/ InventoryKill(r)
  PROVE  ProvisionInvariant'
<1>1. TypeOK /\ UNCHANGED <<op, alloc, age, lease, lock, rowLock, coord>>
  BY DEF ProvisionInvariant, InventorySnapshots, InventoryKill
<1>2. /\ provider' \in [ProviderKinds -> {"none", "live", "gone"}]
      /\ \A k \in ProviderKinds : provider'[k] \in {provider[k], "gone"}
      /\ provider'["sandbox"] # provider["sandbox"] => Unclaimed("sandbox")
  BY <1>1 DEF TypeOK, InventorySnapshots, InventoryKill, ProviderKinds
<1>3. /\ recon' \in [Reconcilers -> PassLocals] /\ recon'[r].pc \notin Holding
      /\ recon'[r].todo \subseteq recon[r].todo
      /\ \A k \in Kinds : recon'[r].seen[k] \in {recon[r].seen[k], "none"}
      /\ \A q \in Reconcilers \ {r} : recon'[q] = recon[q]
  <2>1. CASE InventorySnapshots(r)
    <3>1. "inv_sandbox" \in ReconStates /\ "inv_sandbox" \notin Holding
      BY DEF ReconStates, Holding
    <3> QED
      BY <1>1, <2>1, <3>1, PassGoesOn DEF InventorySnapshots
  <2>2. CASE InventoryKill(r)
    BY <1>1, <2>2, PassEnds DEF InventoryKill, Holding
  <2> QED
    BY <2>1, <2>2
<1>4. TypeOK'
  BY <1>1, <1>2, <1>3 DEF TypeOK, PassLocals
<1>5. UnclaimedIsAbsent' /\ CommitIsLast' /\ UnrecordedIsNone'
  BY <1>1 DEF ProvisionInvariant, UnclaimedIsAbsent, CommitIsLast, UnrecordedIsNone, Owns
<1>6. OwnedSandboxLives'
  <2>1. Owns(Coordinator) /\ alloc["sandbox"] = "allocated" => ~Unclaimed("sandbox")
    BY DEF Owns, Unclaimed, HasUnreclaimed
  <2> QED
    BY <1>1, <1>2, <2>1 DEF ProvisionInvariant, OwnedSandboxLives, Owns
<1>7. ReclaimersOwn'
  <2>1. \A q \in Reconcilers \ {r} : ReclaimKind(q)' = ReclaimKind(q) /\ ReclaimKind(q) \in ProviderKinds
    BY <1>3 DEF ReclaimKind, ProviderKinds
  <2> QED
    BY <1>1, <1>2, <1>3, <2>1 DEF ProvisionInvariant, ReclaimersOwn, Owns
<1>8. TodoIsListed' /\ AdoptedIsLeased'
  BY <1>1, <1>3 DEF ProvisionInvariant, TodoIsListed, AdoptedIsLeased
<1>9. LeasedSandboxLives' /\ SuccessIsDurable'
  BY <1>1, <1>2 DEF ProvisionInvariant, LeasedSandboxLives, SuccessIsDurable, Unclaimed
<1>10. CleanedIsGone' /\ ReclaimedIsGone'
  BY <1>1, <1>2 DEF ProvisionInvariant, CleanedIsGone, ReclaimedIsGone, CleanupKind
<1> QED
  BY <1>4, <1>5, <1>6, <1>7, <1>8, <1>9, <1>10 DEF ProvisionInvariant

-----------------------------------------------------------------------------
LEMMA InitInvariant == Init => ProvisionInvariant
<1> SUFFICES ASSUME Init PROVE ProvisionInvariant
  OBVIOUS
<1>1. NoLedger \in [Kinds -> LedgerStates] /\ \A k \in Kinds : NoLedger[k] = "none"
  BY DEF NoLedger, LedgerStates
<1>2. IdlePass \in PassLocals
  BY <1>1 DEF IdlePass, PassLocals, ReconStates, LedgerStates
<1>3. coord \in CoordLocals
  BY DEF Init, CoordLocals, CoordStates, ProviderKinds
<1>4. TypeOK
  BY <1>1, <1>2, <1>3 DEF Init, TypeOK, PassLocals, CoordLocals
<1>5. UnclaimedIsAbsent /\ CommitIsLast /\ OwnedSandboxLives /\ CleanedIsGone
  BY DEF Init, UnclaimedIsAbsent, CommitIsLast, OwnedSandboxLives, CleanedIsGone, Owns,
         CommitTx, Free
<1>6. UnrecordedIsNone
  BY <1>1 DEF Init, UnrecordedIsNone, Kinds, ProviderKinds
<1>7. ReclaimersOwn /\ TodoIsListed /\ AdoptedIsLeased
  BY <1>1 DEF Init, ReclaimersOwn, TodoIsListed, AdoptedIsLeased, IdlePass, Holding
<1>8. SuccessIsDurable /\ LeasedSandboxLives /\ ReclaimedIsGone
  BY <1>1 DEF Init, SuccessIsDurable, LeasedSandboxLives, ReclaimedIsGone, Kinds
<1> QED
  BY <1>4, <1>5, <1>6, <1>7, <1>8 DEF ProvisionInvariant

LEMMA InvariantStep == ProvisionInvariant /\ [Next]_vars => ProvisionInvariant'
<1> SUFFICES ASSUME ProvisionInvariant, [Next]_vars PROVE ProvisionInvariant'
  OBVIOUS
<1>1. CASE Provision
  BY <1>1, ClaimStep, AllocateStep, ForwardSteps, RecordSteps, PublishStep, AbortSteps,
     FinalSteps, AgeingSteps, RecoverStep
     DEF Provision
<1>2. CASE CleanupFailedProvision
  BY <1>2, AbortSteps, CleanupSteps, CleanupEnds DEF CleanupFailedProvision
<1>3. CASE CoordinatorCrash \/ TimerHeartbeat \/ HeartbeatAges \/ SandboxAges
  BY <1>3, AgeingSteps
<1>4. CASE DatabaseCommits \/ DatabaseRollsBack
  BY <1>4, CommitStep, FinalSteps
<1>5. ASSUME NEW r \in Reconcilers,
             ReconcileOperation(r) \/ ReconcileInventory(r) \/ PassAborts(r)
      PROVE  ProvisionInvariant'
  <2>1. \/ TakeOver(r) \/ ReclaimBegin(r) \/ ReclaimCommit(r) \/ DecideOperation(r)
        \/ (ReclaimSucceeds(r) \/ ReclaimThrows(r))
        \/ (InventorySnapshots(r) \/ InventoryKill(r))
        \/ (ListAllocations(r) \/ ListAgain(r) \/ LockTimeout(r) \/ InventoryObserve(r)
              \/ PassAborts(r))
    BY <1>5, Zenon DEF ReconcileOperation, ReconcileInventory
  <2> QED
    BY <2>1, TakeOverStep, ListingSteps, ReclaimBeginStep, ReclaimCallSteps,
       ReclaimCommitStep, DecideStep, SweepSteps, Zenon
<1>6. CASE UNCHANGED vars
  <2>1. TypeOK'
    BY <1>6 DEF ProvisionInvariant, TypeOK, vars
  <2>2. CoordinatorParts'
    BY <1>6
       DEF ProvisionInvariant, CoordinatorParts, UnclaimedIsAbsent, CommitIsLast,
           UnrecordedIsNone, OwnedSandboxLives, CleanedIsGone, CleanupKind, Owns, vars
  <2> QED
    BY <1>6, <2>1, <2>2, LocalStep
       DEF ProvisionInvariant, CoordinatorParts, DurableParts, vars
<1> QED
  BY <1>1, <1>2, <1>3, <1>4, <1>5, <1>6 DEF Next

(* Every reachable state satisfies the inductive invariant, whatever crash, *)
(* lost commit or takeover interrupts the provision.                        *)
THEOREM ProvisionInvariantHolds == Spec => []ProvisionInvariant
  BY InitInvariant, InvariantStep, PTL DEF Spec

(* The variables of the provision keep their types. *)
THEOREM TypeCorrect == Spec => []TypeOK
<1>1. ProvisionInvariant => TypeOK
  BY DEF ProvisionInvariant
<1> QED
  BY <1>1, ProvisionInvariantHolds, PTL

(* The sandbox of a lease survives every late cleanup of                    *)
(* cleanupFailedProvision, every reconciler pass and every sweep of         *)
(* reconcileInventory, for any number of reconcilers.                       *)
THEOREM LeasedSandboxLivesHolds == Spec => []LeasedSandboxLives
<1>1. ProvisionInvariant => LeasedSandboxLives
  BY DEF ProvisionInvariant
<1> QED
  BY <1>1, ProvisionInvariantHolds, PTL

(* The operation is recorded as succeeded exactly when its lease exists,    *)
(* and then its ledger is adopted: no verdict of recoverLogicalCompletion   *)
(* invents a success.                                                       *)
THEOREM SuccessIsDurableHolds == Spec => []SuccessIsDurable
<1>1. ProvisionInvariant => SuccessIsDurable
  BY DEF ProvisionInvariant
<1> QED
  BY <1>1, ProvisionInvariantHolds, PTL

(* The ledger calls a resource reclaimed, by the coordinator's cleanup or   *)
(* by reclaimSandbox and reclaimSnapshot, only when it is gone.             *)
THEOREM ReclaimedIsGoneHolds == Spec => []ReclaimedIsGone
<1>1. ProvisionInvariant => ReclaimedIsGone
  BY DEF ProvisionInvariant
<1> QED
  BY <1>1, ProvisionInvariantHolds, PTL

(* No step takes the provider snapshot of a lease: a cleanup starts only    *)
(* without one, a reclaiming pass owns an operation without one, and the    *)
(* sweep looks the lease up again.                                          *)
THEOREM LeasedSnapshotIsKeptHolds == Spec => LeasedSnapshotIsKept
<1> DEFINE Kept == lease = "active" /\ provider["provider_snapshot"] = "live"
                     => provider'["provider_snapshot"] = "live"
<1>1. ProvisionInvariant /\ [Next]_vars => [Kept]_vars
  <2> SUFFICES ASSUME ProvisionInvariant, Next, lease = "active",
                      provider["provider_snapshot"] = "live"
               PROVE  provider'["provider_snapshot"] = "live"
    BY DEF vars
  <2>1. /\ provider \in [ProviderKinds -> {"none", "live", "gone"}]
        /\ coord.kind \in ProviderKinds /\ "provider_snapshot" \in ProviderKinds
    BY DEF ProvisionInvariant, TypeOK, ProviderKinds
  <2>2. /\ coord.pc \in Finishing
        /\ \A r \in Reconcilers : recon[r].pc \notin Holding
    BY DEF ProvisionInvariant, CommitIsLast, ReclaimersOwn, SuccessIsDurable, Owns
  <2>3. CASE Provision
    BY <2>1, <2>2, <2>3
       DEF Provision, Finishing, Claim, ProviderAllocates, CallThrows, CallReturns,
           RecordStatement, RecordCommit, RecordUncertain, PrepareSandbox,
           BeginPreparation, PreparationPublishes, PreparationSucceeds, PreparationAborts,
           PreparationUnresolved, FinalStatement, FinalAcknowledged, FinalUncertain,
           RecoverCommitOutcome
  <2>4. CASE CleanupFailedProvision
    BY <2>2, <2>4
       DEF CleanupFailedProvision, Finishing, AbortPreparation, CleanupCall,
           CleanupCallThrows, CleanupReady, CleanupStatement, CleanupCommit,
           CleanupRollsBack, CleanupDone
  <2>5. CASE CoordinatorCrash \/ TimerHeartbeat \/ DatabaseCommits \/ DatabaseRollsBack
               \/ HeartbeatAges \/ SandboxAges
    BY <2>5
       DEF CoordinatorCrash, TimerHeartbeat, DatabaseCommits, DatabaseRollsBack,
           HeartbeatAges, SandboxAges
  <2>6. ASSUME NEW r \in Reconcilers,
               ReconcileOperation(r) \/ ReconcileInventory(r) \/ PassAborts(r)
        PROVE  provider'["provider_snapshot"] = "live"
    BY <2>1, <2>2, <2>6
       DEF ReconcileOperation, ReconcileInventory, PassAborts, TakeOver, ListAllocations,
           ReclaimBegin, ReclaimSucceeds, ReclaimThrows, ReclaimCommit, LockTimeout,
           ListAgain, DecideOperation, InventoryObserve, InventorySnapshots,
           InventoryKill, Unclaimed, Holding
  <2> QED
    BY <2>3, <2>4, <2>5, <2>6 DEF Next
<1> QED
  BY <1>1, ProvisionInvariantHolds, PTL DEF Spec, LeasedSnapshotIsKept
=============================================================================
