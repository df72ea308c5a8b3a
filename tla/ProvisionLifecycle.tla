------------------------- MODULE ProvisionLifecycle -------------------------
(***************************************************************************)
(* The life of one fresh provision operation: PostgresProvisionCoordinator  *)
(* creates a sandbox and a provider snapshot, records each in the           *)
(* allocation ledger, prepares the workspace objects and commits the lease; *)
(* PostgresReconciler replicas take a stale operation over and reclaim what *)
(* it left, and sweep the provider inventory for what nobody recorded.      *)
(* Provider calls take effect at once and survive every rollback and crash. *)
(*                                                                          *)
(* One actor at a time holds the newest generation of an operation (theorem *)
(* SingleOwnerHolds of the journal), and an actor holds one claim at a      *)
(* time, so the fence (worker and generation) is the name of the last       *)
(* claimant.                                                                *)
(***************************************************************************)
EXTENDS Naturals

CONSTANT Reconcilers   \* running replicas of the reconciler

Coordinator == "coordinator"
CommitTx    == "commit"      \* the final transaction, once it is sent
Free        == "free"

ASSUME ActorsAssumption == Reconcilers \cap {Coordinator, CommitTx, Free} = {}

ProviderKinds == {"sandbox", "provider_snapshot"}
Kinds         == ProviderKinds \cup {"object"}
LedgerStates  == {"none", "allocated", "adopted", "reclaim_pending", "reclaimed"}

VARIABLES
  op,        \* the journal row of the operation
  alloc,     \* its allocation ledger, by kind
  provider,  \* what exists at the provider
  age,       \* whether the sandbox is older than the reconciler's stale bound
  lease,     \* the durable lease and base snapshot, created together
  lock,      \* provider-resource advisory locks
  rowLock,   \* the lock on the operation row
  coord,     \* the coordinator's locals
  recon      \* each reconciler's locals

vars == <<op, alloc, provider, age, lease, lock, rowLock, coord, recon>>

CoordStates == {"idle", "calling", "returned", "recording", "inserted", "recorded",
                "preparing", "final", "committing", "recovering",
                "cleanup", "killed", "reclaiming", "done"}
ReconStates == {"idle", "claimed", "working", "reclaiming", "effected", "deciding",
                "inv_snapshots", "inv_sandbox"}

NoLedger == [k \in Kinds |-> "none"]
IdlePass == [pc |-> "idle", seen |-> NoLedger, todo |-> {}, write |-> "none"]

(* The fence of every guarded statement. *)
Owns(a) == op.state = "in_progress" /\ op.owner = a

RowFree  == rowLock = Free
Beat     == op' = [op EXCEPT !.heartbeat = "fresh"]

(* hasUnreclaimedAllocation: terminal operations protect nothing. *)
HasUnreclaimed(k) ==
  op.state = "in_progress" /\ alloc[k] \notin {"none", "reclaimed"}

-----------------------------------------------------------------------------
(* The coordinator, up to the final transaction. *)

(* The catch block: undo what this run knows of, newest first. *)
StartCleanup ==
  coord' = [coord EXCEPT !.pc = "cleanup",
              !.todo = coord.known \cup
                         (IF coord.prep = "prepared" THEN {"object"} ELSE {})]

Claim ==
  /\ coord.pc = "idle"
  /\ op' = [state |-> "in_progress", owner |-> Coordinator, heartbeat |-> "fresh"]
  /\ coord' = [coord EXCEPT !.pc = "calling"]
  /\ UNCHANGED <<alloc, provider, age, lease, lock, rowLock, recon>>

(* provider.create, or provider.snapshot of the running sandbox. *)
ProviderAllocates ==
  /\ coord.pc = "calling"
  /\ coord.kind = "provider_snapshot" => provider["sandbox"] = "live"
  /\ provider' = [provider EXCEPT ![coord.kind] = "live"]
  /\ coord' = [coord EXCEPT !.pc = "returned"]
  /\ UNCHANGED <<op, alloc, age, lease, lock, rowLock, recon>>

(* The call throws, before or after it took effect, or the database does. *)
CallThrows ==
  /\ coord.pc \in {"calling", "returned", "recording", "recorded"}
  /\ StartCleanup
  /\ UNCHANGED <<op, alloc, provider, age, lease, lock, rowLock, recon>>

(* withHeartbeat: the result is kept only by a worker that still owns. *)
CallReturns ==
  /\ coord.pc = "returned" /\ RowFree
  /\ IF Owns(Coordinator)
       THEN /\ Beat
            /\ coord' = [coord EXCEPT !.pc = "recording", !.known = @ \cup {coord.kind}]
       ELSE StartCleanup /\ UNCHANGED op
  /\ UNCHANGED <<alloc, provider, age, lease, lock, rowLock, recon>>

(* recordProviderAllocation: the fenced INSERT, under the provider lock. *)
RecordStatement ==
  /\ coord.pc = "recording" /\ lock[coord.kind] = Free
  /\ IF Owns(Coordinator)
       THEN /\ lock' = [lock EXCEPT ![coord.kind] = Coordinator]
            /\ coord' = [coord EXCEPT !.pc = "inserted"]
       ELSE StartCleanup /\ UNCHANGED lock
  /\ UNCHANGED <<op, alloc, provider, age, lease, rowLock, recon>>

RecordCommit ==
  /\ coord.pc = "inserted"
  /\ alloc' = [alloc EXCEPT ![coord.kind] = "allocated"]
  /\ lock'  = [lock EXCEPT ![coord.kind] = Free]
  /\ coord' = [coord EXCEPT !.pc = "recorded", !.recorded = @ \cup {coord.kind}]
  /\ UNCHANGED <<op, provider, age, lease, rowLock, recon>>

(* The transaction throws, having committed or not. *)
RecordUncertain ==
  /\ coord.pc = "inserted"
  /\ \E s \in {alloc[coord.kind], "allocated"} : alloc' = [alloc EXCEPT ![coord.kind] = s]
  /\ lock' = [lock EXCEPT ![coord.kind] = Free]
  /\ StartCleanup
  /\ UNCHANGED <<op, provider, age, lease, rowLock, recon>>

(* Upload, start, probe and export, each with its heartbeat. *)
PrepareSandbox ==
  /\ coord.pc = "recorded" /\ coord.kind = "sandbox" /\ RowFree
  /\ IF Owns(Coordinator) /\ provider["sandbox"] = "live"
       THEN Beat /\ coord' = [coord EXCEPT !.pc = "calling", !.kind = "provider_snapshot"]
       ELSE StartCleanup /\ UNCHANGED op
  /\ UNCHANGED <<alloc, provider, age, lease, lock, rowLock, recon>>

BeginPreparation ==
  /\ coord.pc = "recorded" /\ coord.kind = "provider_snapshot" /\ RowFree
  /\ IF Owns(Coordinator)
       THEN Beat /\ coord' = [coord EXCEPT !.pc = "preparing", !.prep = "started"]
       ELSE StartCleanup /\ UNCHANGED op
  /\ UNCHANGED <<alloc, provider, age, lease, lock, rowLock, recon>>

(* prepareDurableBase, by the ways it ends: the objects are published and   *)
(* recorded under the fence; or this owner aborted and reclaimed them; or   *)
(* the outcome is left to reconciliation.                                   *)
PreparationPublishes ==
  /\ coord.pc = "preparing" /\ Owns(Coordinator)
  /\ alloc' = [alloc EXCEPT !["object"] = "allocated"]
  /\ UNCHANGED <<op, provider, age, lease, lock, rowLock, coord, recon>>

PreparationSucceeds ==
  /\ coord.pc = "preparing" /\ RowFree /\ Owns(Coordinator)
  /\ alloc["object"] = "allocated"
  /\ Beat
  /\ coord' = [coord EXCEPT !.pc = "final", !.prep = "prepared"]
  /\ UNCHANGED <<alloc, provider, age, lease, lock, rowLock, recon>>

PreparationAborts ==
  /\ coord.pc = "preparing" /\ Owns(Coordinator)
  /\ alloc' = [alloc EXCEPT !["object"] = IF @ = "none" THEN "none" ELSE "reclaimed"]
  /\ coord' = [coord EXCEPT !.pc = "cleanup", !.prep = "aborted", !.todo = coord.known]
  /\ UNCHANGED <<op, provider, age, lease, lock, rowLock, recon>>

PreparationUnresolved ==
  /\ coord.pc = "preparing"
  /\ StartCleanup
  /\ UNCHANGED <<op, alloc, provider, age, lease, lock, rowLock, recon>>

(* The interval timer of withHeartbeat. *)
TimerHeartbeat ==
  /\ coord.pc \in {"calling", "returned", "preparing", "killed"} /\ RowFree
  /\ Owns(Coordinator) /\ op.heartbeat = "stale"
  /\ Beat
  /\ UNCHANGED <<alloc, provider, age, lease, lock, rowLock, coord, recon>>

-----------------------------------------------------------------------------
(* The final transaction: lease, adoption and completion under both locks.  *)

FinalStatement ==
  /\ coord.pc = "final" /\ RowFree
  /\ \A k \in ProviderKinds : lock[k] = Free
  /\ IF /\ Owns(Coordinator)
        /\ \A k \in Kinds : alloc[k] \in {"allocated", "reclaim_pending"}
       THEN /\ lock' = [k \in ProviderKinds |-> CommitTx]
            /\ rowLock' = CommitTx
            /\ coord' = [coord EXCEPT !.pc = "committing"]
       ELSE /\ coord' = [coord EXCEPT !.pc = "recovering"]
            /\ UNCHANGED <<lock, rowLock>>
  /\ UNCHANGED <<op, alloc, provider, age, lease, recon>>

(* Mutant: the prepared objects are not adopted. *)
MutDatabaseCommits ==
  /\ rowLock = CommitTx
  /\ lease' = "active"
  /\ alloc' = [alloc EXCEPT !["sandbox"] = "adopted", !["provider_snapshot"] = "adopted"]
  /\ op' = [op EXCEPT !.state = "succeeded"]
  /\ lock' = [k \in ProviderKinds |-> Free] /\ rowLock' = Free
  /\ UNCHANGED <<provider, age, coord, recon>>

DatabaseCommits ==
  /\ rowLock = CommitTx
  /\ lease' = "active"
  /\ alloc' = [k \in Kinds |-> "adopted"]
  /\ op' = [op EXCEPT !.state = "succeeded"]
  /\ lock' = [k \in ProviderKinds |-> Free] /\ rowLock' = Free
  /\ UNCHANGED <<provider, age, coord, recon>>

DatabaseRollsBack ==
  /\ rowLock = CommitTx
  /\ lock' = [k \in ProviderKinds |-> Free] /\ rowLock' = Free
  /\ UNCHANGED <<op, alloc, provider, age, lease, coord, recon>>

FinalAcknowledged ==
  /\ coord.pc = "committing" /\ op.state = "succeeded"
  /\ coord' = [coord EXCEPT !.pc = "done"]
  /\ UNCHANGED <<op, alloc, provider, age, lease, lock, rowLock, recon>>

(* The commit call throws while the transaction may still be unresolved. *)
FinalUncertain ==
  /\ coord.pc = "committing"
  /\ coord' = [coord EXCEPT !.pc = "recovering"]
  /\ UNCHANGED <<op, alloc, provider, age, lease, lock, rowLock, recon>>

(* Mutant: any error of the final transaction counts as a rollback. *)
MutRecoverCommitOutcome ==
  /\ coord.pc = "recovering"
  /\ StartCleanup
  /\ UNCHANGED <<op, alloc, provider, age, lease, lock, rowLock, recon>>

(* recoverCommitOutcome waits for the row, and cleanup starts only when the *)
(* operation is still this worker's.                                        *)
RecoverCommitOutcome ==
  /\ coord.pc = "recovering" /\ RowFree
  /\ IF Owns(Coordinator)
       THEN Beat /\ StartCleanup
       ELSE coord' = [coord EXCEPT !.pc = "done"] /\ UNCHANGED op
  /\ UNCHANGED <<alloc, provider, age, lease, lock, rowLock, recon>>

-----------------------------------------------------------------------------
(* cleanupFailedProvision: objects, then the snapshot, then the sandbox.    *)

CleanupKind ==
  CASE "object" \in coord.todo            -> "object"
    [] "provider_snapshot" \in coord.todo -> "provider_snapshot"
    [] OTHER                              -> "sandbox"

CleanedUp(ok) ==
  coord' = [coord EXCEPT !.pc = "cleanup", !.todo = @ \ {CleanupKind},
                         !.clean = IF ok THEN @ ELSE "no"]

AbortPreparation ==
  /\ coord.pc = "cleanup" /\ "object" \in coord.todo /\ RowFree
  /\ \/ /\ Owns(Coordinator)
        /\ alloc' = [alloc EXCEPT !["object"] = "reclaimed"]
        /\ Beat /\ CleanedUp(TRUE)
     \/ CleanedUp(FALSE) /\ UNCHANGED <<op, alloc>>
  /\ UNCHANGED <<provider, age, lease, lock, rowLock, recon>>

CleanupReady ==
  /\ coord.pc = "cleanup" /\ coord.todo # {} /\ CleanupKind \in ProviderKinds
  /\ lock[CleanupKind] = Free

(* deleteSnapshot accepts a snapshot that is gone, kill throws              *)
(* ProviderSandboxMissingError for a sandbox that is.                       *)
Deletable(k) == k = "provider_snapshot" \/ provider[k] = "live"

(* The provider call of the cleanup is not fenced. *)
CleanupCall ==
  /\ CleanupReady /\ Deletable(CleanupKind)
  /\ provider' = [provider EXCEPT ![CleanupKind] = "gone"]
  /\ lock' = [lock EXCEPT ![CleanupKind] = Coordinator]
  /\ coord' = [coord EXCEPT !.pc = "killed"]
  /\ UNCHANGED <<op, alloc, age, lease, rowLock, recon>>

CleanupCallThrows ==
  /\ CleanupReady
  /\ \E s \in {provider[CleanupKind], "gone"} :
       provider' = [provider EXCEPT ![CleanupKind] = s]
  /\ CleanedUp(FALSE)
  /\ UNCHANGED <<op, alloc, age, lease, lock, rowLock, recon>>

(* The heartbeat, then the fenced UPDATE of the allocation, which locks the *)
(* allocation row and not the operation row.                                *)
CleanupStatement ==
  /\ coord.pc = "killed" /\ RowFree
  /\ IF Owns(Coordinator) /\ CleanupKind \in coord.recorded
       THEN /\ Beat
            /\ coord' = [coord EXCEPT !.pc = "reclaiming"]
            /\ UNCHANGED lock
       ELSE /\ CleanedUp(Owns(Coordinator))
            /\ lock' = [lock EXCEPT ![CleanupKind] = Free]
            /\ UNCHANGED op
  /\ UNCHANGED <<alloc, provider, age, lease, rowLock, recon>>

CleanupCommit ==
  /\ coord.pc = "reclaiming"
  /\ alloc' = [alloc EXCEPT ![CleanupKind] = "reclaimed"]
  /\ lock' = [lock EXCEPT ![CleanupKind] = Free]
  /\ \E ok \in BOOLEAN : CleanedUp(ok)
  /\ UNCHANGED <<op, provider, age, lease, rowLock, recon>>

CleanupRollsBack ==
  /\ coord.pc = "reclaiming"
  /\ lock' = [lock EXCEPT ![CleanupKind] = Free]
  /\ CleanedUp(FALSE)
  /\ UNCHANGED <<op, alloc, provider, age, lease, rowLock, recon>>

(* failOperation, only when nothing is left behind; it may lose its fence. *)
CleanupDone ==
  /\ coord.pc = "cleanup" /\ coord.todo = {} /\ RowFree
  /\ IF coord.clean = "yes" /\ coord.prep # "started" /\ Owns(Coordinator)
       THEN op' = [op EXCEPT !.state = "failed_terminal"]
       ELSE UNCHANGED op
  /\ coord' = [coord EXCEPT !.pc = "done"]
  /\ UNCHANGED <<alloc, provider, age, lease, lock, rowLock, recon>>

(* A crash rolls back every open transaction except one already committing. *)
Unlocked(a) == [k \in ProviderKinds |-> IF lock[k] = a THEN Free ELSE lock[k]]

CoordinatorCrash ==
  /\ coord.pc \notin {"idle", "done"}
  /\ coord' = [coord EXCEPT !.pc = "done"]
  /\ lock' = Unlocked(Coordinator)
  /\ UNCHANGED <<op, alloc, provider, age, lease, rowLock, recon>>

-----------------------------------------------------------------------------
(* The reconciler: reconcileOperation on the generic path. *)

HeartbeatAges ==
  /\ op.state = "in_progress" /\ op.heartbeat = "fresh"
  /\ op' = [op EXCEPT !.heartbeat = "stale"]
  /\ UNCHANGED <<alloc, provider, age, lease, lock, rowLock, coord, recon>>

SandboxAges ==
  /\ provider["sandbox"] = "live" /\ age = "young"
  /\ age' = "old"
  /\ UNCHANGED <<op, alloc, provider, lease, lock, rowLock, coord, recon>>

(* SKIP LOCKED passes over a row that a heartbeat, a decision or the        *)
(* foreign key of an uncommitted allocation holds.                          *)
TakeOver(r) ==
  /\ recon[r].pc = "idle"
  /\ op.state = "in_progress" /\ op.heartbeat = "stale"
  /\ RowFree /\ coord.pc # "inserted"
  /\ op' = [op EXCEPT !.owner = r, !.heartbeat = "fresh"]
  /\ recon' = [recon EXCEPT ![r].pc = "claimed"]
  /\ UNCHANGED <<alloc, provider, age, lease, lock, rowLock, coord>>

(* Mutant: a pending reclaim is not retried. *)
MutListAllocations(r) ==
  /\ recon[r].pc = "claimed"
  /\ recon' = [recon EXCEPT ![r] =
       [pc |-> "working", seen |-> alloc, write |-> "none",
        todo |-> {k \in ProviderKinds : alloc[k] = "allocated"}]]
  /\ UNCHANGED <<op, alloc, provider, age, lease, lock, rowLock, coord>>

ListAllocations(r) ==
  /\ recon[r].pc = "claimed"
  /\ recon' = [recon EXCEPT ![r] =
       [pc |-> "working", seen |-> alloc, write |-> "none",
        todo |-> {k \in ProviderKinds : alloc[k] \in {"allocated", "reclaim_pending"}}]]
  /\ UNCHANGED <<op, alloc, provider, age, lease, lock, rowLock, coord>>

ReclaimKind(r) == IF "sandbox" \in recon[r].todo THEN "sandbox" ELSE "provider_snapshot"

(* reclaimSandbox and reclaimSnapshot: one transaction under the provider   *)
(* lock; its heartbeat holds the operation row until it ends.  An owned     *)
(* resource is protected, any other is marked pending and deleted.          *)
ReclaimBegin(r) ==
  LET k == ReclaimKind(r) IN
  /\ recon[r].pc = "working" /\ recon[r].todo # {}
  /\ RowFree /\ lock[k] = Free
  /\ IF Owns(r)
       THEN /\ lock' = [lock EXCEPT ![k] = r] /\ rowLock' = r
            /\ recon' = [recon EXCEPT
                 ![r].pc    = IF lease = "none" THEN "reclaiming" ELSE "effected",
                 ![r].write = IF lease # "none" THEN "adopted"
                              ELSE IF recon[r].seen[k] = "reclaim_pending" THEN alloc[k]
                              ELSE "reclaim_pending"]
       ELSE recon' = [recon EXCEPT ![r] = IdlePass] /\ UNCHANGED <<lock, rowLock>>
  /\ UNCHANGED <<op, alloc, provider, age, lease, coord>>

(* Mutant: the ledger is marked before the provider answers. *)
MutReclaimThrows(r) ==
  /\ recon[r].pc = "reclaiming"
  /\ recon' = [recon EXCEPT ![r].pc = "effected", ![r].write = "reclaimed"]
  /\ UNCHANGED <<op, alloc, provider, age, lease, lock, rowLock, coord>>

ReclaimSucceeds(r) ==
  LET k == ReclaimKind(r) IN
  /\ recon[r].pc = "reclaiming" /\ Deletable(k)
  /\ provider' = [provider EXCEPT ![k] = "gone"]
  /\ recon' = [recon EXCEPT ![r].pc = "effected", ![r].write = "reclaimed"]
  /\ UNCHANGED <<op, alloc, age, lease, lock, rowLock, coord>>

(* Any error of the call leaves the allocation pending. *)
ReclaimThrows(r) ==
  /\ recon[r].pc = "reclaiming"
  /\ \E s \in {provider[ReclaimKind(r)], "gone"} :
       provider' = [provider EXCEPT ![ReclaimKind(r)] = s]
  /\ recon' = [recon EXCEPT ![r].pc = "effected"]
  /\ UNCHANGED <<op, alloc, age, lease, lock, rowLock, coord>>

ReclaimCommit(r) ==
  LET k == ReclaimKind(r) IN
  /\ recon[r].pc = "effected"
  /\ alloc' = [alloc EXCEPT ![k] = recon[r].write]
  /\ Beat
  /\ lock' = Unlocked(r) /\ rowLock' = Free
  /\ recon' = [recon EXCEPT ![r].pc = "working", ![r].todo = @ \ {k}]
  /\ UNCHANGED <<provider, age, lease, coord>>

(* The bounded wait for a lock ends the pass. *)
LockTimeout(r) ==
  /\ recon[r].pc = "working" /\ recon[r].todo # {}
  /\ ~RowFree \/ lock[ReclaimKind(r)] # Free
  /\ recon' = [recon EXCEPT ![r] = IdlePass]
  /\ UNCHANGED <<op, alloc, provider, age, lease, lock, rowLock, coord>>

ListAgain(r) ==
  /\ recon[r].pc = "working" /\ recon[r].todo = {}
  /\ recon' = [recon EXCEPT ![r].pc = "deciding", ![r].seen = alloc]
  /\ UNCHANGED <<op, alloc, provider, age, lease, lock, rowLock, coord>>

(* Mutant: an operation that allocated nothing is passed over. *)
MutDecideOperation(r) ==
  LET states == {recon[r].seen[k] : k \in Kinds} \ {"none"} IN
  /\ recon[r].pc = "deciding" /\ RowFree
  /\ IF Owns(r) /\ states # {} /\ states \subseteq {"adopted", "reclaimed"}
       THEN op' = [op EXCEPT !.state =
                     IF "adopted" \in states THEN "succeeded" ELSE "failed_terminal"]
       ELSE UNCHANGED op
  /\ recon' = [recon EXCEPT ![r] = IdlePass]
  /\ UNCHANGED <<alloc, provider, age, lease, lock, rowLock, coord>>

(* recoverLogicalCompletion when something was adopted, failOperation when  *)
(* everything was reclaimed; object allocations stay pending.               *)
DecideOperation(r) ==
  LET states == {recon[r].seen[k] : k \in Kinds} \ {"none"} IN
  /\ recon[r].pc = "deciding" /\ RowFree
  /\ IF Owns(r) /\ states \subseteq {"adopted", "reclaimed"}
       THEN op' = [op EXCEPT !.state =
                     IF "adopted" \in states THEN "succeeded" ELSE "failed_terminal"]
       ELSE UNCHANGED op
  /\ recon' = [recon EXCEPT ![r] = IdlePass]
  /\ UNCHANGED <<alloc, provider, age, lease, lock, rowLock, coord>>

-----------------------------------------------------------------------------
(* reconcileInventory: sandboxes of this service that nobody recorded. *)

Unclaimed(k) == lease = "none" /\ ~HasUnreclaimed(k)

(* A pass looks at the first maxInventorySandboxesPerRun sandboxes in the   *)
(* provider's order; it stays idle when this one is not among them.         *)
InventoryObserve(r) ==
  /\ recon[r].pc = "idle"
  /\ provider["sandbox"] = "live" /\ age = "old" /\ Unclaimed("sandbox")
  /\ recon' = [recon EXCEPT ![r].pc = "inv_snapshots"]
  /\ UNCHANGED <<op, alloc, provider, age, lease, lock, rowLock, coord>>

(* Mutant: a listed snapshot is deleted without a look at the rows. *)
MutInventorySnapshots(r) ==
  LET k == "provider_snapshot" IN
  /\ recon[r].pc = "inv_snapshots"
  /\ IF provider["sandbox"] = "live" /\ provider[k] = "live"
       THEN lock[k] = Free /\ provider' = [provider EXCEPT ![k] = "gone"]
       ELSE UNCHANGED provider
  /\ recon' = [recon EXCEPT ![r].pc = "inv_sandbox"]
  /\ UNCHANGED <<op, alloc, age, lease, lock, rowLock, coord>>

(* Snapshots can only be listed through their sandbox. *)
InventorySnapshots(r) ==
  LET k == "provider_snapshot" IN
  /\ recon[r].pc = "inv_snapshots"
  /\ IF provider["sandbox"] = "live" /\ provider[k] = "live" /\ Unclaimed(k)
       THEN lock[k] = Free /\ provider' = [provider EXCEPT ![k] = "gone"]
       ELSE UNCHANGED provider
  /\ recon' = [recon EXCEPT ![r].pc = "inv_sandbox"]
  /\ UNCHANGED <<op, alloc, age, lease, lock, rowLock, coord>>

(* The checks again under the lock, and the kill. *)
InventoryKill(r) ==
  /\ recon[r].pc = "inv_sandbox" /\ lock["sandbox"] = Free
  /\ IF Unclaimed("sandbox")
       THEN provider' = [provider EXCEPT !["sandbox"] = "gone"]
       ELSE UNCHANGED provider
  /\ recon' = [recon EXCEPT ![r] = IdlePass]
  /\ UNCHANGED <<op, alloc, age, lease, lock, rowLock, coord>>

(* A crash or an error that ends the pass, at any point. *)
PassAborts(r) ==
  /\ recon[r].pc # "idle"
  /\ recon' = [recon EXCEPT ![r] = IdlePass]
  /\ lock' = Unlocked(r)
  /\ rowLock' = IF rowLock = r THEN Free ELSE rowLock
  /\ UNCHANGED <<op, alloc, provider, age, lease, coord>>

-----------------------------------------------------------------------------
Init ==
  /\ op       = [state |-> "absent", owner |-> Free, heartbeat |-> "stale"]
  /\ alloc    = NoLedger
  /\ provider = [k \in ProviderKinds |-> "none"]
  /\ age      = "young"
  /\ lease    = "none"
  /\ lock     = [k \in ProviderKinds |-> Free]
  /\ rowLock  = Free
  /\ coord    = [pc |-> "idle", kind |-> "sandbox", known |-> {}, recorded |-> {},
                 prep |-> "none", todo |-> {}, clean |-> "yes"]
  /\ recon    = [r \in Reconcilers |-> IdlePass]

Provision ==
  \/ Claim \/ ProviderAllocates \/ CallThrows \/ CallReturns
  \/ RecordStatement \/ RecordCommit \/ RecordUncertain
  \/ PrepareSandbox \/ BeginPreparation \/ PreparationPublishes
  \/ PreparationSucceeds \/ PreparationAborts \/ PreparationUnresolved
  \/ FinalStatement \/ FinalAcknowledged \/ FinalUncertain \/ RecoverCommitOutcome

CleanupFailedProvision ==
  \/ AbortPreparation \/ CleanupCall \/ CleanupCallThrows \/ CleanupStatement
  \/ CleanupCommit \/ CleanupRollsBack \/ CleanupDone

ReconcileOperation(r) ==
  \/ TakeOver(r) \/ ListAllocations(r) \/ ReclaimBegin(r) \/ ReclaimSucceeds(r)
  \/ ReclaimThrows(r) \/ ReclaimCommit(r) \/ LockTimeout(r) \/ ListAgain(r)
  \/ DecideOperation(r)

ReconcileInventory(r) ==
  InventoryObserve(r) \/ InventorySnapshots(r) \/ InventoryKill(r)

Next ==
  \/ Provision \/ CleanupFailedProvision \/ CoordinatorCrash \/ TimerHeartbeat
  \/ DatabaseCommits \/ DatabaseRollsBack
  \/ HeartbeatAges \/ SandboxAges
  \/ \E r \in Reconcilers :
       ReconcileOperation(r) \/ ReconcileInventory(r) \/ PassAborts(r)

Spec == Init /\ [][Next]_vars

(* Nobody runs the operation that the row names as its owner. *)
Abandoned ==
  /\ op.state = "in_progress"
  /\ IF op.owner = Coordinator THEN coord.pc = "done" ELSE recon[op.owner].pc = "idle"

(* The steps of a pass that is under way. *)
PassStep(r) ==
  \/ ListAllocations(r) \/ ReclaimBegin(r) \/ ReclaimSucceeds(r) \/ ReclaimThrows(r)
  \/ ReclaimCommit(r) \/ LockTimeout(r) \/ ListAgain(r) \/ DecideOperation(r)
  \/ InventorySnapshots(r) \/ InventoryKill(r)

(* A crash of a pass, or a provider that fails to delete what it could. *)
Outage(r) ==
  \/ PassAborts(r) /\ ~PassStep(r)
  \/ Deletable(ReclaimKind(r)) /\ ReclaimThrows(r) /\ ~ReclaimSucceeds(r)

(* A coordinator that does not crash goes on; a transaction that was sent   *)
(* is resolved; heartbeats of abandoned operations and unowned sandboxes    *)
(* grow old; the reconcilers poll forever, both for stale operations and    *)
(* for inventory, and their outages end.                                    *)
Fairness ==
  /\ WF_vars(Provision \/ CleanupFailedProvision)
  /\ WF_vars(DatabaseCommits \/ DatabaseRollsBack)
  /\ WF_vars(Abandoned /\ HeartbeatAges)
  /\ WF_vars(SandboxAges)
  /\ \A r \in Reconcilers :
       SF_vars(TakeOver(r)) /\ WF_vars(PassStep(r))
  /\ <>[][\A r \in Reconcilers : ~Outage(r)]_vars

FairSpec == Spec /\ Fairness

-----------------------------------------------------------------------------
(* The variables hold values of their types. *)
TypeOK ==
  /\ op \in [state : {"absent", "in_progress", "succeeded", "failed_terminal"},
             owner : Reconcilers \cup {Coordinator, Free}, heartbeat : {"fresh", "stale"}]
  /\ alloc \in [Kinds -> LedgerStates]
  /\ provider \in [ProviderKinds -> {"none", "live", "gone"}]
  /\ age \in {"young", "old"}
  /\ lease \in {"none", "active"}
  /\ lock \in [ProviderKinds -> Reconcilers \cup {Coordinator, CommitTx, Free}]
  /\ rowLock \in Reconcilers \cup {CommitTx, Free}
  /\ coord \in [pc : CoordStates, kind : ProviderKinds, known : SUBSET ProviderKinds,
                recorded : SUBSET ProviderKinds,
                prep : {"none", "started", "prepared", "aborted"},
                todo : SUBSET Kinds, clean : {"yes", "no"}]
  /\ recon \in [Reconcilers -> [pc : ReconStates, seen : [Kinds -> LedgerStates],
                                todo : SUBSET ProviderKinds, write : LedgerStates]]

(* The sandbox of a lease survives every late cleanup, every reconciler     *)
(* pass and every inventory sweep.                                          *)
LeasedSandboxLives == lease = "active" => provider["sandbox"] = "live"

(* Nor does any of them take the provider snapshot of a lease: one that it  *)
(* found unrecorded is looked up again under the lock                       *)
(* (postgres-reconciler.ts reconcileInventory).                             *)
LeasedSnapshotIsKept ==
  [][lease = "active" /\ provider["provider_snapshot"] = "live"
       => provider'["provider_snapshot"] = "live"]_vars

(* An operation is recorded as succeeded exactly when its lease exists, and *)
(* then its whole ledger is adopted: no reconciler sees work in it.         *)
SuccessIsDurable ==
  /\ op.state = "succeeded" <=> lease = "active"
  /\ lease = "active" => \A k \in Kinds : alloc[k] = "adopted"

(* The ledger never calls a resource reclaimed that still exists. *)
ReclaimedIsGone ==
  \A k \in ProviderKinds : alloc[k] = "reclaimed" => provider[k] = "gone"

(* The page of the inventory sweep reaches the sandbox again and again.     *)
(* Nothing in the code makes it so: the sweep keeps no cursor, and while    *)
(* maxInventorySandboxesPerRun other sandboxes stand before this one no     *)
(* pass sees it (postgres-reconciler.ts reconcileInventory).                *)
PageReachesSandbox == \A r \in Reconcilers : SF_vars(InventoryObserve(r))

(* A sandbox that no lease owns is eventually killed, or becomes leased,    *)
(* wherever the coordinator or a reconciler died: always when the ledger    *)
(* has it, and when it has not, provided the sweep's page reaches it.       *)
OrphanReclaimed ==
  LET Orphan == provider["sandbox"] = "live" /\ lease = "none"
      Over   == provider["sandbox"] = "gone" \/ lease = "active" IN
  /\ (Orphan /\ HasUnreclaimed("sandbox")) ~> Over
  /\ PageReachesSandbox => (Orphan ~> Over)

(* An abandoned operation that prepared no objects is eventually decided,   *)
(* unless its sandbox was gone when a pass came to kill it: reclaimSandbox  *)
(* takes that for a failure, forever (postgres-reconciler.ts).              *)
AbandonedDecided ==
  (Abandoned /\ alloc["object"] = "none")
    ~> (op.state # "in_progress" \/ [](provider["sandbox"] = "gone" /\ alloc["sandbox"] # "reclaimed"))
=============================================================================
