-------------------------- MODULE ReleaseLifecycle --------------------------
(***************************************************************************)
(* Releasing one lease: PostgresReleaseCoordinator (postgres-release.ts)    *)
(* begins the release in one transaction, kills the sandbox and finishes in *)
(* a second one, and PostgresReconciler.reconcileRelease                    *)
(* (postgres-reconciler.ts) finishes what a handler abandoned.  Before it   *)
(* begins, a handler checks that Codex's durable references are             *)
(* synchronized with the latest snapshot, and when it finishes it removes   *)
(* the lease's own snapshot roots (postgres-reference-retention.ts).        *)
(*                                                                          *)
(* The fence of an operation is the name of its last claimant, as in        *)
(* ProvisionLifecycle.                                                      *)
(***************************************************************************)
EXTENDS LeaseRow

CONSTANTS
  Coordinators,  \* request handlers
  Reconcilers,   \* reconciler passes
  Keys           \* idempotency keys of release requests for this lease

Workers == Coordinators \cup Reconcilers
Free    == "free"
NoKey   == "nokey"

ASSUME ReleaseAssumption ==
  Coordinators \cap Reconcilers = {} /\ Free \notin Workers /\ NoKey \notin Keys

VARIABLES
  lease,    \* the durable lease row
  op,       \* the journal row of each release request
  alloc,    \* the release allocation of each request
  lock,     \* the worker whose open transaction holds the lease lock
  sandbox,  \* the provider's sandbox
  refs,     \* Codex's reference set, against the lease's latest snapshot
  roots,    \* whether the lease's own snapshot roots exist
  worker    \* each worker's locals

vars == <<lease, op, alloc, lock, sandbox, refs, roots, worker>>

WorkerStates == {"idle", "claimed", "killing", "killed", "recovering"}
IdleWorker   == [pc |-> "idle", key |-> NoKey]

Init ==
  /\ lease = NewLease
  /\ op = [k \in Keys |-> [state |-> "absent", owner |-> Free]]
  /\ alloc = [k \in Keys |-> "none"]
  /\ lock = Free
  /\ sandbox = "running"
  /\ refs = "synchronized" /\ roots = TRUE
  /\ worker = [w \in Workers |-> IdleWorker]

Key(w)      == worker[w].key
Goto(w, pc) == worker' = [worker EXCEPT ![w].pc = pc]
Stop(w)     == worker' = [worker EXCEPT ![w] = IdleWorker]
Owns(w)     == op[Key(w)] = [state |-> "in_progress", owner |-> w]

(* The error path: a handler reads the outcome back, a pass just ends. *)
GiveUp(w) == IF w \in Coordinators THEN Goto(w, "recovering") ELSE Stop(w)

(* The last commit of a transaction, whose acknowledgement may be lost. *)
Finish(w) == Stop(w) \/ GiveUp(w)

-----------------------------------------------------------------------------
(* The references Codex keeps, and the snapshots the lease advances to. *)

Checkpoint ==
  /\ lease.state = "active" /\ lock = Free /\ refs = "synchronized"
  /\ refs' = "behind"
  /\ UNCHANGED <<lease, op, alloc, lock, sandbox, roots, worker>>

Retain ==
  /\ lock = Free /\ refs = "behind"
  /\ refs' = "synchronized"
  /\ UNCHANGED <<lease, op, alloc, lock, sandbox, roots, worker>>

(* The thread is deleted: its references are cleared for good. *)
ClearReferences ==
  /\ refs # "cleared"
  /\ refs' = "cleared"
  /\ UNCHANGED <<lease, op, alloc, lock, sandbox, roots, worker>>

SandboxLost ==
  /\ sandbox = "running"
  /\ sandbox' = "gone"
  /\ UNCHANGED <<lease, op, alloc, lock, refs, roots, worker>>

-----------------------------------------------------------------------------
Claim(w, k) ==
  /\ w \in Coordinators /\ worker[w].pc = "idle" /\ op[k].state = "absent"
  /\ op' = [op EXCEPT ![k] = [state |-> "in_progress", owner |-> w]]
  /\ worker' = [worker EXCEPT ![w] = [pc |-> "claimed", key |-> k]]
  /\ UNCHANGED <<lease, alloc, lock, sandbox, refs, roots>>

(* claimStaleOperations skips a row its owner's open transaction locked. *)
TakeOver(w, k) ==
  /\ w \in Reconcilers /\ worker[w].pc = "idle" /\ op[k].state = "in_progress"
  /\ lock # Free => Key(lock) # k
  /\ op' = [op EXCEPT ![k].owner = w]
  /\ worker' = [worker EXCEPT ![w] = [pc |-> "claimed", key |-> k]]
  /\ UNCHANGED <<lease, alloc, lock, sandbox, refs, roots>>

(* assertSynchronized, which only the handler asks. *)
MayBegin(w) == w \in Coordinators => refs = "synchronized"

(* The first transaction.  The acknowledgement of its commit may be lost.   *)
BeginRelease(w) ==
  /\ worker[w].pc = "claimed" /\ lock = Free /\ Owns(w)
  /\ lease.state # "released" /\ MayBegin(w)
  /\ lease' = BegunRelease(lease)
  /\ alloc' = [alloc EXCEPT ![Key(w)] = IF @ = "none" THEN "allocated" ELSE @]
  /\ Goto(w, "killing") \/ GiveUp(w)
  /\ UNCHANGED <<op, lock, sandbox, refs, roots>>

(* removeReleasedLeaseRoots, which only the handler calls. *)
RootsAfter(w) == IF w \in Coordinators THEN FALSE ELSE roots

Succeed(w) == op' = [op EXCEPT ![Key(w)] = [state |-> "succeeded", owner |-> Free]]

Reclaimed(k) == alloc' = [alloc EXCEPT ![k] = IF @ = "none" THEN @ ELSE "reclaimed"]

(* Mutant: the first transaction does not expect a released lease. *)
MutAlreadyReleased(w) ==
  /\ worker[w].pc = "killing" /\ lock = Free /\ Owns(w)
  /\ lease.state = "released"
  /\ Reclaimed(Key(w))
  /\ Succeed(w) /\ Finish(w)
  /\ UNCHANGED <<lease, lock, sandbox, refs, roots>>

(* Either transaction finds the lease released by another request. *)
AlreadyReleased(w) ==
  /\ worker[w].pc \in {"claimed", "killing"} /\ lock = Free /\ Owns(w)
  /\ lease.state = "released"
  /\ roots' = IF worker[w].pc = "claimed" THEN RootsAfter(w) ELSE roots
  /\ Reclaimed(Key(w))
  /\ Succeed(w) /\ Finish(w)
  /\ UNCHANGED <<lease, lock, sandbox, refs>>

(* A transaction finds another owner, or references behind the snapshot. *)
TransactionRefused(w) ==
  /\ worker[w].pc \in {"claimed", "killing"} /\ lock = Free
  /\ ~Owns(w) \/ (worker[w].pc = "claimed" /\ lease.state # "released" /\ ~MayBegin(w))
  /\ GiveUp(w)
  /\ UNCHANGED <<lease, op, alloc, lock, sandbox, refs, roots>>

TransactionFails(w) ==
  /\ worker[w].pc \in {"claimed", "killing"}
  /\ GiveUp(w)
  /\ UNCHANGED <<lease, op, alloc, lock, sandbox, refs, roots>>

(* The second transaction kills the sandbox under the lease lock and        *)
(* accepts one that is gone.                                                *)
Kill(w) ==
  /\ worker[w].pc = "killing" /\ lock = Free /\ Owns(w)
  /\ lease.state = "release_pending"
  /\ lock' = w /\ Goto(w, "killed")
  /\ sandbox' = "gone"
  /\ UNCHANGED <<lease, op, alloc, refs, roots>>

(* Mutant: a failed kill gives the lease back. *)
MutKillFails(w) ==
  /\ worker[w].pc = "killing" /\ lock = Free /\ Owns(w)
  /\ lease.state = "release_pending"
  /\ lease' = [lease EXCEPT !.state = "active"]
  /\ sandbox' \in {sandbox, "gone"}
  /\ GiveUp(w)
  /\ UNCHANGED <<op, alloc, lock, refs, roots>>

(* Any other error of the provider, before or after it took effect. *)
KillFails(w) ==
  /\ worker[w].pc = "killing" /\ lock = Free /\ Owns(w)
  /\ lease.state = "release_pending"
  /\ sandbox' \in {sandbox, "gone"}
  /\ GiveUp(w)
  /\ UNCHANGED <<lease, op, alloc, lock, refs, roots>>

(* Mutant: success is stored, the lease stays release_pending. *)
MutCompleteRelease(w) ==
  /\ worker[w].pc = "killed"
  /\ roots' = RootsAfter(w)
  /\ Reclaimed(Key(w))
  /\ Succeed(w) /\ lock' = Free /\ Finish(w)
  /\ UNCHANGED <<lease, sandbox, refs>>

CompleteRelease(w) ==
  /\ worker[w].pc = "killed"
  /\ lease' = CompletedRelease(lease)
  /\ roots' = RootsAfter(w)
  /\ Reclaimed(Key(w))
  /\ Succeed(w) /\ lock' = Free /\ Finish(w)
  /\ UNCHANGED <<sandbox, refs>>

RollBack(w) ==
  /\ worker[w].pc = "killed"
  /\ lock' = Free
  /\ GiveUp(w)
  /\ UNCHANGED <<lease, op, alloc, sandbox, refs, roots>>

(* recoverCommitOutcome: success is answered from the row, anything else is *)
(* a 503 that leaves the operation to the reconciler.                       *)
RecoverCommitOutcome(w) ==
  /\ worker[w].pc = "recovering"
  /\ Stop(w)
  /\ UNCHANGED <<lease, op, alloc, lock, sandbox, refs, roots>>

Crash(w) ==
  /\ worker[w].pc # "idle"
  /\ Stop(w)
  /\ lock' = IF lock = w THEN Free ELSE lock
  /\ UNCHANGED <<lease, op, alloc, sandbox, refs, roots>>

ReleaseStep(w) ==
  \/ BeginRelease(w) \/ AlreadyReleased(w) \/ TransactionRefused(w)
  \/ Kill(w) \/ CompleteRelease(w) \/ RecoverCommitOutcome(w)

Failure(w) == TransactionFails(w) \/ KillFails(w) \/ RollBack(w) \/ Crash(w)

Next ==
  \/ Checkpoint \/ Retain \/ ClearReferences \/ SandboxLost
  \/ \E w \in Workers :
       \/ \E k \in Keys : Claim(w, k) \/ TakeOver(w, k)
       \/ ReleaseStep(w) \/ Failure(w)

Spec == Init /\ [][Next]_vars

(* The owner of the operation is not at work on it. *)
Abandoned(k) == \A w \in Workers : op[k].owner = w => Key(w) # k

(* What an outage can do: a failure that is not also an ordinary step, a    *)
(* lost acknowledgement of the first commit, and a takeover from an owner   *)
(* that is still at work but stalled for longer than the stale bound.       *)
Outage(w) ==
  \/ Failure(w) /\ ~ReleaseStep(w)
  \/ BeginRelease(w) /\ worker'[w].pc # "killing"
  \/ \E k \in Keys : ~Abandoned(k) /\ TakeOver(w, k)

(* Outages end; the reconciler keeps polling and each pass goes on. *)
FairSpec ==
  /\ Spec
  /\ <>[][\A w \in Workers : ~Outage(w)]_vars
  /\ \A w \in Workers : WF_vars(ReleaseStep(w))
  /\ \A w \in Reconcilers, k \in Keys : WF_vars(Abandoned(k) /\ TakeOver(w, k))

-----------------------------------------------------------------------------
LL == INSTANCE LeaseLife

(* Every variable keeps to the values the code gives it. *)
TypeOK ==
  /\ lease \in Lease
  /\ op \in [Keys -> [state : {"absent", "in_progress", "succeeded"},
                      owner : Workers \cup {Free}]]
  /\ alloc \in [Keys -> {"none", "allocated", "reclaimed"}]
  /\ lock \in Workers \cup {Free}
  /\ sandbox \in {"running", "gone"}
  /\ refs \in {"synchronized", "behind", "cleared"} /\ roots \in BOOLEAN
  /\ worker \in [Workers -> [pc : WorkerStates, key : Keys \cup {NoKey}]]

(* The release protocol implements the promise about a lease: nothing else  *)
(* ever happens to the row, and it is released only without its sandbox.    *)
ImplementsLeaseLife == LL!Spec

(* A release answered with success, by any handler or pass and for any of   *)
(* the competing keys, left the lease released and its sandbox and          *)
(* allocation reclaimed (postgres-release.ts completeOperation).            *)
SuccessMeansReleased ==
  \A k \in Keys : op[k].state = "succeeded" =>
    /\ lease.state = "released" /\ sandbox = "gone"
    /\ alloc[k] \in {"none", "reclaimed"}

(* A lease whose release began is released, and every request for it        *)
(* succeeds, once failures end (postgres-reconciler.ts reconcileRelease).   *)
(* Nothing is asked of a request while the lease is active: a handler may   *)
(* have refused it for references behind the latest snapshot, and           *)
(* ARCHIVE.md:1028-1031 wants that to preserve the lease, where TakeOver    *)
(* and BeginRelease of a reconciler carry the request out.                  *)
ReleaseCompletes ==
  /\ lease.state = "release_pending" ~> lease.state = "released"
  /\ \A k \in Keys : (op[k].state = "in_progress" /\ lease.state # "active")
                      ~> op[k].state = "succeeded"
=============================================================================
