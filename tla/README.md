# TLA+ verification of Cudex: control plane, hosted runtimes and remote execution

Cudex runs hosted coding agents: a local `codex` front end, and a TypeScript
control plane (`src/e2b/`) that gives every remote agent a leased E2B sandbox,
keeps its workspace as immutable snapshots and patches in a blob store, and
records everything it promises in PostgreSQL. The vendored Codex fork
(`src/codex/`) is the client of that service: its thread manager owns the
leases of its agents, and its exec client runs their commands through the
gateway. This project models the control plane, and of the fork the parts that
Cudex added or depends on: the hosted agent runtime, the deletion of hosted
threads, and remote process execution with its reconnects.

## 1. Inventory

Several replicas of one process share a database. A replica has an HTTP
control plane, a WebSocket gateway, and reconciler timers. Components interact
through the database: rows, `FOR UPDATE` row locks, advisory locks on leases,
provider resources and object locations, and `UPDATE` statements fenced by
(worker ID, generation). The E2B provider, the blob store and the sandbox's
exec server are outside every transaction: what they did stays done when a
transaction rolls back or a process dies. There is no messaging between
replicas; sockets are closed by the replica that commits a revocation, and
elsewhere by polling.

| Component (under `src/e2b/src/`) | State | Operations | What makes it correct | Module |
|---|---|---|---|---|
| Operation journal: `postgres-store.ts`, `db/queries/journal.sql` | a row per idempotency key: request hash, state, worker, generation, heartbeat, outcome; allocation rows | claim, wait, heartbeat, complete, fail, take over stale rows; record, update, adopt allocations | one owner at a time; one recorded outcome per key whoever asks | `JournalRow`, `OperationJournal` |
| Provision: `postgres-provision.ts` | a handler per request | create, snapshot, record, prepare, commit, recover a lost acknowledgement, clean up, replay | a lease that exists has a live sandbox; a sandbox without a lease goes away | `ProvisionLifecycle` |
| General reconciler: `postgres-reconciler.ts` | one pass at a time per replica | take over, reclaim, inventory sweep, finish reconnects and releases | never destroys what a lease uses; gets everything abandoned decided | `ProvisionLifecycle`, `LeaseAccess`, `ReleaseLifecycle`, `ObjectLifecycle` |
| Lease rows: `postgres-state.ts`, `lifecycle.sql` | state, connection generation, latest snapshot; ticket hashes | begin/finish release, reconnect, lose, rotate, issue/consume/revoke tickets | a begun release is never undone, generations only grow | `LeaseRow`, `LeaseLife` |
| Reconnect: `postgres-reconnect.ts` | a handler per request | connect or lose, replay with rotation, issue a ticket | the answer and its ticket agree; a replay repairs a lost answer | `LeaseAccess` |
| Gateway and tickets: `gateway.ts`, `postgres-tickets.ts` | connections, the active map with its limit | consume, three target checks, proxy, revalidate, revoke | the connections of a revoked access are closed (`CLOSING`), where it was revoked at once, elsewhere by the timer | `LeaseAccess` |
| Release: `postgres-release.ts` | a handler per request | begin, kill, finish, recover | success means the sandbox is gone; begun releases finish | `ReleaseLifecycle` |
| Exec interactions: `exec-interaction-tracker.ts`, `postgres-lease-interactions.ts` | ledger rows; per connection the pending requests, processes and session | begin, forward, finish, detach, resume, reattach, assert quiescence | a capture sees a workspace nobody is changing | `ExecInteractions` |
| Checkpoint: `postgres-checkpoint.ts` | a handler per request | capture under the lease lock, prepare, commit | as provision; quiescent while capturing | `ExecInteractions` (capture), `HostedService` (promise) |
| Workspace preparations and objects: `workspace-snapshots.ts`, `postgres-workspace-preparations.ts`, `postgres-artifacts.ts`, `postgres-object-reclaimer.ts` | preparation and object rows, blobs | publish, prepare, commit, abort, reclaim | no committed snapshot names a deleted blob; no blob is forgotten | `ObjectLifecycle` |
| Reference retention: `postgres-reference-retention.ts` | a reference set per agent: revision, wanted IDs, tombstone, roots | retain, clear, assert synchronized | stale writers are refused; cleared stays cleared | `ReferenceSet`, `ReleaseLifecycle`, `HostedService` |
| Restore: `postgres-restore*.ts` | handlers; result leases | check the source, replace a lost lease | one heir per source | `HostedService` (promise) |
| Child: `postgres-child*.ts` | handlers; result leases | capture the owner, create the lease | one result lease per request | planned |
| Patch export: `postgres-patch-export*.ts` | artifacts | export a snapshot against its base, replay | one artifact per completion snapshot | `HostedService` (promise) |
| Patch apply: `postgres-patch-apply*.ts`, `patch-apply*.ts` | application rows and phases | swap, roll back, recover | the owner's workspace is the old or the new one | planned |
| Local patch apply, runner: `local-patch-apply.ts`, `cudex-runner.ts` | a local journal; child processes | journaled swap; start and stop of one run | as above, locally | planned |
| Source snapshots: `source-snapshots.ts` and helpers | a snapshot row per archive | publish, register, clean up | a registered source keeps its archive | `ObjectLifecycle` |
| HTTP boundary, contracts, configuration, JSON development backend, PoC tooling, secure data plane | none, or development only | | | not modelled |

| Component (under `src/codex/codex-rs/`) | State | Operations | What makes it correct | Module |
|---|---|---|---|---|
| Hosted agent runtime: `core/src/thread_manager.rs`, `thread_manager/hosted_agent_lifecycle.rs`, `hosted_agent_runtime.rs` | the runtime map and its entries with operation locks; the durable record in SQLite | start, resume, reconnect or restore, turn checkpoint, finalize, remove, retry a cleanup | an announced patch stays; a lease is held until its work is safe, then released | `HostedRuntime` over `HostedService` |
| Thread deletion outbox: `app-server/.../thread_delete.rs`, `state/src/runtime/thread_deletion_outbox.rs` | outbox batches with the fence of every member | delete a subtree, drain, defer, complete, retry, startup drain | no remote root outlives its thread unnoticed | `ThreadDeletion` over `ReferenceSet` |
| Exec server processes: `exec-server/src/local_process.rs`, `server/*.rs` | a process entry, its numbered events, the session and the connection it is attached to | start, read, write, terminate, notify, close, quiesce, attach, expire | events are numbered once, a start is cancelled or killed | `ExecProcess` |
| Exec client: `exec-server/src/client.rs`, `client_recovery.rs` | ordered events per process, session routes, the current connection | start and its cleanup, write, order events, recover a connection, fail | subscribers see one gapless stream | `ExecEvents`, `ExecRecovery`, promise in `EventStream` |
| Rest of the tree | the upstream agent | | | not modelled |

The hard behaviours: a crash or lost acknowledgement between a provider call
and the transaction that records it; a stalled worker that goes on after it was
taken over, under the same worker ID; a transaction that commits after its
client asked for the outcome; reclaimers and sweeps racing writers; access
revoked while a connection is being admitted on another replica; work in the
sandbox that outlives the connection that started it; in Codex, detached tasks
and timers that act on a runtime another task is replacing, a process that dies
between a remote effect and its SQLite record, and notifications reordered or
lost around a reconnect. `PROJECT.json` lists each
as a hazard at its line with the property that would catch it.

## 2. Plan

1. **A: the journal** (done, proved): every other component relies on its fence.
2. **B: provision and the general reconciler** (done).
3. **C: lease access and release** (done), with `LeaseLife` as their common
   abstract specification.
4. **E: exec interactions and captures** (done).
5. **H: the hosted runtime** (done): `HostedRuntime` composed with what the
   control plane promises (`HostedService`), and `ThreadDeletion` with its
   reference sets.
6. **X: remote execution** (done): server, wire and client composed, and shown
   to implement `EventStream`.
7. **D: objects and preparations** (done): publishing → prepared → committed, or
   reclaim_pending → reclaimed, against the object reclaimer, its location
   locks, blob deletion and source uploads.
8. **F: child and patch apply** (open): capture of the owner; the apply phases
   with rollback and recovery, against an abstract "old or new workspace"; the
   same for the journaled local apply; the merge decision of `patch-apply.ts` as
   an operator against a reference definition; the runner's shutdown order.
9. **Proofs** (section 5): the journal, release, lease access, provision, objects,
   exec interactions, exec recovery, thread deletion and of the hosted runtime that
   an announced patch stays, a held lease is not dropped, a finalization is not undone
   and a recorded snapshot keeps a root (done): every invariant and every action
   property that a run checks, but for the refinement of the event stream, is a theorem.

Module F composes `LeaseRow` and the fence of the journal as B and C do.
Questions of one component share a run where their instances allow it.

## 3. Modules and the code

`PROJECT.json` maps each definition to its lines. Conventions: a transaction is
one step unless the code calls the provider inside it or its commit and its
acknowledgement matter separately; a row lock held across steps is a variable;
a process crash is an action that forgets the actor's locals and lets its open
transaction roll back, or, once sent, commit late. A commit whose
acknowledgement is lost is a step of its own. `Mut...` definitions are
plausible bugs the properties are tested against; no specification uses them.
The theorems about a module `M` are in `MProofs`, which extends it; those about
`OperationJournal` and `ObjectLifecycle` share `JournalAndObjectProofs`, so the
journal's own names (`JournalSpec`, `JournalTypeOK`) carry its prefix.

* **`JournalRow`**: the row and the pure effect of each statement on it.
  **`OperationJournal`**: handlers that claim, wait, heartbeat, decide, are
  taken over and crash. `deciding` is a terminal `UPDATE` that is sent and holds
  the row lock until it commits or not, whoever still waits for it.
  A coordinator that cannot record its failure, because the fence refuses it or the
  statement is lost, answers its client with it all the same (`FailureSwallowed`).
  **`IdempotentOutcome`** says what clients are promised: a key is bound once,
  decided once, and every answer is that decision or a conflict, but for one: the
  call that claimed the key may report an unrecorded failure (`Report`).
* **`ProvisionLifecycle`**: one operation, its ledger by kind of resource, what
  really exists at the provider, the coordinator's program counter and the
  reconcilers' passes. Provider calls may fail before or after their effect.
  The object preparation is reduced to the ways it ends. The fence is the name
  of the last claimant, which `SingleOwnerHolds` justifies.
* **`LeaseRow`, `LeaseLife`**: the lease row's transitions, and the abstract
  life of a lease and its sandbox.
* **`LeaseAccess`**: tickets in issue order, reconnect operations with their
  transaction held over the provider call, replays, the generic release, and
  gateway connections through each of their reads. `barrier` is a history
  variable: the newest commit a replica closed sockets for.
* **`ReleaseLifecycle`**: the two transactions of a release and the kill between
  them, for competing keys, with reference synchronization and roots.
* **`ExecInteractions`**: a tracker per connection (`pending` split into
  forwarded and unforwarded, `processes`, `preInitializeQuiesced`), the ledger
  rows, captures holding the lease lock, and the exec server: its connections,
  sessions, what runs, and what it reports. Frames in `inbox` are handled one at
  a time but in any order, which allows more than the socket does. `late` is a
  history variable: the filesystem mutations whose row a resume settled after a
  newer connection had already taken the session over.
* **`ObjectLifecycle`**: object rows that may share a location, their allocations,
  workspace preparations and source uploads. Every operation at a location runs
  under its advisory lock, so `lock` has at most one holder per location, with what
  it is doing there: a publisher between `put` and the end of its transaction, a
  reclaimer between its two transactions. `worker` is the owner of an operation, a
  handler or a reconciler; their steps differ only in how they begin and in what
  they leave to the next pass. A superseded owner can no longer change a row, since
  each transaction checks its fence, but a delete it began goes on as a `stray`
  holder. `Commit` is the transaction every coordinator ends with: snapshot,
  `markCommitted`, adopted allocations, completed operation. `orphan` and `blind`
  are history variables for the two exceptions the properties name.
* **`ReferenceSet`**: the row and the fences of `retain` and `clear`; each is one
  transaction under the agent's advisory lock, hence one operator.
* **`HostedService`**: what the control plane promises one agent, an operation a
  step: its leases (`state`, number of snapshots, `final` completion checkpoint,
  `heir`, lease roots, `asked` release operation) and its reference set. A
  release has its two transactions (`Claimed`, `Begun`, `Released`) because the
  reconciler may finish one that was refused or cut short (`Reconciled`). The
  completion checkpoint, the export and the restore have keys fixed by the lease or
  the snapshot (`CompletionKey`, `ExportKey`, `RestoreKey`).
* **`HostedRuntime`**: one owned agent. `entry` are the runtime values behind
  `SharedHostedAgentRuntime`, `lock` their operation semaphores, `current` the
  slot of the runtime map, `record` the SQLite column. Three tasks share them:
  the end of a turn, the removal with its timers, start or resume. The shared
  parts of the code (`finalize_hosted_runtime`, `cleanup_runtime`) are actions
  with the task as parameter and its continuation in `task[k].then`. `history`
  remembers whether the thread was resumed, and whether while a task of its
  previous life was still running (`overlapped`). `refused` are the fixed keys whose
  failure the service journaled (`failed_terminal`): a failing call may or may not
  have its failure journaled (`Journals`), and a journaled one is the answer to every
  later call. A turn may end in a checkpoint or in a finalization; the code does the
  first for a root and the second for an owned agent (`session/mod.rs:1740`, `:1782`),
  so the model has more behaviours than either.
* **`ThreadDeletion`**: a forest of threads: rows, rollout files, records, the
  service's reference sets, and everything that moves a revision meanwhile
  (checkpoints, cleanups, resumes). `outbox` has the batch of each root. The order in
  which drains take batches (`last_attempt_at`, then `created_at`) is kept as the
  roots `ahead` of each batch, so that `ready_thread_deletion_batches` lists the ready
  batches with fewer than `Limit` ready ones ahead. A subtree is the least set that
  has its root and the children of its members along the edges left (`Closed`).
* **`ExecProcess`**: a process at the server: `proc.log` are the events in sequence
  order, `worker` the two kinds of tasks that number an event under the lock and
  send it after it, so that notifications overtake one another.
  **`ExecEvents`**: the client's `OrderedSessionEvents`, each operation under its
  mutex one operator. **`ExecRecovery`** composes them with requests, replies,
  connections that break, the reader of each connection, the recovery task, the
  start with its cleanup and a retried write. The caller of a start that failed is
  answered at once, while its cleanup is at work (`CleaningUp`). **`EventStream`**
  is the promise to a subscriber, with the refinement mapping `log <- proc.log`, `seen <- Seen`,
  `over <- events.failed`. `Seen` is what was delivered; once a recovery has found
  that events are lost (`gapped`), only the prefix that agrees with the log.

## 4. Runs

| Run | Checks | Instance | Distinct states |
|---|---|---|---|
| `journal` | `TypeOK`, `SingleOwner`, `DecisionIsCurrent`, `AgreedOutcome` | 1 key, 2 requests, 2 responses, 3 handlers under one worker ID, 2 takeovers | 55,781 |
| `provision` | `LeasedSandboxLives`, `SuccessIsDurable`, `ReclaimedIsGone`, `LeasedSnapshotIsKept` | 1 operation, 2 reconcilers (symmetric) | 910,453 |
| `provision_liveness` | `OrphanReclaimed`, `AbandonedDecided` | 1 reconciler, fairness | 85,067 |
| `lease_access` | `TypeOK`, `RevokedAccessStaysClosed`, `SoleBearer`, `ImplementsLeaseLife` | 2 replicas, 1 handler, 1 reconciler, 2 connections, limit 1, 2 tickets | 853,668 |
| `lease_connections` | `ReconnectReplyMatchesTicket`, `StaleConnectionCloses` | 2 replicas with a handler each, 1 connection, fair timer | 967,658 |
| `release` | `SuccessMeansReleased`, `ImplementsLeaseLife`, `ReleaseCompletes` | 2 handlers, 2 passes, 2 keys, fairness | 69,481 |
| `exec_interactions` | `FinishedIsOver`, `CaptureIsAccounted`, `AttachedTracksProcesses` | 2 connections (symmetric), a code-mode process, a filesystem mutation, 1 reconnect | 3,173,829 |
| `thread_deletion` | `NoRootIsForgotten`, `ClearedRootsStayGone`, `ClearableBatchDrains` | a hosted root and hosted child, page of 1, 1 background loop, 1 checkpoint, 2 leases, 1 failing call, 1 crash, fairness | 316,466 |
| `hosted_runtime` | `AnnouncedPatchIsDurable`, `RecordedSnapshotSurvives`, `HeldLeaseIsNotDropped`, `FinalizationIsNeverUndone`, `CleanupSettles` | 2 leases, 2 checkpoints each, 2 entries, 2 retry timers, 1 failing call or write, 1 crash, fairness | 894,982 |
| `exec_recovery` | `FailedStartLeavesNoProcess`, `ImplementsEventStream` | 1 stream, 2 outputs of which 1 is retained, reorder buffer of 2, 2 connections | 1,127,870 |
| `exec_progress` | `StdinIsWrittenOnce`, `CloseIsDelivered`, `FailedStartIsCleanedUp` | no output, a write sent up to twice, 2 connections, fairness | 156,842 |
| `objects` | `AvailableContentExists`, `ReferencedObjectIsAvailable`, `StoredContentIsAccounted`, `ReclaimedPreparationIsGone`, `ReclamationFinishes` | 2 preparations, 2 uploads, 4 objects of which 3 share a location, batches of 1, 1 fault, fairness | 473,099 |

Every module defines `TypeOK`. Two runs check it as a property of its own;
elsewhere it is part of an inductive invariant that is proved (section 5).

Why the bounds are enough. *Journal*: keys are independent; three handlers
give an owner, its successor and a waiting client, and two takeovers a
superseded owner whose successor is superseded too. *Provision*: an operation
has one coordinator; two reconcilers are the smallest number that can overlap
in a takeover and a sweep. *Lease*: a second ticket is what rotation needs; two
replicas distinguish "closed by the committer" from "found by the timer"; a
connection limit of 1 makes the full map reachable. *Exec*: the second
connection resumes the first one's session through another gateway; one
reconnect separates an exempt code-mode process from a stale one. A third
connection, which a late settlement needs, is beyond the run's time: the inductive
invariant was checked with three connections and one mutation (a filesystem mutation:
1,205,658 states, a process: 3,217,317) and is proved for any number. *Deletion*:
a page of one with two possible batches makes a refused batch stand before a
clearable one; one fault and one crash are each placed at every step. *Hosted
runtime*: the second lease and entry are what a restore or a resume needs, two
checkpoints give a record that names an older one, and two timers with one
failing call are more attempts than failures (three timers: 1,163,864 states,
the same result). *Remote execution*: two outputs with one retained make the
eviction, and a buffer of two its overflow, reachable; the second connection is
the recovered one, and its own break the failed recovery. *Objects*: two
preparations and a source at one location are the sibling cases, a second location
makes a publication that stops half way, and batches of one with two objects the
second batch; one fault is placed at every call and transaction (two faults with
one upload: 551,638 states, the same result). Deadlock is
not an error in the runs with `CHECK_DEADLOCK FALSE`: their operations end.

Fairness. *Provision*: a live coordinator and a live reconciler pass keep going
(`await`, interval timers), a sent transaction ends, heartbeats of an abandoned
operation age, and passes repeat (strong fairness of taking over, because a pass
is only sometimes idle). Outages, that is provider or database errors of the
reconciler, end eventually; without that nothing can be promised. That a pass
observes a given sandbox is not fair: the sweep looks at one page of the inventory.
`OrphanReclaimed` promises the end of a recorded sandbox without it, and of an
unrecorded one under the premise `PageReachesSandbox`; without the premise the
second half fails. *Lease*: only the revalidation interval of an open
connection is fair. *Release*: workers go on, abandoned operations are taken
over, outages end. *Hosted runtime*: spawned tasks run on, a retry timer fires
(`tokio::spawn`, `sleep`), and the service's reconciler polls; clients owe
nothing, and failing calls are bounded by `MaxFault`. *Deletion*: drains run on,
a sleeping loop wakes, a request that is past its local deletes replies.
*Remote execution*: one weak fairness condition on `Progress`, the disjunction of
every runnable task and of what notices a broken transport: the runtime runs
something as long as something can run. Output, exit, expiry and new requests are
outside it. `CloseIsDelivered` and `FailedStartIsCleanedUp` hold under so weak a
condition because `Progress`
cannot go on for ever in this instance: every step consumes an event, a request,
a connection or a phase of a task. *Objects*: the owners of operations and the
passes that take over abandoned ones go on, and at each location so does the holder
of its lock or the pass that looks for deleting objects; faults are bounded by
`MaxFault`, and clients and uploads owe nothing.

### Observations

What modelling showed besides the properties; where a property excepts one of
them it says so.

Control plane:

* Six coordinators answer with a failure they may not have recorded:
  `failOperation(...).catch(() => undefined); throw failure`
  (`postgres-provision.ts:240`, `postgres-checkpoint.ts:148`, `postgres-child.ts:363`,
  `postgres-restore.ts:321`, `postgres-patch-export.ts:253`,
  `postgres-patch-apply.ts:401`). The row stays in progress, or belongs to a successor,
  and may be decided otherwise, also by a 4xx that a client takes for final.
  `AgreedOutcome` allows exactly this report, once per key.
* The inventory sweep examines the first `maxInventorySandboxesPerRun` sandboxes in the
  provider's order, 100 by default, and keeps no cursor (`postgres-reconciler.ts:711`):
  an unrecorded orphan behind that many others is not found as long as they stay. A
  sandbox with more than `maxInventorySnapshotsPerSandbox` snapshots is never killed
  (`:726`, `:740`); a provision that failed has made at most one.
* `kill` of a sandbox that is already gone throws (`e2b-provider.ts:233`), and the
  reconciler retries it for ever (`postgres-reconciler.ts:646`), so its operation is
  never decided. `AbandonedDecided` excepts exactly the histories where the sandbox
  is gone and its allocation is never reclaimed.
* The sweep may delete a snapshot between its creation and its record
  (`postgres-reconciler.ts:734`); the lease is then based on it
  (`postgres-provision.ts:282`). `LeasedSnapshotIsKept` says that no step takes the
  snapshot of an existing lease.
* A second replay of one reconnect key is answered 503: the first one rotated the
  generation the stored response is compared with (`postgres-reconnect.ts:186`).
* A release refused for unsynchronized references (`postgres-release.ts:101`) stays in
  progress and the reconciler carries it out without the check
  (`postgres-reconciler.ts:536`). `ARCHIVE.md:1028-1031` says otherwise: "Production
  release checks the synchronized latest snapshot under its existing lease transaction
  before it can revoke or destroy the sandbox. A failure therefore preserves the
  lease". The reconciler also leaves the lease's snapshot roots (`:576`), which a
  handler removes (`ARCHIVE.md:1038`). `ReleaseCompletes` asks nothing of a request
  while its lease is active, so it does not take that outcome for right;
  `RecordedSnapshotSurvives` holds with this step included.
* A filesystem mutation outlives its connection's handler; resume finishes its row
  (`exec-interaction-tracker.ts:223`) and a capture overlaps it. `FinishedIsOver` and
  `CaptureIsAccounted` except exactly that case (`Outlived`).
* The same resume lists the open filesystem rows of its session and settles them one
  by one without asking whether its connection is still the attached one
  (`exec-interaction-tracker.ts:221-223`). If the next connection resumes meanwhile,
  its mutation may be among them: the row is finished before the frame is forwarded
  (`late`, excepted by the same two properties). It takes three connections, and the
  attempt to prove `FinishedIsOver` without the exception is what showed it.
* `UpdateAllocationState` (`journal.sql:42`) evaluates its fence without locking the
  operation row, so an update can commit after a takeover (both steps are in
  `ProvisionLifecycle`; `ReclaimedIsGone` holds nevertheless).
* A replayed provision issues its ticket without binding it to the generation it
  answers with, where reconnect, child and restore do.
* `reclaimOne` asks who else names a location only while the row is not yet
  `deleting` (`postgres-object-reclaimer.ts:248`). When a delete failed or its process
  died, the lock is released and a sibling may publish and register the same
  content; the next owner of the operation then deletes it, even under a committed
  snapshot. `recoverDeletingObjects` does check again, and `ARCHIVE.md:646-650` says of
  the recovery that content "registered by a sibling logical object during the crash
  window is retained". `AvailableContentExists` excepts exactly this step (`blind`).
* A source archive's object ID depends on tenant and checksum only, and inserting it
  again leaves a `deleted` row as it is: after one failed upload was cleaned up, the
  tenant's further uploads of that content are all refused with 503, and each leaves
  its content in the store without a row that would delete it (`orphan`).
* A `put` whose transaction is rolled back leaves unregistered content too, which
  `ARCHIVE.md:653-656` states. `StoredContentIsAccounted` excepts both cases.
* The claim of a reclaimer skips locked rows. A handler whose last batch skipped one
  fails its operation all the same, so its preparation may stay `reclaim_pending`;
  the object itself is deleted (`ReclamationFinishes`).

Codex:

* `remove_thread` does not wait for the detached task that ends a turn
  (`tasks/mod.rs:589`), and `release_removed_hosted_runtime` persists `Released` without
  replacing the value in the entry it released (`thread_manager.rs:2041`). A
  `finalize_hosted_runtime` that was waiting for that entry's operation lock then
  reads `Active`, writes `PendingFinalization` over the released record, and fails at
  the checkpoint of a released lease, now and on every retry, where `ARCHIVE.md:529`
  says "completion finalizes durably before release". The properties of
  `hosted_runtime` hold with this race included.
* A retry timer takes its entry out of the runtime map, so
  `hosted_runtime_cleanup_pending` is false while it cleans up
  (`thread_manager.rs:1897`); a deletion may then record a fence the cleanup is about
  to move, and its batch is refused and deferred for ever. `ARCHIVE.md:520` says
  "pending cleanup prevents destructive deletion", and `:1076-1077` that "Failure to
  persist a successful release revision keeps hosted cleanup pending, so deletion
  cannot enqueue a stale remote fence". `HeldLeaseIsNotDropped` counts an entry in the
  hands of such a task as held. No property forbids the stale fence:
  `NoRootIsForgotten` holds, as the batch stays, and `ClearableBatchDrains` is about
  batches that can be cleared.
* The completion checkpoint, the export and the restore have fixed keys
  (`hosted_agent_runtime.rs:689`, `:716`, `:448`), and the service journals their
  failures as `failed_terminal`, the 409 of a sandbox that is not quiescent included
  (`postgres-checkpoint.ts:91`, `:148`; `postgres-patch-export.ts:253`;
  `postgres-restore.ts:321`). Every retry then hears the same failure: the agent is
  never finalized, its lease not released, or its thread never resumed, where
  `ARCHIVE.md:516-518` says "Service failure during checkpoint/export preserves the
  lease for retry". The lease is preserved, but the retry cannot succeed.
  `CleanupSettles` excepts leases with such a failure (`Finishable`).
* When the reply to a start is lost, the caller gets its error at once and the child is
  terminated in the background (`client.rs:970`); on a client that has failed the
  cleanup gives up, and the child lives until its session expires at the server.
* A resume may overlap the finalization or the cleanup of the previous life, whose
  writes of the record are not fenced against it. The properties about the record
  exclude histories that had such an overlap.
* A checkpoint that was recorded but not retained is unrestorable after the next
  one, since the service restores only from the latest snapshot of a lease.
* A restored lease has a base of its own, and an export is refused when the
  runtime's base differs: a restored runtime cannot complete.
* When the last write of a finalization fails, the entry is corrected and the record
  stays behind until the next start.
* After a recovery has found that output was evicted, `recover_events` publishes the
  chunks it has before it reports the gap (`client_recovery.rs:112`); what
  subscribers are sent from there on is not promised (`Seen`).

## 5. Proofs

TLAPS checks the following for every value of the constants that satisfies the
assumptions named in the modules (`ASSUME`); TLC evaluates those assumptions in the
runs. A theorem `PHolds` states `Spec => []P`, or `Spec => P` for an action property
or a refinement. Few of the properties are inductive. Each proof rests on an inductive
invariant, stated at the head of its module, with one step per action; the invariants
were checked by TLC before they were proved. What each adds is the argument:

* **`JournalAndObjectProofs`**, of `OperationJournal` (any keys, requests, responses,
  handlers, workers): `JournalTypeOK`, `SingleOwner`, `DecisionIsCurrent`, and that the
  journal implements
  `IdempotentOutcome` (`AgreedOutcome`). A takeover preserves `SingleOwner` only
  because no running handler holds the generation it hands out. `JournalInvariant`
  adds `FencesUnique` (no generation is held by two handlers of a key),
  `HandlersConsistent` (a handler's generation never exceeds its row's, and it serves
  the request the row is bound to) and `RowsConsistent`. The refinement maps `bound`
  to the row's request hash and `outcome` to its outcome; `DecisionIsCurrent` makes a
  late commit decide an undecided row. An unrecorded failure is reported once, because
  the call that claimed the key leaves with it (`ReportsFinal`).
* **`ReleaseLifecycleProofs`** (any handlers, passes, keys):
  `SuccessMeansReleased`, `ImplementsLeaseLife`, and `TypeOK`. The kill happens between two
  transactions, so the invariant says who may be there: a worker past the kill holds
  the lock of a lease that is `release_pending` and owns its operation
  (`KilledUnderLock`), nobody else holds that lock (`LockIsHeld`), and a released lease
  has lost its sandbox (`ReleasedIsGone`).
* **`LeaseAccessProofs`** (any replicas, handlers, connections, tickets and limit):
  `TypeOK`, `RevokedAccessStaysClosed`, `SoleBearer`, `ReconnectReplyMatchesTicket`,
  `ImplementsLeaseLife`. An admission uses up its ticket, registers, and only then
  reads the lease again. The invariant says that only the newest ticket is live
  (`NewestTicketOnly`) and no two connections share one (`ConnectionsHaveTickets`),
  that an open socket is in the map its replica closes from, and not behind the
  replica's barrier once its last read passed (`OpenSocketsAreListed`), that no barrier
  is ahead of the row (`BarriersAreReached`), and that the row does not move under a
  transaction that is open over a provider call (`LockedLeaseIsStable`).
* **`ProvisionLifecycleProofs`** (any number of reconcilers): `LeasedSandboxLives`,
  `SuccessIsDurable`, `ReclaimedIsGone`, `LeasedSnapshotIsKept`. Once the final
  transaction is sent it holds the operation row, so no takeover and no verdict comes
  between (`CommitIsLast`); a pass that reclaims owns the operation and works on what
  it listed (`ReclaimersOwn`, `TodoIsListed`); adopted resources belong to an existing
  lease (`AdoptedIsLeased`); from its record on, the sandbox of a coordinator that still
  owns the operation is in the ledger, which protects it from the sweep
  (`OwnedSandboxLives`); and what a cleanup records as reclaimed its call has removed
  (`CleanedIsGone`).
* **`JournalAndObjectProofs`**, of `ObjectLifecycle` (any objects, locations and
  sharing, any batch size):
  `AvailableContentExists`, `ReferencedObjectIsAvailable`, `StoredContentIsAccounted`,
  `ReclaimedPreparationIsGone`. The store and the rows disagree while a holder of a
  location lock is between its steps, so the invariant says for each kind of holder
  what it has done (`HoldersHaveContent`, `HoldersHaveRows`, `DeletersAreAlone`) and for
  each owner that it holds one location at a time, in the phase its preparation is in
  (`PublishersPublish`, `ReclaimersReclaim`, `UploadersHold`); an allocation is reclaimed
  only after its object is deleted (`AllocationsFollowObjects`).
* **`ExecInteractionsProofs`** (any connections, mutations and reconnects):
  `FinishedIsOver`, `CaptureIsAccounted`, `AttachedTracksProcesses`. The invariant
  follows one mutation from its row to its end: what was forwarded has been journaled
  (`JournaledFirst`); what may still run came through a ready tracker, in the session
  its row names, which its connection keeps (`BusyIsHeld`, `SessionsAreHeld`); what the
  server reports is over (`ReportsAreTrue`); what is not forwarded yet has an open row
  (`UnforwardedIsOpen`). A capture needs a state in which everything is finished or
  exempt, and the lease lock keeps it that way (`CaptureIsQuiescent`).
* **`ExecRecoveryProofs`** (any streams, outputs, connections, retries):
  `FailedStartLeavesNoProcess`, `StdinIsWrittenOnce`. A session is attached only while
  no other connection holds it (`SessionFollows`), so at most one start is at the
  server, on the connection the session is attached to, and it is awaited or was given
  up with a broken connection (`StartIsOne`). The failed start has its child only while
  its cleanup is at work. An answer to the cleanup's terminate on an
  open connection therefore means that no start is left (`RepliesAreLast`). The write ID
  is remembered in the step that writes (`WriteIsRemembered`).

* **`ThreadDeletionProofs`** (any forest of threads, page size, background drains,
  checkpoints, failing calls and crashes): `NoRootIsForgotten`, `ClearedRootsStayGone`.
  A batch that is completed takes the fences of its members with it, so the proof is
  about what the drain that completes it has seen. `DeletionInvariant` says that a
  batch is a family (`WholeBatches`): the root, whatever it still reaches, and nothing
  else with a row, with a fence for each hosted row (`Leased`: a record always names a
  lease, so its fence is not empty). A root may be enqueued again while a drain holds
  its old batch, but a drain lists only batches without rows, and a root without its
  row reaches nothing (`RootLast`), so the new batch has no fence the old list lacks
  (`ListedAreGone`). What a drain took without a failure is cleared
  (`TakenAreCleared`), and by the tombstone stays so. Rows go in a set that is closed
  under the edges left (`RequestRecorded`), which takes nothing else from the subtree
  of another batch (`SubtreeShrinks`). The queue is a strict order (`Lined`,
  `ListedInLine`), so a list that is not empty has a first batch: the one with the
  fewest ahead of it (`FirstInLine`).
* **`HostedRuntimeProofs`** (any leases, checkpoints, entries, timers, failing calls
  and crashes): `AnnouncedPatchIsDurable` (theorem `PatchIsDurable`). Three tasks hold
  copies of the runtime's value, and only the operation lock and the revision of the
  reference set keep an old copy from being saved. `RuntimeInvariant` says that a task
  in its critical section has the lock and the value of its entry, but for what it is
  about to save (`HoldsEntry`), and that a value which still passes the revision fence
  has the patch the service was told of, and is not one of the first lease once a later
  one was retained (`Sound`). Until then the record and the entry of the first lease
  have the patch together (`PatchIsKept`); from then on a value of the first lease is
  refused, and a later lease has no patch, because an export needs the runtime's base,
  which only the first lease has (`SoundService`). The proof treats the control plane
  through one relation, `Moves`: what any of its operations keeps for everybody.

  `HeldLeaseIsNotDropped` (theorem `PendingRuntimeIsHeld`) is about the first life of
  the thread. `FirstLife` says that until a crash or a resume every value names the one
  lease, that an entry whose lease is not released is the one of the map or the one the
  cleanup holds, that a cleanup which finalizes has put its entry back first, and that
  nobody writes `released` before the lease is: a release that was acknowledged has
  released the lease (`DoneIsReleased`).

  `FinalizationIsNeverUndone` (theorem `FinalizationStands`) is about all lives, as long
  as no resume overlaps what ran before it. Only a resume that has a later lease could
  write a record without the patch. `OneLife` says that such a resume is alone
  (`Alone`), that it reads a record without a patch and leaves a current entry of the
  first lease that nobody will finalize (`Renews`), and that once the later lease is
  retained whoever still has the first entry can only release it (`Replaced`).
  `Orderly` holds without that condition: without its thread a runtime in the map is not
  active, a checkpoint does not change the state it found, and the record knows of a
  pending finalization before the entry does. A writer of the record in its critical
  section then has the patch of its entry, which is the patch of the record
  (`RecordSteps`, `PatchIsKept`).

  `RecordedSnapshotSurvives` (theorem `RecordedSnapshotIsKept`) is about all lives too,
  under the same condition. A snapshot has two possible roots, its lease's and the
  reference set's, and a release takes the first; so whoever releases must have retained
  what the record names at that moment, not what its own copy named. `SnapshotInvariant`
  says of the service that a lease loses its roots only when it ends, and is released
  unasked only after an heir took over its snapshot (`Served`). As long as no resume
  overlaps what ran before it (`Guarded`): at most one entry is held by the map and the
  tasks, and it names the lease and snapshot of the record (`HeldAgree`); the references
  want the base, and the latest snapshot once its lease lost its roots (`Kept`); a task
  in its critical section has the record's snapshot or a newer one of a lease that is
  still rooted (`Working`); who is about to release or to publish has retained its
  snapshot (`Wanting`); and a resume goes on with the record it read and makes the heir
  of the lease that has the record's snapshot (`Begins`). Theorem `SnapshotsAreGuarded`
  proves it together with `Lives`. It was checked with TLC on the instance of
  `hosted_runtime` first.

Model-checked only:

* liveness (`OrphanReclaimed`, `AbandonedDecided`, `StaleConnectionCloses`,
  `ReleaseCompletes`, `ReclamationFinishes`, `ClearableBatchDrains`, `CleanupSettles`,
  `CloseIsDelivered`, `FailedStartIsCleanedUp`): fairness and `ENABLED` are out of
  the prover's reach;
* `ImplementsEventStream`: its mapping selects the longest prefix of a sequence that
  agrees with the log, and what the client's buffer and the server's log do to it are
  folds over sequences, which needs induction over data.

## 6. Not modelled, and limits

Byte formats (archives, manifests, patches), request parsing and
authorization, logging, configuration and the development JSON backend are left
out: single-step code without shared state. Time is abstracted to "fresh or
stale", and TTLs to actions that may happen. Hashes and random tickets are
indices: collisions and guessing are outside the model. In `ExecInteractions`
clients do not reuse process IDs (the tracker's map is by process ID), and an
initialize response always names a session the server made.

Child provision, patch apply (remote and local) and the runner have state worth
modelling and are the open steps of the plan. Of objects, the claim by operation
(`reclaimOperationObjects`), artifacts, expiry and the publication paths without a
preparation are not modelled. `ObjectLifecycle` assumes that the delete of a holder
that failed or lost its session has been carried out by then or never will be: the
advisory lock does not fence the store, so a delete that is still under way when
its session ends could remove what a successor publishes. Provision's,
checkpoint's and restore's journal steps are modelled once, in `ProvisionLifecycle`; `HostedService` relies on them and treats
each operation as one step.

The vendored Codex tree has some 720,000 lines of Rust, nearly all of it the
upstream agent (terminal UI, model clients, tools, platform sandboxes,
configuration). Only its hosted-agent and remote-execution parts are modelled, and
of those not: removals by residency limits and agent control, which skip the list
permit; `apply_patch` and tool authorization; the root agent's export; stdin write
IDs beyond the 4096 the server remembers; byte limits of reads and of retained
output (counted in chunks here); `sandbox_denied`; signals; HTTP bodies. A client
with several processes is one process here, because they share only the recovery,
which reads them one after the other.
