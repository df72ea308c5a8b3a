---------------------------- MODULE ThreadDeletion ----------------------------
(***************************************************************************)
(* Deleting a thread and its spawned subtree while hosted references live   *)
(* at the service: thread/delete of the app server (thread_delete.rs), the  *)
(* SQLite deletion outbox (thread_deletion_outbox.rs), the drains that clear *)
(* the service's references, and what moves a reference revision meanwhile: *)
(* turn checkpoints, and hosted cleanup by the removal or by a retry timer  *)
(* (thread_manager.rs).                                                     *)
(*                                                                          *)
(* A SQLite transaction, a file removal and a service call are one step     *)
(* each.  A faulty call either does nothing or takes effect and loses its   *)
(* reply; a local write may fail.  The process may crash between any two    *)
(* steps: memory is lost, SQLite, rollout files and the service are not.    *)
(***************************************************************************)
EXTENDS ReferenceSet, FiniteSets, FiniteSetsExt

CONSTANTS
  NThreads,   \* threads are 1..NThreads, in thread-ID order
  Parent,     \* spawn edges: 0 for a root
  Hosted,     \* the threads that own a hosted runtime
  Limit,      \* batches one drain lists (64)
  Loops,      \* bound: background drains alive at once
  MaxLatest,  \* bound: checkpoints of a thread
  MaxLease,   \* bound: leases of a thread
  MaxFault,   \* bound: failing calls
  MaxCrash    \* bound: crashes

Threads == 1..NThreads

ASSUME DeletionAssumption ==
  /\ NThreads \in Nat \ {0} /\ Limit \in Nat \ {0}
  /\ MaxLatest \in Nat /\ MaxLease \in Nat \ {0} /\ MaxFault \in Nat /\ MaxCrash \in Nat
  /\ Hosted \subseteq Threads
  /\ \A t \in Threads : Parent[t] \in 0..(t - 1)
  /\ IsFiniteSet(Loops) /\ "request" \notin Loops

VARIABLES
  row,      \* the threads row (and spawn edge) of a thread exists
  rollout,  \* its rollout file exists
  record,   \* hosted_runtime_json of the row
  outbox,   \* thread_deletion_outbox: the batch of each root, and who is ahead of it
  refs,     \* the service's reference set of each agent
  runtime,  \* the hosted runtime entry, in the map or taken out of it
  checkpoint, \* the turn checkpoint of an entry
  cleanup,  \* the cleanup of an entry taken out of the map
  request,  \* the thread/delete request holding the list permit
  drain,    \* the drains: of the request and of each background loop
  faults,   \* failing calls so far
  crashes   \* crashes so far

vars == <<row, rollout, record, outbox, refs, runtime, checkpoint, cleanup,
          request, drain, faults, crashes>>

local  == <<row, rollout, record, outbox>>
memory == <<runtime, checkpoint, cleanup>>
budget == <<faults, crashes>>

Drainers == Loops \cup {"request"}
Durable(rt) == [rt EXCEPT !.at = "row"]
Want(rt) == [lease |-> rt.lease, latest |-> rt.latest]
Idle     == [pc |-> "idle", root |-> 0, members |-> {}, todo |-> {}]
NoFence  == [lease |-> 0, rev |-> 0]
NoBatch  == [members |-> {}, fences |-> [t \in Threads |-> NoFence], tried |-> FALSE, ahead |-> {}]
Empty    == [root \in Threads |-> NoBatch]
Off      == [pc |-> "off", batches |-> Empty, root |-> 0, todo |-> {}, complete |-> TRUE, pending |-> FALSE]
Gone     == [at |-> "none", state |-> "active", lease |-> 0, latest |-> 0, rev |-> 0]
Started  == [at |-> "map", state |-> "active", lease |-> 1, latest |-> 0, rev |-> 1]
NoCleanup == [pc |-> "off", by |-> "retry", rev |-> 0]

Init ==
  /\ row = [t \in Threads |-> TRUE]
  /\ rollout = [t \in Threads |-> TRUE]
  /\ record = [t \in Threads |-> Durable(Started)]
  /\ outbox = Empty
  /\ refs = [t \in Threads |-> References(IF t \in Hosted THEN 1 ELSE 0, Want(Started))]
  /\ runtime = [t \in Threads |-> IF t \in Hosted THEN Started ELSE Gone]
  /\ checkpoint = [t \in Threads |-> "off"]
  /\ cleanup = [t \in Threads |-> NoCleanup]
  /\ request = Idle
  /\ drain = [d \in Drainers |-> Off]
  /\ faults = 0 /\ crashes = 0

Fault == faults < MaxFault /\ faults' = faults + 1
Works == UNCHANGED faults

(* A retain of the references rt names: replied to, or failed before or     *)
(* after its effect; a refusal is a failure without one.                    *)
RetainReplies(t, rt) ==
  /\ RetainAccepted(refs[t], Want(rt), rt.rev)
  /\ refs' = [refs EXCEPT ![t] = Retained(@, Want(rt))]
  /\ Works

RetainFails(t, rt) ==
  \/ /\ ~RetainAccepted(refs[t], Want(rt), rt.rev)
     /\ Works /\ UNCHANGED refs
  \/ /\ Fault
     /\ \/ UNCHANGED refs
        \/ /\ RetainAccepted(refs[t], Want(rt), rt.rev)
           /\ refs' = [refs EXCEPT ![t] = Retained(@, Want(rt))]

(* set_hosted_agent_runtime: an UPDATE that finds no row is an error too. *)
Saved(t, rt)   == row[t] /\ Works /\ record' = [record EXCEPT ![t] = Durable(rt)]
SaveFails(t)   == (IF row[t] THEN Fault ELSE Works) /\ UNCHANGED record

-----------------------------------------------------------------------------
(* A running hosted thread: its turn checkpoints, and its resumption after  *)
(* a restart.                                                               *)

(* checkpoint_hosted_runtime: the service's checkpoint succeeded and its    *)
(* snapshot is persisted and published before it is retained.  The entry's  *)
(* operation lock is held until the checkpoint is off.                      *)
CheckpointTaken(t) ==
  /\ runtime[t].at = "map" /\ runtime[t].state = "active"
  /\ checkpoint[t] = "off" /\ cleanup[t].pc = "off"
  /\ runtime[t].latest < MaxLatest
  /\ LET rt == [runtime[t] EXCEPT !.latest = @ + 1] IN
     /\ Saved(t, rt)
     /\ runtime' = [runtime EXCEPT ![t] = rt]
  /\ checkpoint' = [checkpoint EXCEPT ![t] = "retain"]
  /\ UNCHANGED <<row, rollout, outbox, refs, cleanup, request, drain, crashes>>

CheckpointRetained(t) ==
  /\ checkpoint[t] = "retain"
  /\ \/ RetainReplies(t, runtime[t]) /\ checkpoint' = [checkpoint EXCEPT ![t] = "save"]
     \/ RetainFails(t, runtime[t]) /\ checkpoint' = [checkpoint EXCEPT ![t] = "off"]
  /\ UNCHANGED <<local, runtime, cleanup, request, drain, crashes>>

CheckpointSaved(t) ==
  /\ checkpoint[t] = "save"
  /\ LET rt == [runtime[t] EXCEPT !.rev = refs[t].rev] IN
     \/ Saved(t, rt) /\ runtime' = [runtime EXCEPT ![t] = rt]
     \/ SaveFails(t) /\ UNCHANGED runtime
  /\ checkpoint' = [checkpoint EXCEPT ![t] = "off"]
  /\ UNCHANGED <<row, rollout, outbox, refs, cleanup, request, drain, crashes>>

(* thread/resume, under the list permit, of an Active record whose sandbox  *)
(* is gone: the restored lease is retained, then persisted and committed;   *)
(* a failure rolls the restored lease back and leaves the record.           *)
Resume(t) ==
  /\ request.pc = "idle" /\ row[t] /\ rollout[t]
  /\ t \in Hosted /\ runtime[t].at = "none" /\ cleanup[t].pc = "off"
  /\ record[t].state = "active" /\ record[t].lease < MaxLease
  /\ LET restored == [record[t] EXCEPT !.lease = @ + 1]
         saved    == [restored EXCEPT !.at = "map", !.rev = Retained(refs[t], Want(restored)).rev]
     IN
     \/ /\ RetainReplies(t, restored)
        /\ record' = [record EXCEPT ![t] = Durable(saved)]
        /\ runtime' = [runtime EXCEPT ![t] = saved]
     \/ /\ Fault
        /\ RetainAccepted(refs[t], Want(restored), restored.rev)
        /\ refs' = [refs EXCEPT ![t] = Retained(@, Want(restored))]
        /\ UNCHANGED <<record, runtime>>
  /\ UNCHANGED <<row, rollout, outbox, checkpoint, cleanup, request, drain, crashes>>

-----------------------------------------------------------------------------
(* release_removed_hosted_runtime: the entry is out of the map while it is  *)
(* cleaned up, and returns to it as ReleasePending when that fails.         *)

(* retry_hosted_runtime_cleanup, by one of the timers a removal scheduled. *)
RetryCleanup(t) ==
  /\ runtime[t].at = "map" /\ runtime[t].state = "pending" /\ cleanup[t].pc = "off"
  /\ runtime' = [runtime EXCEPT ![t].at = "out"]
  /\ cleanup' = [cleanup EXCEPT ![t] = [NoCleanup EXCEPT !.pc = "retain"]]
  /\ UNCHANGED <<local, refs, checkpoint, request, drain, budget>>

(* The failed cleanup's record keeps the revision of the entry, not the one *)
(* its retain returned; persisting it is best effort.                       *)
CleanupFailed(t) ==
  LET rt == [runtime[t] EXCEPT !.at = "map", !.state = "pending"] IN
  /\ runtime' = [runtime EXCEPT ![t] = rt]
  /\ cleanup' = [cleanup EXCEPT ![t] = NoCleanup]
  /\ \/ row[t] /\ record' = [record EXCEPT ![t] = Durable(rt)]
     \/ UNCHANGED record

CleanupRetain(t) ==
  /\ cleanup[t].pc = "retain" /\ checkpoint[t] = "off"
  /\ \/ /\ RetainReplies(t, runtime[t])
        /\ cleanup' = [cleanup EXCEPT ![t].pc = "release", ![t].rev = refs'[t].rev]
        /\ UNCHANGED <<record, runtime>>
     \/ RetainFails(t, runtime[t]) /\ CleanupFailed(t)
  /\ UNCHANGED <<row, rollout, outbox, checkpoint, request, drain, crashes>>

CleanupRelease(t) ==
  /\ cleanup[t].pc = "release"
  /\ \/ /\ Works /\ cleanup' = [cleanup EXCEPT ![t].pc = "save"]
        /\ UNCHANGED <<record, runtime>>
     \/ Fault /\ CleanupFailed(t)
  /\ UNCHANGED <<row, rollout, outbox, refs, checkpoint, request, drain, crashes>>

CleanupSave(t) ==
  /\ cleanup[t].pc = "save"
  /\ LET rt == [runtime[t] EXCEPT !.rev = cleanup[t].rev, !.state = "released"] IN
     \/ Saved(t, rt) /\ runtime' = [runtime EXCEPT ![t] = Gone]
     \/ /\ SaveFails(t)
        /\ runtime' = [runtime EXCEPT ![t] = [rt EXCEPT !.state = "pending", !.at = "map"]]
  /\ cleanup' = [cleanup EXCEPT ![t] = NoCleanup]
  /\ UNCHANGED <<row, rollout, outbox, refs, checkpoint, request, drain, crashes>>

-----------------------------------------------------------------------------
(* The deletion outbox. *)

(* The roots that have a batch. *)
Roots(batches) == {root \in Threads : batches[root].members # {}}
Queued         == Roots(outbox)

(* The children of a member, along the edges left: an edge goes with the    *)
(* row of either end.                                                       *)
Closed(S) == \A c \in Threads : Parent[c] \in S /\ row[Parent[c]] /\ row[c] => c \in S

(* list_agent_subtree_thread_ids: what the root reaches. *)
Subtree(root) == {t \in Threads : \A S \in SUBSET Threads : root \in S /\ Closed(S) => t \in S}

(* enqueue_thread_deletion: the lease and revision of each member's row. *)
Fences(members) ==
  [t \in Threads |-> IF t \in members \cap Hosted /\ row[t]
                     THEN [lease |-> record[t].lease, rev |-> record[t].rev] ELSE NoFence]

(* Untried batches come before tried ones, oldest first. *)
Enqueued(root, members) ==
  IF root \in Queued THEN outbox
  ELSE [r \in Threads |->
          IF r = root THEN [members |-> members, fences |-> Fences(members), tried |-> FALSE,
                            ahead   |-> {q \in Queued : ~outbox[q].tried}]
          ELSE IF outbox[r].tried THEN [outbox[r] EXCEPT !.ahead = @ \cup {root}] ELSE outbox[r]]

(* The others, once root's batch has left its place in the queue. *)
Closing(root) == [r \in Threads |-> [outbox[r] EXCEPT !.ahead = @ \ {root}]]

(* Mutant: a failed batch stays at the head of the queue. *)
MutDeferred(root) == outbox

Deferred(root) ==
  IF root \notin Queued THEN outbox
  ELSE [Closing(root) EXCEPT ![root] = [@ EXCEPT !.tried = TRUE, !.ahead = Queued \ {root}]]

Completed(root) == [Closing(root) EXCEPT ![root] = NoBatch]

(* ready_thread_deletion_batches *)
Ready(b)     == \A t \in b.members : ~row[t]
ReadyBatches == LET ready == {root \in Queued : Ready(outbox[root])}
                    page  == {root \in ready : Cardinality(outbox[root].ahead \cap ready) < Limit}
                IN [root \in Threads |-> IF root \in page THEN outbox[root] ELSE NoBatch]

HostedMembers(b) == {t \in Threads : b.fences[t] # NoFence}

-----------------------------------------------------------------------------
(* thread/delete, under the list permit. *)

(* thread_removal_order: the youngest first, the root last. *)
FirstOf(todo, root) == IF todo \subseteq {root} THEN root ELSE Max(todo \ {root})

(* A repeated request takes its members from the outbox. *)
DeleteBegin(root) ==
  /\ request.pc = "idle"
  /\ LET members == IF root \in Queued THEN outbox[root].members ELSE Subtree(root) IN
     /\ root \in Queued \/ members # {root} \/ row[root] \/ rollout[root]
     /\ request' = [pc |-> "remove", root |-> root, members |-> members, todo |-> members]
  /\ UNCHANGED <<local, refs, memory, drain, budget>>

Fail == request' = Idle

(* prepare_threads_for_removal: every member is shut down, which may fail,  *)
(* before any is removed.                                                   *)
DeleteShutdownFails ==
  /\ request.pc = "remove" /\ request.todo = request.members
  /\ Fault /\ Fail
  /\ UNCHANGED <<local, refs, memory, drain, crashes>>

(* The remove_thread the request awaits has returned. *)
Removed == \A t \in Threads : cleanup[t].pc = "off" \/ cleanup[t].by = "retry"

(* remove_thread: whatever entry the map holds is cleaned up before it      *)
(* returns.                                                                 *)
DeleteRemoves ==
  /\ request.pc = "remove" /\ request.todo # {} /\ Removed
  /\ LET t == FirstOf(request.todo, request.root) IN
     /\ request' = [request EXCEPT !.todo = @ \ {t}]
     /\ IF runtime[t].at = "map"
        THEN /\ runtime' = [runtime EXCEPT ![t].at = "out"]
             /\ cleanup' = [cleanup EXCEPT ![t] = [pc |-> "retain", by |-> "request", rev |-> 0]]
        ELSE UNCHANGED <<runtime, cleanup>>
  /\ UNCHANGED <<local, refs, checkpoint, drain, budget>>

(* hosted_runtime_cleanup_pending *)
CleanupPending(t) == runtime[t].at = "map" /\ runtime[t].state = "pending"

(* pending_hosted_cleanup, then enqueue_thread_deletion. *)
DeleteEnqueues ==
  /\ request.pc = "remove" /\ request.todo = {} /\ Removed
  /\ IF \E t \in request.members : CleanupPending(t)
     THEN Fail /\ UNCHANGED outbox
     ELSE /\ outbox' = Enqueued(request.root, request.members)
          /\ request' = [request EXCEPT !.pc = "rollouts", !.todo = request.members]
  /\ UNCHANGED <<row, rollout, record, refs, memory, drain, budget>>

(* A rollout already missing is fine; a failing removal ends the request. *)
DeleteRollout ==
  /\ request.pc = "rollouts" /\ request.todo # {}
  /\ \/ /\ Works
        /\ LET t == FirstOf(request.todo, request.root) IN
           /\ rollout' = [rollout EXCEPT ![t] = FALSE]
           /\ request' = [request EXCEPT !.todo = @ \ {t}]
     \/ Fault /\ Fail /\ UNCHANGED rollout
  /\ UNCHANGED <<row, record, outbox, refs, memory, drain, crashes>>

(* delete_threads_strict: rows and edges of the batch go in one transaction. *)
DeleteRows ==
  /\ request.pc = "rollouts" /\ request.todo = {}
  /\ \/ /\ Works
        /\ row' = [t \in Threads |-> row[t] /\ t \notin request.members]
        /\ request' = [request EXCEPT !.pc = "drain"]
        /\ drain' = [drain EXCEPT !["request"].pc = "list"]
     \/ Fault /\ Fail /\ UNCHANGED <<row, drain>>
  /\ UNCHANGED <<rollout, record, outbox, refs, memory, crashes>>

(* The reply; work left over is handed to a new background loop. *)
DeleteReplies(l) ==
  /\ request.pc = "drain" /\ drain["request"].pc = "done"
  /\ drain["request"].pending => drain[l].pc = "off"
  /\ drain' = [drain EXCEPT !["request"] = Off,
                            ![l] = IF drain["request"].pending THEN [Off EXCEPT !.pc = "sleep"] ELSE @]
  /\ request' = Idle
  /\ UNCHANGED <<local, refs, memory, budget>>

-----------------------------------------------------------------------------
(* drain_thread_deletion_outbox and its retry loop. *)

Wake(l) ==
  /\ drain[l].pc = "sleep"
  /\ drain' = [drain EXCEPT ![l] = [Off EXCEPT !.pc = "list"]]
  /\ UNCHANGED <<local, refs, memory, request, budget>>

(* A loop sleeps again while work is pending, and ends otherwise. *)
DrainEnds(d, pending) ==
  IF d = "request" THEN [Off EXCEPT !.pc = "done", !.pending = pending]
  ELSE IF pending THEN [Off EXCEPT !.pc = "sleep"] ELSE Off

(* The batch that nothing else on the list is ahead of comes next. *)
NextBatch(d, batches, pending) ==
  LET next == CHOOSE root \in Roots(batches) : batches[root].ahead \cap Roots(batches) = {} IN
  IF Roots(batches) = {} THEN DrainEnds(d, pending)
  ELSE [pc |-> "clear", batches |-> batches, root |-> next, todo |-> HostedMembers(batches[next]),
        complete |-> TRUE, pending |-> pending]

FullPage(batches) == Cardinality(Roots(batches)) = Limit

DrainList(d) ==
  /\ drain[d].pc = "list"
  /\ \/ Works /\ drain' = [drain EXCEPT ![d] = NextBatch(d, ReadyBatches, FullPage(ReadyBatches))]
     \/ Fault /\ drain' = [drain EXCEPT ![d] = DrainEnds(d, TRUE)]
  /\ UNCHANGED <<local, refs, memory, request, crashes>>

(* clear_deleted_hosted_references: refused while local data exists. *)
DrainClear(d) ==
  /\ drain[d].pc = "clear" /\ drain[d].todo # {}
  /\ LET t       == Min(drain[d].todo)
         fence   == drain[d].batches[drain[d].root].fences[t]
         allowed == ~row[t] /\ ~rollout[t]
         accepts == allowed /\ ClearAccepted(refs[t], fence.lease, fence.rev)
         next    == [drain[d] EXCEPT !.todo = @ \ {t}]
         failed  == [next EXCEPT !.complete = FALSE, !.pending = TRUE]
     IN
     \/ /\ accepts /\ Works
        /\ refs' = [refs EXCEPT ![t] = Cleared(@)]
        /\ drain' = [drain EXCEPT ![d] = next]
     \/ /\ ~accepts /\ Works /\ UNCHANGED refs
        /\ drain' = [drain EXCEPT ![d] = failed]
     \/ /\ Fault
        /\ \/ accepts /\ refs' = [refs EXCEPT ![t] = Cleared(@)]
           \/ UNCHANGED refs
        /\ drain' = [drain EXCEPT ![d] = failed]
  /\ UNCHANGED <<local, memory, request, crashes>>

(* Mutant: the batch is settled by its last member. *)
MutSettled(d) == TRUE

Settled(d) == drain[d].complete

(* The batch is completed when every clear succeeded, deferred otherwise;   *)
(* either write may fail.                                                   *)
DrainSettle(d) ==
  /\ drain[d].pc = "clear" /\ drain[d].todo = {}
  /\ LET root == drain[d].root
         left == [drain[d].batches EXCEPT ![root] = NoBatch]
         rest(pending) == [drain EXCEPT ![d] = NextBatch(d, left, pending)]
     IN
     \/ /\ Works
        /\ outbox' = IF Settled(d) THEN Completed(root) ELSE Deferred(root)
        /\ drain' = rest(drain[d].pending)
     \/ /\ Fault /\ UNCHANGED outbox
        /\ drain' = rest(TRUE)
  /\ UNCHANGED <<row, rollout, record, refs, memory, request, crashes>>

(* The process dies and starts again: its startup drain is a loop. *)
Crash(l) ==
  /\ crashes < MaxCrash /\ crashes' = crashes + 1
  /\ runtime' = [t \in Threads |-> Gone]
  /\ checkpoint' = [t \in Threads |-> "off"]
  /\ cleanup' = [t \in Threads |-> NoCleanup]
  /\ request' = Idle
  /\ drain' = [d \in Drainers |-> IF d = l THEN [Off EXCEPT !.pc = "list"] ELSE Off]
  /\ UNCHANGED <<local, refs, faults>>

-----------------------------------------------------------------------------
Hosting ==
  \E t \in Hosted :
     \/ CheckpointTaken(t) \/ CheckpointRetained(t) \/ CheckpointSaved(t) \/ Resume(t)
     \/ RetryCleanup(t) \/ CleanupRetain(t) \/ CleanupRelease(t) \/ CleanupSave(t)

Deleting ==
  \/ \E root \in Threads : DeleteBegin(root)
  \/ DeleteShutdownFails \/ DeleteRemoves \/ DeleteEnqueues
  \/ DeleteRollout \/ DeleteRows
  \/ \E l \in Loops : DeleteReplies(l)

DrainStep(d) == DrainList(d) \/ DrainClear(d) \/ DrainSettle(d)

Next ==
  \/ Hosting \/ Deleting
  \/ \E d \in Drainers : DrainStep(d)
  \/ \E l \in Loops : Wake(l)
  \/ \E l \in Loops : Crash(l)

(* A spawned task runs on, and a sleeping loop wakes.  Clients owe nothing. *)
Spec ==
  /\ Init /\ [][Next]_vars
  /\ \A d \in Drainers : WF_vars(DrainStep(d))
  /\ \A l \in Loops : WF_vars(Wake(l))
  /\ WF_vars(\E l \in Loops : DeleteReplies(l))

-----------------------------------------------------------------------------
Runtimes == [at : {"none", "map", "out", "row"}, state : {"active", "pending", "released"},
             lease : 0..MaxLease, latest : 0..MaxLatest, rev : Nat]

Batches  == [members : SUBSET Threads, fences : [Threads -> [lease : 0..MaxLease, rev : Nat]],
             tried : BOOLEAN, ahead : SUBSET Threads]

TypeOK ==
  /\ row \in [Threads -> BOOLEAN] /\ rollout \in [Threads -> BOOLEAN]
  /\ record \in [Threads -> Runtimes] /\ runtime \in [Threads -> Runtimes]
  /\ outbox \in [Threads -> Batches]
  /\ refs \in [Threads -> [rev : Nat, want : [lease : 0..MaxLease, latest : 0..MaxLatest],
                           cleared : BOOLEAN, rooted : BOOLEAN]]
  /\ checkpoint \in [Threads -> {"off", "retain", "save"}]
  /\ cleanup \in [Threads -> [pc : {"off", "retain", "release", "save"},
                              by : {"request", "retry"}, rev : Nat]]
  /\ request \in [pc : {"idle", "remove", "rollouts", "drain"}, root : 0..NThreads,
                  members : SUBSET Threads, todo : SUBSET Threads]
  /\ drain \in [Drainers -> [pc : {"off", "sleep", "list", "clear", "done"},
                             batches : [Threads -> Batches],
                             root : 0..NThreads, todo : SUBSET Threads,
                             complete : BOOLEAN, pending : BOOLEAN]]

(* A hosted thread whose row is gone has no service-side roots left, or an  *)
(* outbox batch still names its fence: whatever call failed and wherever    *)
(* the process crashed, the roots of a deleted thread are never forgotten.  *)
NoRootIsForgotten ==
  \A t \in Hosted : ~row[t] /\ refs[t].rooted =>
    \E root \in Threads : t \in HostedMembers(outbox[root])

(* A cleared reference set roots nothing again, though a hosted cleanup that *)
(* was in flight when its thread was deleted still retains (the tombstone). *)
ClearedRootsStayGone == \A t \in Hosted : refs[t].cleared => ~refs[t].rooted

(* The batch still has roots at the service, which would clear every member. *)
Clearable(b) ==
  /\ Ready(b)
  /\ \E t \in b.members : refs[t].rooted
  /\ \A t \in HostedMembers(b) :
       ClearAccepted(refs[t], b.fences[t].lease, b.fences[t].rev)

(* A batch the service would clear does not wait for ever: not behind a     *)
(* batch the service refuses, not for a loop that ended too early, not      *)
(* after a crash before its first drain.                                    *)
ClearableBatchDrains ==
  \A root \in Threads : []<>~(root \in Queued /\ Clearable(outbox[root]))
===============================================================================
