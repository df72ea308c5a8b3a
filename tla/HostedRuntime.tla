---------------------------- MODULE HostedRuntime ----------------------------
(***************************************************************************)
(* The hosted runtime of one owned agent thread in Codex                    *)
(* (thread_manager.rs, hosted_agent_lifecycle.rs, hosted_agent_runtime.rs): *)
(* it starts on a lease, is finalized after a completed turn, and is        *)
(* released when its thread is removed.  A root agent's turn checkpoints    *)
(* instead; here any turn may do either, which allows more than the code.   *)
(*                                                                          *)
(* Three tasks share it: the session task at the end of a turn, the removal *)
(* and its retry timers, and thread start or resume.  A runtime lives in an *)
(* entry with an operation lock; a map slot names the current entry; SQLite *)
(* holds the durable record.  Every service call and every SQLite write is  *)
(* a step: a call may fail before its effect or lose its reply, a write may *)
(* fail, and the process may crash between any two.                         *)
(***************************************************************************)
EXTENDS HostedService

CONSTANTS
  MaxEntry,  \* bound: runtime entries created
  MaxRetry,  \* cleanup retries one removal schedules (5)
  MaxFault,  \* bound: failing calls and writes
  MaxCrash   \* bound: crashes

ASSUME RuntimeAssumption ==
  MaxEntry \in Nat \ {0} /\ MaxRetry \in Nat /\ MaxFault \in Nat /\ MaxCrash \in Nat

VARIABLES
  svc,        \* the control plane
  record,     \* the durable record; lease 0 means none
  entry,      \* runtime values of the entries
  lock,       \* the task holding an entry's operation lock
  current,    \* the entry in the runtime map, or 0
  thread,     \* the Codex thread
  task,       \* the three tasks
  retries,    \* retry timers left
  announced,  \* artifacts the owner was told of
  history,    \* whether the thread was resumed, and while what ran before still did
  refused,    \* keys whose failure the service has journaled
  faults, crashes

vars == <<svc, record, entry, lock, current, thread, task, retries, announced, history,
          refused, faults, crashes>>

Tasks   == {"turn", "cleanup", "startup"}
Entries == 1..MaxEntry
States  == {"active", "finalizing", "completed", "releasing", "released"}

NoValue == [lease |-> 0, base |-> None, latest |-> None, art |-> None, rev |-> 0, state |-> "active"]
Idle    == [pc |-> "idle", e |-> 0, val |-> NoValue, got |-> 0, then |-> "none", permit |-> FALSE]

Init ==
  /\ svc = NewService
  /\ record = NoValue
  /\ entry = [e \in Entries |-> NoValue]
  /\ lock = [e \in Entries |-> "free"]
  /\ current = 0
  /\ thread = "absent"
  /\ task = [k \in Tasks |-> Idle]
  /\ retries = 0
  /\ announced = {}
  /\ history = "first"
  /\ refused = {}
  /\ faults = 0 /\ crashes = 0

memory == <<entry, lock, current, thread, retries>>
others == <<announced, history, crashes, refused>>

Busy(S)      == \E k \in S : task[k].pc # "idle"
At(k, pc)    == task[k].pc = pc
Go(k, pc)    == task' = [task EXCEPT ![k].pc = pc]
Cleanup(k, then, v) == task' = [task EXCEPT ![k].pc = "cleanupRetain", ![k].val = v, ![k].then = then]
With(k, pc, v) == task' = [task EXCEPT ![k].pc = pc, ![k].val = v]

Fault == faults < MaxFault /\ faults' = faults + 1
Works == UNCHANGED faults

(* A service call that is accepted when can holds and leads to state s. *)
Replies(can, s) == can /\ svc' = s /\ Works
Errs(can, s) ==
  \/ ~can /\ Works /\ UNCHANGED svc
  \/ Fault /\ (UNCHANGED svc \/ (can /\ svc' = s))

(* A release that fails before, between or after its two transactions. *)
ReleaseErrs(l) ==
  \/ ~CanRelease(svc, l) /\ Works /\ svc' = Claimed(svc, l)
  \/ Fault /\ svc' \in {svc, Claimed(svc, l)}
                       \cup (IF CanRelease(svc, l) THEN {Begun(svc, l), Released(svc, l)} ELSE {})

(* set_hosted_agent_runtime *)
Persisted(v)  == record' = v /\ Works
PersistFails  == Fault /\ UNCHANGED record

(* retry_pending_hosted_finalization is over: a released runtime leaves the *)
(* map, whoever put the entry there.                                        *)
Dropped(k) ==
  IF k # "turn" /\ task[k].e # 0 /\ entry'[task[k].e].state = "released" THEN current' = 0 ELSE UNCHANGED current

(* The task ends and drops its permit. *)
End(k) ==
  /\ task' = [task EXCEPT ![k] = Idle]
  /\ lock' = [e \in Entries |-> IF lock[e] = k THEN "free" ELSE lock[e]]

Return(k) == End(k) /\ Dropped(k)

-----------------------------------------------------------------------------
(* finalize_hosted_runtime, by the turn that completed, by a retry of a     *)
(* pending finalization, or by a resume of one.                             *)

(* Mutant: the value is read before the permit is held. *)
MutValue(k) == task[k].val

Value(k) == entry[task[k].e]

Over(v) == v.state \notin {"active", "finalizing"} /\ (v.art = None \/ v.state = "released")

FinalizeBegin(k) ==
  /\ At(k, "finalize") /\ lock[task[k].e] = "free"
  /\ LET v == Value(k) IN
     IF Over(v)
     THEN /\ task' = [task EXCEPT ![k] = Idle]
          /\ UNCHANGED <<lock, entry>> /\ Dropped(k)
     ELSE /\ lock' = [lock EXCEPT ![task[k].e] = k]
          /\ With(k, CASE v.state = "active" -> "mark"
                       [] v.state = "finalizing" -> "complete"
                       [] OTHER -> "retain", v)
          /\ UNCHANGED <<entry, current>>
  /\ UNCHANGED <<svc, record, thread, retries, others, faults>>

(* persist_finalization_state: the record first, then the entry. *)
PersistStep(k, pc, v, next) ==
  /\ At(k, pc)
  /\ \/ /\ Persisted(v) /\ entry' = [entry EXCEPT ![task[k].e] = v]
        /\ With(k, next, v) /\ UNCHANGED <<lock, current>>
     \/ /\ PersistFails /\ UNCHANGED entry
        /\ Return(k)
  /\ UNCHANGED <<svc, thread, retries, others>>

CallStep(k, pc, can, s, v, next) ==
  /\ At(k, pc)
  /\ \/ Replies(can, s) /\ With(k, next, v) /\ UNCHANGED <<entry, lock, current>>
     \/ Errs(can, s) /\ UNCHANGED entry /\ Return(k)
  /\ UNCHANGED <<record, thread, retries, announced, history, crashes>>

(* failOperation: a call that failed without its effect may have its failure *)
(* journaled under its key.  Unless the operation is open, it has succeeded *)
(* or can no longer be accepted anyway.                                     *)
Journals(k, key, open) ==
  \/ UNCHANGED refused
  \/ open /\ svc' = svc /\ task'[k] = Idle /\ refused' = refused \cup {key}

Val(k) == task[k].val

MarkPending(k) == PersistStep(k, "mark", [Val(k) EXCEPT !.state = "finalizing"], "complete")

CompletionCheckpoint(k) ==
  LET l == Val(k).lease IN
  /\ CallStep(k, "complete", CanComplete(svc, l) /\ CompletionKey(l) \notin refused, CompletionOf(svc, l),
              [Val(k) EXCEPT !.latest = CompletionOf(svc, l).lease[l].final], "saveCheckpoint")
  /\ Journals(k, CompletionKey(l), svc.lease[l].final = None /\ CanComplete(svc, l))

SaveCompletion(k) == PersistStep(k, "saveCheckpoint", Val(k), "export")

ExportPatch(k) ==
  LET v == Val(k)
      can == CanExport(svc, v.lease, v.base, v.latest) /\ ExportKey(v.latest) \notin refused
  IN
  /\ CallStep(k, "export", can, Exported(svc, v.latest),
              [v EXCEPT !.art = v.latest, !.state = "completed"], "savePatch")
  /\ Journals(k, ExportKey(v.latest), v.latest \notin svc.exported /\ can)

SavePatch(k) == PersistStep(k, "savePatch", Val(k), "retain")

RetainPatch(k) ==
  LET v == Val(k) IN
  /\ CallStep(k, "retain", CanRetain(svc, v), AfterRetain(svc, v),
              [v EXCEPT !.rev = AfterRetain(svc, v).refs.rev], "saveRevision")
  /\ UNCHANGED refused

(* The revision is persisted when it moved, and the owner is told. *)
AnnouncePatch(k) ==
  /\ At(k, "saveRevision")
  /\ LET v == Val(k) IN
     \/ /\ IF v.rev = entry[task[k].e].rev THEN Works /\ UNCHANGED <<record, entry>>
           ELSE Persisted(v) /\ entry' = [entry EXCEPT ![task[k].e] = v]
        /\ announced' = announced \cup {v.art}
        /\ Cleanup(k, "finalized", v) /\ UNCHANGED <<lock, current>>
     \/ /\ v.rev # entry[task[k].e].rev /\ PersistFails
        /\ UNCHANGED <<entry, announced>> /\ Return(k)
  /\ UNCHANGED <<svc, thread, retries, history, refused, crashes>>

(* The outcome of the release: a failing write still moves the entry. *)
SettleFinalization(k) ==
  /\ task[k].then = "finalized" /\ task[k].pc \in {"settled", "unsettled"}
  /\ LET v == IF At(k, "settled") THEN [Val(k) EXCEPT !.state = "released", !.rev = task[k].got]
              ELSE [Val(k) EXCEPT !.state = "releasing"]
     IN /\ Persisted(v) \/ PersistFails
        /\ entry' = [entry EXCEPT ![task[k].e] = v]
  /\ Return(k)
  /\ UNCHANGED <<svc, thread, retries, others>>

-----------------------------------------------------------------------------
(* cleanup_runtime: retain, then release; a failed retain skips the rest.   *)
(* The caller named by then continues at "settled" or "unsettled".          *)

CleanupRetain(k) ==
  /\ At(k, "cleanupRetain")
  /\ LET can == CanRetain(svc, Val(k)) IN
     \/ /\ Replies(can, AfterRetain(svc, Val(k)))
        /\ task' = [task EXCEPT ![k].pc = "cleanupRelease", ![k].got = svc'.refs.rev]
     \/ Errs(can, AfterRetain(svc, Val(k))) /\ Go(k, "unsettled")
  /\ UNCHANGED <<record, memory, others>>

CleanupRelease(k) ==
  /\ At(k, "cleanupRelease")
  /\ LET can == CanRelease(svc, Val(k).lease) IN
     \/ Replies(can, Released(svc, Val(k).lease)) /\ Go(k, "settled")
     \/ ReleaseErrs(Val(k).lease) /\ Go(k, "unsettled")
  /\ UNCHANGED <<record, memory, others>>

-----------------------------------------------------------------------------
(* The session task: a turn ends.  The code checkpoints after a completed   *)
(* turn of an agent that is not finalized, the root, and finalizes an owned *)
(* one; goal is free, which covers both and any mix of them.                *)

(* ensure_hosted_runtime_active lets a turn start only on an active runtime; *)
(* at its end the map may hold another one, or none.                        *)
TurnEnds(goal) ==
  /\ At("turn", "idle") /\ thread = "running"
  /\ current # 0 /\ entry[current].state = "active"
  /\ task' = [task EXCEPT !["turn"] = [Idle EXCEPT !.pc = goal, !.e = current, !.val = entry[current]]]
  /\ UNCHANGED <<svc, record, memory, others, faults>>

(* checkpoint_hosted_runtime *)
CheckpointBegin ==
  /\ At("turn", "checkpoint") /\ lock[task["turn"].e] = "free"
  /\ lock' = [lock EXCEPT ![task["turn"].e] = "turn"]
  /\ With("turn", "snapshot", Value("turn"))
  /\ UNCHANGED <<svc, record, entry, current, thread, retries, others, faults>>

CheckpointCall ==
  LET l == Val("turn").lease IN
  /\ CallStep("turn", "snapshot", CanCheckpoint(svc, l), Checkpointed(svc, l),
              [Val("turn") EXCEPT !.latest = Latest(Checkpointed(svc, l), l)], "saveSnapshot")
  /\ UNCHANGED refused

CheckpointSaveSnapshot == PersistStep("turn", "saveSnapshot", Val("turn"), "retainSnapshot")

CheckpointRetain ==
  LET v == Val("turn") IN
  /\ CallStep("turn", "retainSnapshot", CanRetain(svc, v), AfterRetain(svc, v),
              [v EXCEPT !.rev = AfterRetain(svc, v).refs.rev], "saveRetained")
  /\ UNCHANGED refused

CheckpointSaveRevision == PersistStep("turn", "saveRetained", Val("turn"), "unlock")

CheckpointEnd ==
  /\ At("turn", "unlock") /\ End("turn")
  /\ UNCHANGED <<svc, record, entry, current, thread, retries, others, faults>>

-----------------------------------------------------------------------------
(* Removal: remove_thread, and the retry timers it leaves behind. *)

Pending(v) == v.state \in {"finalizing", "completed", "releasing"}

Take(scheduled, permit) ==
  /\ At("cleanup", "idle")
  /\ task' = [task EXCEPT !["cleanup"] = IF current = 0 THEN Idle
                 ELSE [Idle EXCEPT !.pc = "taken", !.e = current, !.val = entry[current], !.permit = permit]]
  /\ current' = 0
  /\ retries' = IF current = 0 THEN 0 ELSE scheduled
  /\ history' = IF Busy({"startup"}) THEN "overlapped" ELSE history
  /\ UNCHANGED <<svc, record, entry, lock, announced, refused, crashes, faults>>

(* A removal holds the thread-list permit, as a resume does; timers do not. *)
RemoveThread ==
  /\ thread # "absent" /\ thread' = "absent" /\ At("startup", "idle")
  /\ Take(MaxRetry, TRUE)

(* Mutant: a timer forgets the runtimes that wait for a finalization. *)
MutRetryCleanup ==
  /\ retries > 0 /\ current # 0 /\ entry[current].state = "releasing"
  /\ Take(retries - 1, FALSE) /\ UNCHANGED thread

RetryCleanup ==
  /\ retries > 0 /\ current # 0 /\ Pending(entry[current])
  /\ Take(retries - 1, FALSE) /\ UNCHANGED thread

(* release_removed_hosted_runtime *)
ReleaseRemoved ==
  /\ At("cleanup", "taken")
  /\ LET e == task["cleanup"].e IN
     IF entry[e].state = "finalizing"
     THEN current' = e /\ Go("cleanup", "finalize")
     ELSE With("cleanup", "await", entry[e]) /\ UNCHANGED current
  /\ UNCHANGED <<svc, record, entry, lock, thread, retries, others, faults>>

(* Mutant: a failed cleanup loses its entry. *)
MutReinserted(e) == current

(* The entry of a failed cleanup returns, unless the map holds another. *)
Reinserted(e) == IF current = 0 THEN e ELSE current

ReleaseLocked ==
  LET e == task["cleanup"].e
      v == Value("cleanup")
  IN
  /\ At("cleanup", "await") /\ lock[e] = "free"
  /\ IF v.state \in {"finalizing", "released"}
     THEN /\ task' = [task EXCEPT !["cleanup"] = Idle]
          /\ current' = IF v.state = "finalizing" THEN Reinserted(e) ELSE current
          /\ UNCHANGED lock
     ELSE /\ lock' = [lock EXCEPT ![e] = "cleanup"]
          /\ Cleanup("cleanup", "removed", v) /\ UNCHANGED current
  /\ UNCHANGED <<svc, record, entry, thread, retries, others, faults>>

SettleRemoval ==
  /\ task["cleanup"].then = "removed"
  /\ LET e == task["cleanup"].e
         v == Val("cleanup")
         released == [v EXCEPT !.state = "released", !.rev = task["cleanup"].got]
         failed   == [v EXCEPT !.state = "releasing"]
     IN
     \/ /\ At("cleanup", "settled") /\ Persisted(released)
        /\ retries' = 0 /\ UNCHANGED <<entry, current>>
     \/ /\ At("cleanup", "settled") /\ PersistFails
        /\ entry' = [entry EXCEPT ![e] = [released EXCEPT !.state = "releasing"]]
        /\ current' = Reinserted(e) /\ UNCHANGED retries
     \/ /\ At("cleanup", "unsettled")
        /\ entry' = [entry EXCEPT ![e] = failed]
        /\ Persisted(failed) \/ PersistFails
        /\ current' = Reinserted(e) /\ UNCHANGED retries
  /\ End("cleanup")
  /\ UNCHANGED <<svc, thread, others>>

-----------------------------------------------------------------------------
(* Start and resume. *)

NewEntry == {e \in Entries : entry[e].lease = 0 /\ \A f \in 1..(e - 1) : entry[f].lease # 0}

Start ==
  /\ thread = "absent" /\ record.lease = 0 /\ At("startup", "idle") /\ svc = NewService
  /\ Go("startup", "provision")
  /\ UNCHANGED <<svc, record, memory, others, faults>>

Provision ==
  /\ CallStep("startup", "provision", CanProvision(svc), Provisioned(svc),
              [NoValue EXCEPT !.lease = 1, !.base = <<1, 0>>, !.latest = <<1, 0>>], "boot")
  /\ UNCHANGED refused

(* The session loop ended and nobody removed the thread. *)
Stop ==
  /\ thread = "running" /\ thread' = "stopped"
  /\ UNCHANGED <<svc, record, entry, lock, current, task, retries, others, faults>>

(* A stopped thread leaves the thread map and its entry is detached without *)
(* release, once the operation lock is free.                                *)
Resume ==
  /\ At("startup", "idle") /\ ~task["cleanup"].permit
  /\ record.lease # 0 /\ thread # "running"
  /\ IF thread = "stopped"
     THEN /\ current # 0 => lock[current] = "free"
          /\ thread' = "absent" /\ current' = 0
     ELSE UNCHANGED <<thread, current>>
  /\ history' = IF Busy({"turn", "cleanup"}) THEN "overlapped"
               ELSE IF history = "first" THEN "resumed" ELSE history
  /\ Go("startup", "read")
  /\ UNCHANGED <<svc, record, entry, lock, retries, announced, refused, faults, crashes>>

(* prepare_hosted_runtime of a resumed thread.  The finished states retry   *)
(* their release without the operation lock; one without a patch is fatal.  *)
ReadRecord ==
  /\ At("startup", "read")
  /\ task' = [task EXCEPT !["startup"] =
       CASE record.state = "active" -> [Idle EXCEPT !.pc = "reconnect", !.val = record]
         [] record.state = "finalizing" /\ current = 0 -> [Idle EXCEPT !.pc = "reconnect", !.val = record]
         [] record.state = "finalizing" /\ current # 0 /\ entry[current].state = "finalizing" ->
              [Idle EXCEPT !.pc = "finalize", !.e = current, !.val = entry[current]]
         [] record.state \in {"completed", "releasing"} /\ record.art # None ->
              [Idle EXCEPT !.pc = "cleanupRetain", !.then = "durable", !.val = record]
         [] OTHER -> Idle]
  /\ current' = IF record.state = "finalizing" /\ current # 0 /\ entry[current].state = "released"
                THEN 0 ELSE current
  /\ UNCHANGED <<svc, record, entry, lock, thread, retries, others, faults>>

(* The service keeps the environment of a lease, so a reconnect that works  *)
(* only leads to the release of the lease, best effort.                     *)
Reconnect ==
  /\ At("startup", "reconnect")
  /\ LET l == Val("startup").lease IN
     \/ Active(svc, l) /\ Works /\ Go("startup", "reject")
     \/ ~Active(svc, l) /\ Works /\ Go("startup", "restore")
     \/ Fault /\ task' = [task EXCEPT !["startup"] = Idle]
  /\ UNCHANGED <<svc, record, memory, others>>

RejectReconnect ==
  /\ At("startup", "reject")
  /\ LET l == Val("startup").lease IN
     Replies(CanRelease(svc, l), Released(svc, l)) \/ ReleaseErrs(l)
  /\ task' = [task EXCEPT !["startup"] = Idle]
  /\ UNCHANGED <<record, memory, others>>

Restore ==
  LET p == Val("startup").latest
      can == CanRestore(svc, p) /\ RestoreKey(p) \notin refused
  IN
  /\ CallStep("startup", "restore", can, Restored(svc, p),
              [Val("startup") EXCEPT !.lease = IF can THEN Heir(svc, p) ELSE 0], "boot")
  /\ Journals("startup", RestoreKey(p), svc.lease[p[1]].heir = 0 /\ p = Latest(svc, p[1]))

(* The environment is registered and code mode starts; a failure of the     *)
(* first releases without a retain, one of the second cleans up, as does a  *)
(* session that does not come up.                                           *)
Boot ==
  /\ At("startup", "boot")
  /\ \/ Works /\ Go("startup", "commit")
     \/ Fault /\ Go("startup", "reject")
     \/ Fault /\ Cleanup("startup", "rolledback", Val("startup"))
  /\ UNCHANGED <<svc, record, memory, others>>

(* persist_pending_hosted_runtime *)
RetainPending ==
  /\ At("startup", "commit")
  /\ LET v   == Val("startup")
         can == CanRetain(svc, v)
     IN
     \/ /\ Replies(can, AfterRetain(svc, v))
        /\ With("startup", "persist", [v EXCEPT !.rev = svc'.refs.rev])
     \/ Errs(can, AfterRetain(svc, v)) /\ Cleanup("startup", "rolledback", v)
  /\ UNCHANGED <<record, memory, others>>

(* The entry is published; an active one starts the thread, a pending one   *)
(* is finalized by the resume.                                              *)
PersistPending ==
  /\ At("startup", "persist")
  /\ LET v == Val("startup") IN
     \/ /\ Persisted(v)
        /\ \E e \in NewEntry :
             /\ entry' = [entry EXCEPT ![e] = v]
             /\ current' = e
             /\ task' = [task EXCEPT !["startup"] =
                  IF v.state = "finalizing" THEN [Idle EXCEPT !.pc = "finalize", !.e = e, !.val = v] ELSE Idle]
             /\ thread' = IF v.state = "finalizing" THEN thread ELSE "running"
     \/ /\ PersistFails /\ Cleanup("startup", "rolledback", v)
        /\ UNCHANGED <<entry, current, thread>>
  /\ UNCHANGED <<svc, lock, retries, others>>

RolledBack ==
  /\ task["startup"].then = "rolledback" /\ task["startup"].pc \in {"settled", "unsettled"}
  /\ task' = [task EXCEPT !["startup"] = Idle]
  /\ UNCHANGED <<svc, record, memory, others, faults>>

(* release_durable_record has an outcome; the record is rewritten. *)
SettleDurable ==
  /\ task["startup"].then = "durable"
  /\ LET v == Val("startup") IN
     \/ /\ At("startup", "settled")
        /\ Persisted([v EXCEPT !.state = "released", !.rev = task["startup"].got]) \/ PersistFails
     \/ /\ At("startup", "unsettled")
        /\ Persisted([v EXCEPT !.state = "releasing"]) \/ PersistFails
  /\ task' = [task EXCEPT !["startup"] = Idle]
  /\ UNCHANGED <<svc, memory, others>>

-----------------------------------------------------------------------------
(* The environment: a sandbox disappears, the process crashes. *)

LoseSandbox(l) ==
  /\ Active(svc, l) /\ svc' = Lost(svc, l)
  /\ Fault
  /\ UNCHANGED <<record, memory, task, others>>

(* The service's reconciler takes over a release that nobody finishes. *)
ReconcileRelease(l) ==
  /\ svc.lease[l].asked = "open" /\ svc' = Reconciled(svc, l)
  /\ UNCHANGED <<record, memory, task, others, faults>>

Crash ==
  /\ crashes < MaxCrash /\ crashes' = crashes + 1
  /\ task' = [k \in Tasks |-> Idle]
  /\ lock' = [e \in Entries |-> "free"]
  /\ current' = 0 /\ thread' = "absent" /\ retries' = 0
  /\ history' = IF history = "first" THEN "resumed" ELSE history
  /\ entry' = [e \in Entries |-> NoValue]
  /\ UNCHANGED <<svc, record, announced, refused, faults>>

Finalize(k) ==
  \/ FinalizeBegin(k) \/ MarkPending(k) \/ CompletionCheckpoint(k) \/ SaveCompletion(k)
  \/ ExportPatch(k) \/ SavePatch(k) \/ RetainPatch(k) \/ AnnouncePatch(k) \/ SettleFinalization(k)

TaskStep(k) == Finalize(k) \/ CleanupRetain(k) \/ CleanupRelease(k)

TurnStep == CheckpointBegin \/ CheckpointCall \/ CheckpointSaveSnapshot \/ CheckpointRetain
            \/ CheckpointSaveRevision \/ CheckpointEnd
RemovalStep == ReleaseRemoved \/ ReleaseLocked \/ SettleRemoval
StartupStep == Provision \/ ReadRecord \/ Reconnect \/ RejectReconnect \/ Restore \/ Boot
               \/ RetainPending \/ PersistPending \/ RolledBack \/ SettleDurable

Next ==
  \/ \E k \in Tasks : TaskStep(k)
  \/ TurnStep \/ RemovalStep \/ StartupStep
  \/ \E goal \in {"finalize", "checkpoint"} : TurnEnds(goal)
  \/ RemoveThread \/ RetryCleanup \/ Start \/ Stop \/ Resume
  \/ \E l \in Leases : LoseSandbox(l) \/ ReconcileRelease(l)
  \/ Crash

(* Spawned tasks run on, a retry timer fires, and the reconciler polls. *)
Spec ==
  /\ Init /\ [][Next]_vars
  /\ \A k \in Tasks : WF_vars(TaskStep(k))
  /\ WF_vars(TurnStep) /\ WF_vars(RemovalStep) /\ WF_vars(StartupStep)
  /\ WF_vars(RetryCleanup) /\ \A l \in Leases : WF_vars(ReconcileRelease(l))

-----------------------------------------------------------------------------
Finished == {"completed", "releasing", "released"}

Values == [lease : 0..MaxLease, base : Snapshots, latest : Snapshots, art : Snapshots,
           rev : Nat, state : States]

TypeOK ==
  /\ record \in Values /\ entry \in [Entries -> Values]
  /\ lock \in [Entries -> Tasks \cup {"free"}]
  /\ current \in 0..MaxEntry /\ thread \in {"absent", "running", "stopped"}
  /\ \A k \in Tasks : task[k].e \in 0..MaxEntry /\ task[k].val \in Values
  /\ retries \in 0..MaxRetry /\ announced \subseteq Snapshots \ {None}

(* A patch the owner was told of stays in a finished durable record and     *)
(* rooted at the service, whatever crashes, late resumes, turns and         *)
(* cleanups with an older view of the runtime follow.                       *)
AnnouncedPatchIsDurable ==
  \A a \in announced :
    /\ record.art = a /\ record.state \in Finished
    /\ svc.refs.rooted /\ svc.refs.want.art = a

(* No reclaimer may take what a resume or an export still needs: a root     *)
(* protects the base in the durable record at every moment, and its latest  *)
(* snapshot as long as the service would restore from it.  A release, by    *)
(* whichever task and on whatever view, never strips them.                  *)
RecordedSnapshotSurvives ==
  record.lease # 0 /\ history # "overlapped" =>
    /\ Protected(svc, record.base)
    /\ record.latest = Latest(svc, record.latest[1]) => Protected(svc, record.latest)

(* A finalization with a patch is never undone in the record: a task with   *)
(* an older view of the runtime neither drops the patch nor reopens it.     *)
FinalizationIsNeverUndone ==
  [][record.art # None /\ history # "overlapped" => record'.art = record.art /\ record'.state \in Finished]_vars

(* Until a crash or a resume, a pending runtime that still has its lease is *)
(* in the map, where a retry finds it, or in the hands of a task that puts  *)
(* it back or releases it.  Only the first is what cleanup_pending sees: a  *)
(* retry at work has taken the entry out of the map.                        *)
HeldLeaseIsNotDropped ==
  history = "first" /\ Pending(record) /\ svc.lease[record.lease].state # "released" =>
    \/ current # 0 /\ entry[current].lease = record.lease
    \/ \E k \in Tasks : task[k].e # 0 /\ entry[task[k].e].lease = record.lease

(* The service would accept what is left of the runtime's lifecycle: no     *)
(* failure of its checkpoint or its export is journaled.                    *)
Finishable(v) ==
  /\ v.lease # 0 /\ CanRetain(svc, v)
  /\ IF v.state = "finalizing"
     THEN LET done == CompletionOf(svc, v.lease) IN
          /\ CanComplete(svc, v.lease) /\ CanExport(done, v.lease, v.base, done.lease[v.lease].final)
          /\ CompletionKey(v.lease) \notin refused /\ ExportKey(done.lease[v.lease].final) \notin refused
     ELSE svc.lease[v.lease].asked = "open" \/ CanRelease(AfterRetain(svc, v), v.lease)

(* A removal with more timers left than calls will still fail ends with its *)
(* lease released, by a retry or by the service's reconciler, as long as    *)
(* the service would finish the runtime.  The failures it survives are lost *)
(* requests and replies, failed releases and failed SQLite writes.  After a *)
(* checkpoint or an export whose failure is journaled every retry hears     *)
(* that failure again, and the lease is kept.                               *)
CleanupSettles ==
  (history = "first" /\ thread = "absent" /\ current # 0 /\ Pending(entry[1])
     /\ retries > MaxFault - faults /\ Finishable(entry[1]))
  ~> (history # "first" \/ ~Finishable(entry[1]) \/ svc.lease[entry[1].lease].state = "released")
===============================================================================
