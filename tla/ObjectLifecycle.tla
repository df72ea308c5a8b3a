---------------------------- MODULE ObjectLifecycle ----------------------------
(****************************************************************************)
(* Content-addressed objects: workspace preparations and source uploads      *)
(* that publish them, and the reclaimer that deletes them                    *)
(* (workspace-snapshots.ts, postgres-workspace-preparations.ts,              *)
(* postgres-object-reclaimer.ts, source-snapshots.ts).  Several object rows  *)
(* may name one location of the store.  A publisher holds the location's     *)
(* advisory lock for one transaction, a reclaimer for a session of two       *)
(* transactions with the delete between them, so a location has at most one  *)
(* holder and that holder's state is kept with the lock.                     *)
(*                                                                           *)
(* A transaction is one step, taking the location's lock included.  A worker *)
(* that was superseded can no longer change anything, because every          *)
(* transaction of it checks its fence, except to finish a delete it had      *)
(* begun: its holder then becomes a "stray".  A holder that fails, loses its *)
(* session or dies has had its delete carried out, or never will.            *)
(****************************************************************************)
EXTENDS FiniteSets, Integers

CONSTANTS
  Preparations,   \* operations, each with its workspace preparation
  Uploads,        \* requests that upload the same source archive
  Locations,      \* of the object store
  SourceObject,   \* the source archive's object
  ObjectsOf,      \* the objects a preparation publishes
  Location,       \* of an object
  Limit,          \* allocations claimed in one batch
  MaxFault        \* failed calls, dead processes, owners superseded while alive

Objects == (UNION {ObjectsOf[p] : p \in Preparations}) \cup {SourceObject}

ASSUME ObjectAssumption ==
  /\ \A p \in Preparations : SourceObject \notin ObjectsOf[p]
  /\ \A p, q \in Preparations : p # q => ObjectsOf[p] \cap ObjectsOf[q] = {}
  /\ \A o \in Objects : Location[o] \in Locations
  /\ Limit \in Nat \ {0} /\ MaxFault \in Nat

VARIABLES
  blob,         \* locations that hold content
  object,       \* hosted_agent_objects.state
  allocation,   \* hosted_agent_operation_allocations.state of the object
  prep,         \* hosted_agent_workspace_preparations.state
  open,         \* operations in progress
  worker,       \* the owner of the operation: where it is, what it reclaims
  lock,         \* holder of a location's advisory lock
  source,       \* the source snapshot row exists
  upload,       \* where an upload request is
  faults,       \* faults so far
  orphan,       \* history: content was put and not registered
  blind         \* history: content others had registered was deleted

vars == <<blob, object, allocation, prep, open, worker, lock, source, upload,
          faults, orphan, blind>>
rows == <<object, allocation, prep, open, source>>
store == <<blob, orphan, blind>>

Free == [kind |-> "free"]
Held(k, o, s) == [kind |-> k, obj |-> o, pc |-> s]
At(s) == [pc |-> s, todo |-> {}, full |-> FALSE]

HolderKinds == {"publish", "reclaim", "stray", "recover", "upload", "cleanup"}
WorkerStates == {"none", "create", "publish", "error", "commit", "abort", "claim", "reclaim",
                 "settle"}

TypeOK ==
  /\ blob \subseteq Locations /\ orphan \subseteq Locations /\ blind \subseteq Locations
  /\ object \in [Objects -> {"none", "available", "deleting", "deleted"}]
  /\ allocation \in [Objects -> {"none", "allocated", "adopted", "reclaim_pending", "reclaimed"}]
  /\ prep \in [Preparations -> {"none", "publishing", "prepared", "committed",
                                "reclaim_pending", "reclaimed"}]
  /\ open \subseteq Preparations /\ source \in BOOLEAN /\ faults \in 0..MaxFault
  /\ worker \in [Preparations -> [pc : WorkerStates, todo : SUBSET Objects, full : BOOLEAN]]
  /\ lock \in [Locations -> {Free} \cup [kind : HolderKinds, obj : Objects,
                                         pc : {"put", "delete", "finish"}]]
  /\ upload \in [Uploads -> {"new", "checked", "put", "registered", "cleanup", "deleting", "over"}]

Init ==
  /\ blob = {} /\ orphan = {} /\ blind = {} /\ faults = 0
  /\ object = [o \in Objects |-> "none"]
  /\ allocation = [o \in Objects |-> "none"]
  /\ prep = [p \in Preparations |-> "none"]
  /\ open = Preparations /\ source = FALSE
  /\ worker = [p \in Preparations |-> At("create")]
  /\ lock = [l \in Locations |-> Free]
  /\ upload = [u \in Uploads |-> "new"]

----------------------------------------------------------------------------
(* Helpers.                                                                 *)

(* Mutant: rows that are deleted count as well. *)
MutShared(o) ==
  \E q \in Objects \ {o} : Location[q] = Location[o] /\ object[q] # "none"

\* ReclaimerHasSharedLocator: another row that is not deleted names the place.
Shared(o) ==
  \E q \in Objects \ {o} :
    Location[q] = Location[o] /\ object[q] \notin {"none", "deleted"}

\* ReclaimerHasDurableReference: a committed snapshot or a source snapshot.
Referenced(o) ==
  \/ o = SourceObject /\ source
  \/ \E p \in Preparations : o \in ObjectsOf[p] /\ prep[p] = "committed"

Unreferenced(o) == object[o] = "available" /\ ~Referenced(o)

\* What markPrepared and lockForCommit require of the associated objects.
Complete(p) ==
  \A o \in ObjectsOf[p] : object[o] = "available" /\ allocation[o] = "allocated"

\* The location a worker holds with a lock of this kind.
HeldBy(p, k) == {l \in Locations : lock[l].kind = k /\ lock[l].obj \in ObjectsOf[p]}

Go(p, s) == worker' = [worker EXCEPT ![p] = At(s)]
Fault == faults < MaxFault /\ faults' = faults + 1
Done(p, o) == worker' = [worker EXCEPT ![p].todo = @ \ {o}]

\* Deleted in the rows: the object, and its allocation if it waited for it.
Finalized(o) ==
  /\ object' = [object EXCEPT ![o] = "deleted"]
  /\ allocation' = [allocation EXCEPT ![o] = IF @ = "reclaim_pending" THEN "reclaimed" ELSE @]

----------------------------------------------------------------------------
(* The owner of an operation: publish, prepare, commit.                     *)

\* A retried request ("create") or a reconciler ("abort") takes the operation
\* over, because its owner is gone or looks so; a publishing transaction
\* holds the operation's row.
Takeover(p, s) ==
  /\ p \in open /\ HeldBy(p, "publish") = {}
  /\ IF worker[p].pc = "none" THEN UNCHANGED faults ELSE Fault
  /\ Go(p, s)
  /\ lock' = [l \in Locations |-> IF l \in HeldBy(p, "reclaim")
                                  THEN [lock[l] EXCEPT !.kind = "stray"] ELSE lock[l]]
  /\ UNCHANGED <<rows, upload, store>>

\* The process dies, or its call fails between two transactions.
Crash(p) ==
  /\ worker[p].pc # "none" /\ HeldBy(p, "publish") = {} /\ HeldBy(p, "reclaim") = {}
  /\ Fault /\ Go(p, "none")
  /\ UNCHANGED <<rows, lock, upload, store>>

CreateOrReplay(p) ==
  /\ worker[p].pc = "create"
  /\ prep' = [prep EXCEPT ![p] = IF @ = "none" THEN "publishing" ELSE @]
  /\ Go(p, CASE prep'[p] = "publishing" -> "publish"
             [] prep'[p] = "reclaim_pending" -> "claim"
             [] prep'[p] = "reclaimed" -> "settle"
             [] OTHER -> "commit")
  /\ UNCHANGED <<object, allocation, open, source, lock, upload, store, faults>>

\* Objects that are already associated are skipped.  (The code publishes in
\* the order of the locations.)
PublishObject(p, o) ==
  /\ worker[p].pc = "publish" /\ HeldBy(p, "publish") = {}
  /\ object[o] = "none" /\ lock[Location[o]] = Free
  /\ blob' = blob \cup {Location[o]}
  /\ lock' = [lock EXCEPT ![Location[o]] = Held("publish", o, "put")]
  /\ UNCHANGED <<rows, worker, upload, orphan, blind, faults>>

\* registerObject, recordAllocation and associateObject are committed.
AssociateObject(l) ==
  /\ lock[l].kind = "publish"
  /\ object' = [object EXCEPT ![lock[l].obj] = "available"]
  /\ allocation' = [allocation EXCEPT ![lock[l].obj] = "allocated"]
  /\ lock' = [lock EXCEPT ![l] = Free]
  /\ UNCHANGED <<prep, open, source, worker, upload, store, faults>>

MarkPrepared(p) ==
  /\ worker[p].pc \in {"publish", "error"} /\ HeldBy(p, "publish") = {}
  /\ Complete(p)
  /\ prep' = [prep EXCEPT ![p] = "prepared"]
  /\ Go(p, "commit")
  /\ UNCHANGED <<object, allocation, open, source, lock, upload, store, faults>>

\* beginAbort: after a failed publication (unless it is complete after all),
\* by a coordinator that fails with its preparation, or by a reconciler.
BeginAbort(p) ==
  /\ \/ worker[p].pc \in {"publish", "error"} /\ HeldBy(p, "publish") = {}
        /\ ~Complete(p)
     \/ worker[p].pc = "commit"
     \/ worker[p].pc = "abort"
  /\ prep' = [prep EXCEPT ![p] = IF @ \in {"publishing", "prepared"} THEN "reclaim_pending" ELSE @]
  /\ Go(p, IF prep'[p] = "reclaim_pending" THEN "claim" ELSE "settle")
  /\ UNCHANGED <<object, allocation, open, source, lock, upload, store, faults>>

\* The snapshot that refers to the objects, markCommitted, the adoption of the
\* allocations and completeOperation in one transaction.  A coordinator that
\* does not hear of the commit looks the outcome up and changes nothing.
Commit(p) ==
  /\ worker[p].pc = "commit"
  /\ prep[p] = "prepared" /\ Complete(p)
  /\ prep' = [prep EXCEPT ![p] = "committed"]
  /\ allocation' = [o \in Objects |-> IF o \in ObjectsOf[p] THEN "adopted" ELSE allocation[o]]
  /\ open' = open \ {p}
  /\ Go(p, "none")
  /\ UNCHANGED <<object, source, lock, upload, store, faults>>

\* failOperation, or failReconciledOperation of a reconciler.
Settle(p) ==
  /\ worker[p].pc = "settle"
  /\ open' = open \ {p}
  /\ Go(p, "none")
  /\ UNCHANGED <<object, allocation, prep, source, lock, upload, store, faults>>

----------------------------------------------------------------------------
(* Reclaiming a preparation.                                                *)

(* Mutant: a claim that was interrupted is not repeated. *)
MutClaimable(o) == allocation[o] = "allocated"

Claimable(o) == allocation[o] \in {"allocated", "reclaim_pending"}

\* The objects associated with the preparation; none once it is `reclaimed'.
Candidates(p) == {o \in ObjectsOf[p] : prep[p] = "reclaim_pending" /\ Claimable(o)}

\* Rows that are locked are skipped: those of an object whose deletion another
\* transaction is finishing.
ClaimPreparationObjects(p) ==
  /\ worker[p].pc = "claim"
  /\ \E batch \in SUBSET Candidates(p) :
       /\ \/ Cardinality(batch) = Limit
          \/ /\ Cardinality(batch) < Limit
             /\ \A o \in Candidates(p) \ batch : object[o] = "deleting"
       /\ allocation' = [o \in Objects |-> IF o \in batch THEN "reclaim_pending"
                                           ELSE allocation[o]]
       /\ worker' = [worker EXCEPT ![p] =
            [pc |-> "reclaim", todo |-> batch, full |-> Cardinality(batch) = Limit]]
  /\ UNCHANGED <<object, prep, open, source, lock, upload, store, faults>>

\* The first transaction of reclaimOne.  A row that is already `deleting' is
\* deleted without asking who else names its location.
ReclaimOne(p, o) ==
  LET l == Location[o] IN
  /\ worker[p].pc = "reclaim" /\ o \in worker[p].todo /\ HeldBy(p, "reclaim") = {}
  /\ lock[l] = Free
  /\ \/ /\ \/ allocation[o] = "reclaimed"
           \/ object[o] = "available" /\ Referenced(o)
        /\ Done(p, o) /\ UNCHANGED <<object, allocation, lock, blind>>
     \/ /\ allocation[o] = "reclaim_pending"
        /\ object[o] = "deleted" \/ (Unreferenced(o) /\ Shared(o))
        /\ Finalized(o) /\ Done(p, o) /\ UNCHANGED <<lock, blind>>
     \/ /\ allocation[o] = "reclaim_pending"
        /\ object[o] = "deleting" \/ (Unreferenced(o) /\ ~Shared(o))
        /\ object' = [object EXCEPT ![o] = "deleting"]
        /\ lock' = [lock EXCEPT ![l] = Held("reclaim", o, "delete")]
        /\ blind' = IF Shared(o) THEN blind \cup {l} ELSE blind
        /\ UNCHANGED <<allocation, worker>>
  /\ UNCHANGED <<prep, open, source, upload, blob, orphan, faults>>

(* Mutant: unclaimed allocations are not outstanding. *)
MutOutstanding(p) == {o \in ObjectsOf[p] : allocation[o] = "reclaim_pending"}

\* ReclaimerPreparationOutstanding.
Outstanding(p) == {o \in ObjectsOf[p] : allocation[o] \notin {"none", "reclaimed"}}

\* finalizePreparationIfReclaimed.  After a full batch a handler goes on with
\* the next one, and after the last one it fails its operation whatever was
\* skipped; a reconciler leaves the operation to the next pass in both cases.
FinalizePreparation(p) ==
  /\ worker[p].pc = "reclaim" /\ worker[p].todo = {}
  /\ prep' = [prep EXCEPT ![p] = IF Outstanding(p) = {} THEN "reclaimed" ELSE @]
  /\ \/ Go(p, IF worker[p].full THEN "claim" ELSE "settle")
     \/ (worker[p].full \/ prep'[p] # "reclaimed") /\ Go(p, "none")
  /\ UNCHANGED <<object, allocation, open, source, lock, upload, store, faults>>

(* Mutant: the locator is not checked again after a crash. *)
MutResumeDeletingObject(o) ==
  /\ object[o] = "deleting" /\ lock[Location[o]] = Free
  /\ lock' = [lock EXCEPT ![Location[o]] = Held("recover", o, "delete")]
  /\ UNCHANGED <<rows, worker, upload, store, faults>>

\* recoverDeletingObjects, run by every general reconciler pass.
ResumeDeletingObject(o) ==
  LET l == Location[o] IN
  /\ object[o] = "deleting" /\ lock[l] = Free
  /\ \/ Shared(o) /\ Finalized(o) /\ UNCHANGED lock
     \/ /\ ~Shared(o)
        /\ lock' = [lock EXCEPT ![l] = Held("recover", o, "delete")]
        /\ UNCHANGED <<object, allocation>>
  /\ UNCHANGED <<prep, open, source, worker, upload, store, faults>>

----------------------------------------------------------------------------
(* What the holder of a location's lock does with it.                       *)

Delete(l) ==
  /\ lock[l].kind # "free" /\ lock[l].pc = "delete"
  /\ blob' = blob \ {l} /\ orphan' = orphan \ {l}
  /\ lock' = [lock EXCEPT ![l].pc = "finish"]
  /\ UNCHANGED <<rows, worker, upload, blind, faults>>

\* The upload request that holds the lock, as state s.
UploadTo(l, s) ==
  upload' = [u \in Uploads |-> IF lock[l].kind \in {"upload", "cleanup"}
                                  /\ upload[u] \in {"put", "deleting"}
                               THEN s ELSE upload[u]]

\* The second transaction; a source archive that has no row needs none.
FinishDelete(l) ==
  /\ lock[l].kind # "free" /\ lock[l].pc = "finish"
  /\ IF object[lock[l].obj] = "none" THEN UNCHANGED <<object, allocation>>
                                     ELSE Finalized(lock[l].obj)
  /\ worker' = [p \in Preparations |-> IF l \in HeldBy(p, "reclaim")
                  THEN [worker[p] EXCEPT !.todo = @ \ {lock[l].obj}] ELSE worker[p]]
  /\ UploadTo(l, "over")
  /\ lock' = [lock EXCEPT ![l] = Free]
  /\ UNCHANGED <<prep, open, source, store, faults>>

\* The holder's call fails, its session ends or its process dies: the
\* transaction is rolled back and the lock released.  A publisher or an upload
\* that is still alive goes on to its clean-up; a failed reclaim ends the call.
Fail(l, alive) ==
  /\ lock[l] # Free /\ Fault
  /\ lock[l].kind \notin {"publish", "upload"} => ~alive
  /\ orphan' = IF lock[l].pc = "put" THEN orphan \cup {l} ELSE orphan
  /\ worker' = [p \in Preparations |->
       IF l \in HeldBy(p, "publish") \cup HeldBy(p, "reclaim")
       THEN At(IF alive THEN "error" ELSE "none") ELSE worker[p]]
  /\ UploadTo(l, IF alive THEN "cleanup" ELSE "over")
  /\ lock' = [lock EXCEPT ![l] = Free]
  /\ UNCHANGED <<rows, blob, blind>>

----------------------------------------------------------------------------
(* Source uploads.                                                          *)

SourceLocation == Location[SourceObject]

\* An existing snapshot of the same content answers the request.
CheckSource(u) ==
  /\ upload[u] = "new"
  /\ upload' = [upload EXCEPT ![u] = IF source THEN "over" ELSE "checked"]
  /\ UNCHANGED <<rows, worker, lock, store, faults>>

PutSource(u) ==
  /\ upload[u] = "checked" /\ lock[SourceLocation] = Free
  /\ blob' = blob \cup {SourceLocation}
  /\ lock' = [lock EXCEPT ![SourceLocation] = Held("upload", SourceObject, "put")]
  /\ upload' = [upload EXCEPT ![u] = "put"]
  /\ UNCHANGED <<rows, worker, orphan, blind, faults>>

\* registerObject inserts the row or returns the one that exists, whatever its
\* state; the transaction commits and a row that is not available is refused.
RegisterSourceObject(u) ==
  /\ upload[u] = "put"
  /\ object' = [object EXCEPT ![SourceObject] = IF @ = "none" THEN "available" ELSE @]
  /\ upload' = [upload EXCEPT ![u] = IF object'[SourceObject] = "available" THEN "registered"
                                                                            ELSE "cleanup"]
  /\ orphan' = IF object[SourceObject] = "deleted" THEN orphan \cup {SourceLocation} ELSE orphan
  /\ lock' = [lock EXCEPT ![SourceLocation] = Free]
  /\ UNCHANGED <<allocation, prep, open, source, worker, blob, blind, faults>>

\* registerSourceSnapshot is refused if the object was reclaimed meanwhile; it
\* commits, and the request may not learn of it.
RegisterSourceSnapshot(u) ==
  /\ upload[u] = "registered"
  /\ LET available == object[SourceObject] = "available" IN
     /\ source' = (source \/ available)
     /\ \/ /\ upload' = [upload EXCEPT ![u] = IF available THEN "over" ELSE "cleanup"]
           /\ UNCHANGED faults
        \/ available /\ Fault /\ upload' = [upload EXCEPT ![u] = "cleanup"]
  /\ UNCHANGED <<object, allocation, prep, open, worker, lock, store>>

\* It fails, or the process dies with the archive published.
AbandonSource(u) ==
  /\ Fault
  /\ \/ upload[u] = "registered" /\ upload' = [upload EXCEPT ![u] = "cleanup"]
     \/ upload[u] \in {"registered", "cleanup"} /\ upload' = [upload EXCEPT ![u] = "over"]
  /\ UNCHANGED <<rows, worker, lock, store>>

(* Mutant: a reference is not looked for. *)
MutSourceIsKept == object[SourceObject] = "deleted"

SourceIsKept == object[SourceObject] = "deleted" \/ (object[SourceObject] = "available" /\ source)

\* reclaimUnreferencedSourceArchive, its first transaction.
ReclaimSourceArchive(u) ==
  LET mark(s) == object' = [object EXCEPT ![SourceObject] = IF @ = "none" THEN @ ELSE s]
      over == upload' = [upload EXCEPT ![u] = "over"] /\ UNCHANGED lock
  IN
  /\ upload[u] = "cleanup" /\ lock[SourceLocation] = Free
  /\ \/ SourceIsKept /\ over /\ UNCHANGED object
     \/ ~SourceIsKept /\ Shared(SourceObject) /\ mark("deleted") /\ over
     \/ /\ ~SourceIsKept /\ ~Shared(SourceObject) /\ mark("deleting")
        /\ lock' = [lock EXCEPT ![SourceLocation] = Held("cleanup", SourceObject, "delete")]
        /\ upload' = [upload EXCEPT ![u] = "deleting"]
  /\ UNCHANGED <<allocation, prep, open, source, worker, store, faults>>

Upload(u) ==
  \/ CheckSource(u) \/ PutSource(u) \/ RegisterSourceObject(u)
  \/ RegisterSourceSnapshot(u) \/ AbandonSource(u) \/ ReclaimSourceArchive(u)

\* What a live owner of an operation does next of its own accord.
Step(p) ==
  \/ CreateOrReplay(p) \/ MarkPrepared(p) \/ Commit(p) \/ Settle(p)
  \/ ClaimPreparationObjects(p) \/ FinalizePreparation(p) \/ BeginAbort(p)
  \/ \E o \in ObjectsOf[p] : PublishObject(p, o) \/ ReclaimOne(p, o)

Next ==
  \/ \E p \in Preparations : Step(p) \/ Crash(p) \/ \E s \in {"create", "abort"} : Takeover(p, s)
  \/ \E o \in Objects : ResumeDeletingObject(o)
  \/ \E l \in Locations :
       AssociateObject(l) \/ Delete(l) \/ FinishDelete(l) \/ \E a \in BOOLEAN : Fail(l, a)
  \/ \E u \in Uploads : Upload(u)

\* What goes on by itself: live workers and the passes that take over abandoned
\* operations; at each location the holder of the lock and the passes that look
\* for deleting objects.
Progress ==
  \E p \in Preparations : Step(p) \/ (worker[p].pc = "none" /\ Takeover(p, "abort"))
ProgressAt(l) ==
  \/ AssociateObject(l) \/ Delete(l) \/ FinishDelete(l)
  \/ \E o \in Objects : Location[o] = l /\ ResumeDeletingObject(o)
  \/ \E u \in Uploads : lock[l].kind = "upload" /\ RegisterSourceObject(u)

Spec ==
  /\ Init /\ [][Next]_vars
  /\ WF_vars(Progress) /\ \A l \in Locations : WF_vars(ProgressAt(l))

----------------------------------------------------------------------------
(* Properties.                                                              *)

(* The content of an available object is in the store, whoever else          *)
(* published, reclaimed or crashed at its location.  The one exception is a  *)
(* reclaimOne that resumed a deletion without the shared-locator check.      *)
AvailableContentExists ==
  \A o \in Objects : object[o] = "available" => Location[o] \in blob \cup blind

(* What a committed preparation or a source snapshot refers to is never      *)
(* taken away from it.                                                       *)
ReferencedObjectIsAvailable ==
  \A o \in Objects : Referenced(o) => object[o] = "available"

(* Content is never forgotten: it has a row that keeps it or will delete it, *)
(* or a publisher at work, unless it was put and never registered.           *)
StoredContentIsAccounted ==
  \A l \in blob : \/ l \in orphan
                  \/ lock[l].kind \in {"publish", "upload"}
                  \/ \E o \in Objects : Location[o] = l /\ object[o] \in {"available", "deleting"}

(* A preparation is `reclaimed' only when all it had published is deleted.   *)
ReclaimedPreparationIsGone ==
  \A p \in Preparations : prep[p] = "reclaimed" =>
    \A o \in ObjectsOf[p] : object[o] \in {"none", "deleted"}

(* An aborted preparation is reclaimed while its operation is open, whoever  *)
(* owns that, and every deletion that was begun is finished in the end,      *)
(* whatever process began it: a moment comes at which none is left.          *)
Unfinished ==
  \/ \E p \in open : prep[p] = "reclaim_pending"
  \/ \E o \in Objects : object[o] = "deleting" \/ allocation[o] = "reclaim_pending"
ReclamationFinishes == Unfinished ~> ~Unfinished
================================================================================
