------------------------ MODULE ReleaseLifecycleProofs ------------------------
(***************************************************************************)
(* TLAPS proofs about the release of a lease, for any handlers, reconciler  *)
(* passes and competing release requests.                                   *)
(***************************************************************************)
EXTENDS ReleaseLifecycle, TLAPS

(* A worker that is not idle works on one of the requests. *)
WorkersHaveKeys == \A w \in Workers : worker[w].pc # "idle" => worker[w].key \in Keys

(* Between the kill and its commit a worker holds the lease lock and its    *)
(* operation, the lease waits for the release and the sandbox is gone.      *)
KilledUnderLock ==
  \A w \in Workers : worker[w].pc = "killed" =>
    lock = w /\ Owns(w) /\ lease.state = "release_pending" /\ sandbox = "gone"

(* Nobody else holds the lock, so a free lock means no kill is under way. *)
LockIsHeld == lock # Free => lock \in Workers /\ worker[lock].pc = "killed"

(* A released lease has no sandbox left. *)
ReleasedIsGone == lease.state = "released" => sandbox = "gone"

(* Nothing but the release protocol moves this lease. *)
LeaseIsReleasing == lease.state \in {"active", "release_pending", "released"}

ReleaseInvariant ==
  /\ TypeOK /\ WorkersHaveKeys /\ KilledUnderLock /\ LockIsHeld
  /\ ReleasedIsGone /\ LeaseIsReleasing /\ SuccessMeansReleased

-------------------------------------------------------------------------------
LEMMA InitInvariant == Init => ReleaseInvariant
<1> SUFFICES ASSUME Init PROVE ReleaseInvariant
  OBVIOUS
<1> USE DEF Init, NewLease, IdleWorker
<1>1. TypeOK
  BY DEF TypeOK, Lease, LeaseStates, WorkerStates
<1>2. \A w \in Workers : worker[w].pc = "idle"
  OBVIOUS
<1> QED
  BY <1>1, <1>2 DEF ReleaseInvariant, WorkersHaveKeys, KilledUnderLock, LockIsHeld,
     ReleasedIsGone, LeaseIsReleasing, SuccessMeansReleased

(* The ways a worker record changes keep its type, and touch no other       *)
(* worker.                                                                  *)
LEMMA WorkerMoves ==
  ASSUME TypeOK, NEW w \in Workers, NEW pc \in WorkerStates, Goto(w, pc)
  PROVE  /\ worker' \in [Workers -> [pc : WorkerStates, key : Keys \cup {NoKey}]]
         /\ worker'[w].pc = pc /\ worker'[w].key = worker[w].key
         /\ \A v \in Workers \ {w} : worker'[v] = worker[v]
  BY DEF TypeOK, Goto

LEMMA WorkerStops ==
  ASSUME TypeOK, NEW w \in Workers, Stop(w)
  PROVE  /\ worker' \in [Workers -> [pc : WorkerStates, key : Keys \cup {NoKey}]]
         /\ worker'[w].pc = "idle"
         /\ \A v \in Workers \ {w} : worker'[v] = worker[v]
  BY DEF TypeOK, Stop, IdleWorker, WorkerStates

(* A worker that gives up is idle or, a handler, reads the outcome back. *)
LEMMA WorkerGivesUp ==
  ASSUME TypeOK, NEW w \in Workers, GiveUp(w) \/ Stop(w)
  PROVE  /\ worker' \in [Workers -> [pc : WorkerStates, key : Keys \cup {NoKey}]]
         /\ worker'[w].pc = "idle"
              \/ (worker'[w].pc = "recovering" /\ worker'[w].key = worker[w].key)
         /\ \A v \in Workers \ {w} : worker'[v] = worker[v]
  BY WorkerStops, WorkerMoves DEF GiveUp, WorkerStates

(* The disjuncts of Next, one per action. *)
LEMMA NextCases ==
  ASSUME Next
  PROVE  \/ Checkpoint \/ Retain \/ ClearReferences \/ SandboxLost
         \/ \E w \in Workers, k \in Keys : Claim(w, k) \/ TakeOver(w, k)
         \/ \E w \in Workers :
              \/ BeginRelease(w) \/ AlreadyReleased(w) \/ Kill(w) \/ KillFails(w)
              \/ CompleteRelease(w) \/ RollBack(w) \/ Crash(w)
              \/ TransactionRefused(w) \/ TransactionFails(w) \/ RecoverCommitOutcome(w)
  BY DEF Next, ReleaseStep, Failure

(* A worker that stops short of the kill, or is refused, changes nothing    *)
(* that others rely on.                                                     *)
LEMMA GivingUpKeepsInvariant ==
  ASSUME ReleaseInvariant, NEW w \in Workers, GiveUp(w) \/ Stop(w),
         worker[w].pc \notin {"idle", "killed"},
         UNCHANGED <<lease, op, alloc, lock, refs, roots>>,
         sandbox' \in {sandbox, "gone"}
  PROVE  ReleaseInvariant'
<1> USE DEF ReleaseInvariant
<1>1. /\ worker' \in [Workers -> [pc : WorkerStates, key : Keys \cup {NoKey}]]
      /\ worker'[w].pc = "idle"
           \/ (worker'[w].pc = "recovering" /\ worker'[w].key = worker[w].key)
      /\ \A v \in Workers \ {w} : worker'[v] = worker[v]
  BY WorkerGivesUp
<1>2. TypeOK'
  BY <1>1 DEF TypeOK
<1>3. WorkersHaveKeys'
  BY <1>1 DEF WorkersHaveKeys
<1>4. KilledUnderLock' /\ LockIsHeld'
  BY <1>1 DEF KilledUnderLock, LockIsHeld, Owns, Key
<1>5. ReleasedIsGone' /\ LeaseIsReleasing' /\ SuccessMeansReleased'
  BY DEF ReleasedIsGone, LeaseIsReleasing, SuccessMeansReleased
<1> QED
  BY <1>2, <1>3, <1>4, <1>5

(* Every step keeps the invariant. *)
LEMMA InvariantStep ==
  ASSUME ReleaseInvariant, [Next]_vars
  PROVE  ReleaseInvariant'
<1> USE DEF ReleaseInvariant
<1>1. CASE Checkpoint \/ Retain \/ ClearReferences \/ SandboxLost
  BY <1>1 DEF Checkpoint, Retain, ClearReferences, SandboxLost, TypeOK, WorkersHaveKeys,
     KilledUnderLock, LockIsHeld, Owns, Key, ReleasedIsGone, LeaseIsReleasing,
     SuccessMeansReleased
<1>2. ASSUME NEW w \in Workers, NEW k \in Keys, Claim(w, k) \/ TakeOver(w, k)
      PROVE  ReleaseInvariant'
  <2>1. /\ worker' = [worker EXCEPT ![w] = [pc |-> "claimed", key |-> k]]
        /\ op'[k] = [state |-> "in_progress", owner |-> w]
        /\ op' \in [Keys -> [state : {"absent", "in_progress", "succeeded"},
                             owner : Workers \cup {Free}]]
        /\ \A j \in Keys \ {k} : op'[j] = op[j]
        /\ UNCHANGED <<lease, alloc, lock, sandbox, refs, roots>>
    BY <1>2 DEF Claim, TakeOver, TypeOK
  <2>2. TypeOK'
    BY <2>1 DEF TypeOK, WorkerStates
  <2>3. WorkersHaveKeys'
    BY <2>1 DEF WorkersHaveKeys, TypeOK
  <2>4. /\ worker[w].pc = "idle"
        /\ \A v \in Workers : worker[v].pc = "killed" => worker[v].key # k
    <3>1. worker[w].pc = "idle"
      BY <1>2 DEF Claim, TakeOver
    <3>2. ASSUME NEW v \in Workers, worker[v].pc = "killed", worker[v].key = k
          PROVE  FALSE
      <4>1. lock = v /\ v # Free /\ op[k] = [state |-> "in_progress", owner |-> v]
        BY <3>2, ReleaseAssumption DEF KilledUnderLock, Owns, Key
      <4>2. op[k].state = "in_progress" /\ worker[lock].key = k
        BY <3>2, <4>1
      <4> QED
        BY <1>2, <4>1, <4>2 DEF Claim, TakeOver, Key
    <3> QED
      BY <3>1, <3>2
  <2>5. KilledUnderLock' /\ LockIsHeld'
    <3>1. \A v \in Workers : worker'[v].pc = "killed" => worker'[v] = worker[v] /\ v # w
      BY <2>1 DEF TypeOK
    <3>2. KilledUnderLock'
      BY <2>1, <2>4, <3>1 DEF KilledUnderLock, Owns, Key, WorkersHaveKeys
    <3>3. LockIsHeld'
      BY <2>1, <2>4 DEF LockIsHeld, TypeOK
    <3> QED
      BY <3>2, <3>3
  <2>6. ReleasedIsGone' /\ LeaseIsReleasing' /\ SuccessMeansReleased'
    BY <2>1 DEF ReleasedIsGone, LeaseIsReleasing, SuccessMeansReleased
  <2> QED
    BY <2>2, <2>3, <2>5, <2>6
<1>3. ASSUME NEW w \in Workers, BeginRelease(w)
      PROVE  ReleaseInvariant'
  <2>1. /\ lease' = [lease EXCEPT !.state = "release_pending"] /\ lease' \in Lease
        /\ lease'.state = "release_pending" /\ lock = Free
        /\ worker[w].key \in Keys /\ op[worker[w].key].state = "in_progress"
        /\ UNCHANGED <<op, lock, sandbox, refs, roots>>
    BY <1>3 DEF BeginRelease, BegunRelease, TypeOK, Lease, LeaseStates, WorkersHaveKeys,
       Owns, Key
  <2>2. /\ alloc' \in [Keys -> {"none", "allocated", "reclaimed"}]
        /\ \A k \in Keys \ {worker[w].key} : alloc'[k] = alloc[k]
    BY <1>3 DEF BeginRelease, TypeOK, Key
  <2>3. /\ worker' \in [Workers -> [pc : WorkerStates, key : Keys \cup {NoKey}]]
        /\ worker'[w].pc = "idle" \/ (worker'[w].key = worker[w].key /\ worker'[w].pc # "killed")
        /\ \A v \in Workers \ {w} : worker'[v] = worker[v]
    BY <1>3, WorkerGivesUp, WorkerMoves DEF BeginRelease, WorkerStates
  <2>4. TypeOK' /\ WorkersHaveKeys'
    BY <2>1, <2>2, <2>3 DEF TypeOK, WorkersHaveKeys
  <2>5. \A v \in Workers : worker'[v].pc # "killed"
    BY <2>1, <2>3, ReleaseAssumption DEF KilledUnderLock
  <2>6. KilledUnderLock' /\ LockIsHeld'
    BY <2>1, <2>5 DEF KilledUnderLock, LockIsHeld
  <2>7. ReleasedIsGone' /\ LeaseIsReleasing' /\ SuccessMeansReleased'
    BY <1>3, <2>1, <2>2 DEF BeginRelease, ReleasedIsGone, LeaseIsReleasing, SuccessMeansReleased
  <2> QED
    BY <2>4, <2>6, <2>7
<1>4. ASSUME NEW w \in Workers, Kill(w)
      PROVE  ReleaseInvariant'
  <2>1. /\ worker' \in [Workers -> [pc : WorkerStates, key : Keys \cup {NoKey}]]
        /\ worker'[w].pc = "killed" /\ worker'[w].key = worker[w].key
        /\ \A v \in Workers \ {w} : worker'[v] = worker[v]
    BY <1>4, WorkerMoves DEF Kill, WorkerStates
  <2>2. TypeOK' /\ WorkersHaveKeys'
    BY <1>4, <2>1 DEF Kill, TypeOK, WorkersHaveKeys
  <2>3. \A v \in Workers : worker[v].pc # "killed"
    BY <1>4, ReleaseAssumption DEF Kill, KilledUnderLock
  <2>4. KilledUnderLock' /\ LockIsHeld'
    BY <1>4, <2>1, <2>3 DEF Kill, KilledUnderLock, LockIsHeld, Owns, Key
  <2>5. ReleasedIsGone' /\ LeaseIsReleasing' /\ SuccessMeansReleased'
    BY <1>4 DEF Kill, ReleasedIsGone, LeaseIsReleasing, SuccessMeansReleased
  <2> QED
    BY <2>2, <2>4, <2>5
(* The two ways a request succeeds. *)
<1>5. ASSUME NEW w \in Workers, AlreadyReleased(w) \/ CompleteRelease(w)
      PROVE  ReleaseInvariant'
  <2>1. /\ lease' \in Lease /\ lease'.state = "released"
        /\ sandbox' = sandbox /\ sandbox = "gone" /\ lock' = Free
        /\ worker[w].key \in Keys /\ worker[w].pc # "idle"
        /\ refs' = refs /\ roots' \in BOOLEAN
    BY <1>5 DEF AlreadyReleased, CompleteRelease, CompletedRelease, RootsAfter,
       KilledUnderLock, ReleasedIsGone, WorkersHaveKeys, TypeOK, Lease, LeaseStates
  <2>2. /\ alloc' \in [Keys -> {"none", "allocated", "reclaimed"}]
        /\ alloc'[worker[w].key] \in {"none", "reclaimed"}
        /\ \A k \in Keys \ {worker[w].key} : alloc'[k] = alloc[k]
    BY <1>5, <2>1 DEF AlreadyReleased, CompleteRelease, Reclaimed, TypeOK, Key
  <2>3. /\ op' \in [Keys -> [state : {"absent", "in_progress", "succeeded"},
                             owner : Workers \cup {Free}]]
        /\ \A k \in Keys \ {worker[w].key} : op'[k] = op[k]
    BY <1>5, <2>1 DEF AlreadyReleased, CompleteRelease, Succeed, TypeOK, Key
  <2>4. /\ worker' \in [Workers -> [pc : WorkerStates, key : Keys \cup {NoKey}]]
        /\ worker'[w].pc = "idle"
             \/ (worker'[w].pc = "recovering" /\ worker'[w].key = worker[w].key)
        /\ \A v \in Workers \ {w} : worker'[v] = worker[v]
    BY <1>5, WorkerGivesUp DEF AlreadyReleased, CompleteRelease, Finish
  <2>5. TypeOK' /\ WorkersHaveKeys'
    BY <2>1, <2>2, <2>3, <2>4 DEF TypeOK, WorkersHaveKeys
  <2>6. \A v \in Workers \ {w} : worker[v].pc # "killed"
    BY <1>5, ReleaseAssumption DEF AlreadyReleased, CompleteRelease, KilledUnderLock
  <2>7. KilledUnderLock' /\ LockIsHeld'
    BY <2>1, <2>4, <2>6 DEF KilledUnderLock, LockIsHeld
  <2>8. ReleasedIsGone' /\ LeaseIsReleasing' /\ SuccessMeansReleased'
    BY <2>1, <2>2, <2>3 DEF ReleasedIsGone, LeaseIsReleasing, SuccessMeansReleased
  <2> QED
    BY <2>5, <2>7, <2>8
(* A transaction that is rolled back, or dies, after the kill. *)
<1>6. ASSUME NEW w \in Workers, RollBack(w) \/ Crash(w), worker[w].pc = "killed"
      PROVE  ReleaseInvariant'
  <2>1. lock = w /\ lock' = Free /\ UNCHANGED <<lease, op, alloc, sandbox, refs, roots>>
    BY <1>6 DEF RollBack, Crash, KilledUnderLock
  <2>2. /\ worker' \in [Workers -> [pc : WorkerStates, key : Keys \cup {NoKey}]]
        /\ worker'[w].pc = "idle"
             \/ (worker'[w].pc = "recovering" /\ worker'[w].key = worker[w].key)
        /\ \A v \in Workers \ {w} : worker'[v] = worker[v]
    BY <1>6, WorkerGivesUp DEF RollBack, Crash
  <2>3. TypeOK' /\ WorkersHaveKeys'
    BY <1>6, <2>1, <2>2 DEF TypeOK, WorkersHaveKeys
  <2>4. \A v \in Workers \ {w} : worker[v].pc # "killed"
    BY <2>1 DEF KilledUnderLock
  <2>5. KilledUnderLock' /\ LockIsHeld'
    BY <2>1, <2>2, <2>4 DEF KilledUnderLock, LockIsHeld
  <2>6. ReleasedIsGone' /\ LeaseIsReleasing' /\ SuccessMeansReleased'
    BY <2>1 DEF ReleasedIsGone, LeaseIsReleasing, SuccessMeansReleased
  <2> QED
    BY <2>3, <2>5, <2>6
<1>7. ASSUME NEW w \in Workers, Crash(w), worker[w].pc # "killed"
      PROVE  ReleaseInvariant'
  <2>1. lock # w
    BY <1>7, ReleaseAssumption DEF LockIsHeld
  <2> QED
    BY <1>7, <2>1, GivingUpKeepsInvariant DEF Crash
<1>8. ASSUME NEW w \in Workers,
             \/ TransactionRefused(w) \/ TransactionFails(w) \/ KillFails(w)
             \/ RecoverCommitOutcome(w)
      PROVE  ReleaseInvariant'
  BY <1>8, GivingUpKeepsInvariant
  DEF TransactionRefused, TransactionFails, KillFails, RecoverCommitOutcome
<1>9. CASE UNCHANGED vars
  BY <1>9 DEF vars, TypeOK, WorkersHaveKeys, KilledUnderLock, LockIsHeld, Owns, Key,
     ReleasedIsGone, LeaseIsReleasing, SuccessMeansReleased
<1>10. ASSUME NEW w \in Workers, RollBack(w) PROVE worker[w].pc = "killed"
  BY <1>10 DEF RollBack
<1> QED
  BY <1>1, <1>2, <1>3, <1>4, <1>5, <1>6, <1>7, <1>8, <1>9, <1>10, NextCases

(* The invariant holds in every reachable state. *)
THEOREM ReleaseInvariantHolds == Spec => []ReleaseInvariant
  BY InitInvariant, InvariantStep, PTL DEF Spec

(* Every variable of the release keeps to the values the code gives it. *)
THEOREM TypeCorrect == Spec => []TypeOK
<1>1. ReleaseInvariant => TypeOK
  BY DEF ReleaseInvariant
<1> QED
  BY <1>1, ReleaseInvariantHolds, PTL

(* A release answered with success, by whichever handler or pass and for    *)
(* whichever competing key, left the lease released, its sandbox gone and   *)
(* its allocation reclaimed.                                                *)
THEOREM SuccessMeansReleasedHolds == Spec => []SuccessMeansReleased
<1>1. ReleaseInvariant => SuccessMeansReleased
  BY DEF ReleaseInvariant
<1> QED
  BY <1>1, ReleaseInvariantHolds, PTL

-------------------------------------------------------------------------------
(* Every step is a step of the life of a lease, or none. *)
LEMMA LeaseLifeStep ==
  ASSUME ReleaseInvariant, [Next]_vars
  PROVE  [LL!Next]_<<lease, sandbox>>
<1> USE DEF ReleaseInvariant
<1>1. CASE SandboxLost
  BY <1>1 DEF SandboxLost, LL!Next, LL!SandboxEnds
<1>2. ASSUME NEW w \in Workers, BeginRelease(w)
      PROVE  [LL!Next]_<<lease, sandbox>>
  <2>1. /\ lease.state \in {"active", "release_pending"}
        /\ lease' = [lease EXCEPT !.state = "release_pending"] /\ sandbox' = sandbox
    BY <1>2 DEF BeginRelease, BegunRelease, LeaseIsReleasing
  <2>2. CASE lease.state = "active"
    BY <2>1, <2>2 DEF LL!Next, LL!BeginRelease
  <2>3. CASE lease.state = "release_pending"
    BY <2>1, <2>3 DEF TypeOK, Lease
  <2> QED
    BY <2>1, <2>2, <2>3
<1>3. ASSUME NEW w \in Workers, CompleteRelease(w)
      PROVE  LL!Next
  BY <1>3 DEF CompleteRelease, CompletedRelease, KilledUnderLock, LL!Next, LL!FinishRelease
<1>4. ASSUME NEW w \in Workers, Kill(w) \/ KillFails(w)
      PROVE  [LL!Next]_<<lease, sandbox>>
  BY <1>4 DEF Kill, KillFails, TypeOK, LL!Next, LL!SandboxEnds
<1>5. CASE UNCHANGED <<lease, sandbox>>
  BY <1>5
<1> QED
  BY <1>1, <1>2, <1>3, <1>4, <1>5, NextCases
  DEF Checkpoint, Retain, ClearReferences, Claim, TakeOver, AlreadyReleased, RollBack, Crash,
      TransactionRefused, TransactionFails, RecoverCommitOutcome, vars

(* The release protocol implements LeaseLife: a begun release is never      *)
(* undone, and a lease is released only when its sandbox is gone.           *)
THEOREM ImplementsLeaseLifeHolds == Spec => ImplementsLeaseLife
<1>1. Init => LL!Init
  BY DEF Init, LL!Init, NewLease, LL!NewLease
<1>2. ReleaseInvariant /\ [Next]_vars => [LL!Next]_<<lease, sandbox>>
  BY LeaseLifeStep
<1> QED
  BY <1>1, <1>2, ReleaseInvariantHolds, PTL DEF Spec, ImplementsLeaseLife, LL!Spec
===============================================================================
