------------------------- MODULE HostedRuntimeProofs -------------------------
(***************************************************************************)
(* Proofs about the hosted runtime of an owned thread (HostedRuntime), for  *)
(* any number of leases, checkpoints, entries, retries, failing calls and   *)
(* crashes: a patch the owner was told of is never lost again; in its first *)
(* life a pending runtime that still has its lease is not dropped; a        *)
(* finalization with a patch is not undone in the record; and the record's  *)
(* base keeps a root, as does its latest snapshot while the service would   *)
(* restore from it.                                                         *)
(***************************************************************************)
EXTENDS HostedRuntime, TLAPS

LeaseStates == {"none", "active", "lost", "release_pending", "released"}

LeaseRows ==
  [state : LeaseStates, n : 0..MaxSnapshot, final : Snapshots, heir : 0..MaxLease,
   rooted : BOOLEAN, asked : {"no", "open", "done"}]

Services ==
  [lease : [Leases -> LeaseRows],
   refs : [rev : Nat, want : [lease : 0..MaxLease, base : Snapshots, latest : Snapshots,
                              art : Snapshots],
           cleared : BOOLEAN, rooted : BOOLEAN],
   exported : SUBSET Snapshots]

CleanupPcs == {"cleanupRetain", "cleanupRelease", "settled", "unsettled"}
WaitingPcs == {"finalize", "checkpoint", "taken", "await"}
LockedPcs  == {"mark", "complete", "saveCheckpoint", "export", "savePatch", "retain",
               "saveRevision", "snapshot", "saveSnapshot", "retainSnapshot", "saveRetained",
               "unlock"}
StartupPcs == {"provision", "read", "reconnect", "reject", "restore", "boot", "commit", "persist"}

TaskLocals ==
  [pc : {"idle"} \cup CleanupPcs \cup WaitingPcs \cup LockedPcs \cup StartupPcs,
   e : 0..MaxEntry, val : Values, got : Nat,
   then : {"none", "finalized", "removed", "rolledback", "durable"}, permit : BOOLEAN]

Typed ==
  /\ svc \in Services
  /\ record \in Values /\ entry \in [Entries -> Values]
  /\ lock \in [Entries -> Tasks \cup {"free"}]
  /\ current \in 0..MaxEntry
  /\ task \in [Tasks -> TaskLocals]
  /\ announced \subseteq Snapshots

(* A task in a critical section of its entry's operation lock. *)
Locking(t) ==
  t.pc \in LockedPcs \/ (t.pc \in CleanupPcs /\ t.then \in {"finalized", "removed"})

(* A startup that has a value of its own, which is in no entry yet. *)
Building(t) ==
  t.pc \in {"boot", "commit", "persist"} \/ (t.pc \in CleanupPcs /\ t.then = "rolledback")

(* The completion checkpoint names its lease; only the first lease, the one *)
(* that has the runtime's base, can export; the first one is never an heir. *)
SoundService(s) ==
  /\ ~s.refs.cleared /\ (s.refs.rooted <=> s.refs.rev > 0)
  /\ s.refs.rev = 0 <=> s.refs.want.lease = 0
  /\ \A l \in Leases :
       /\ s.lease[l].heir # 1 /\ (s.lease[l].final # None => s.lease[l].final[1] = l)
       /\ s.lease[l].state = "none" => s.lease[l].final = None
  /\ \A p \in s.exported : p[1] = 1
  /\ s.refs.want.art # None => s.refs.want.art = s.lease[1].final /\ s.refs.want.lease = 1

(* A value of the runtime, wherever it is kept.  The revision is the fence: *)
(* a value that still passes it has the patch the service was told of, and  *)
(* it is not one of the first lease once a later lease was retained.        *)
Sound(s, v) ==
  /\ v.lease # 0 => v.base = <<1, 0>> /\ v.latest # None
  /\ v.art # None => v.lease = 1 /\ v.art = s.lease[1].final /\ v.state \in Finished
  /\ v.rev <= s.refs.rev
  /\ s.refs.want.art # None /\ v.rev = s.refs.rev => v.art # None
  /\ s.refs.want.lease > 1 /\ v.lease = 1 => v.rev < s.refs.rev

Got(t) == [t.val EXCEPT !.rev = t.got]

ValuesAreSound ==
  /\ SoundService(svc) /\ Sound(svc, record) /\ \A e \in Entries : Sound(svc, entry[e])
  /\ \A k \in Tasks :
       /\ Sound(svc, task[k].val)
       /\ task[k].pc \in {"cleanupRelease", "settled"} => Sound(svc, Got(task[k]))

(* A task that is in an entry's critical section holds the lock, and has    *)
(* the value of the entry but for what it is about to save.                 *)
HoldsEntry(values, holder, k, t) ==
  /\ t.pc \in WaitingPcs \/ Locking(t) => t.e # 0
  /\ t.e # 0 => values[t.e].lease # 0
  /\ Locking(t) =>
       /\ holder[t.e] = k /\ t.val.lease = values[t.e].lease
       /\ IF t.pc = "savePatch" THEN t.val.art # None ELSE t.val.art = values[t.e].art

(* What a task knows at each of its steps. *)
Advances(s, k, t) ==
  /\ t.pc = "mark" => t.val.state = "active"
  /\ t.pc \in {"complete", "saveCheckpoint", "export"} => t.val.state = "finalizing"
  /\ t.pc \in {"saveCheckpoint", "export"} =>
       t.val.latest = s.lease[t.val.lease].final /\ t.val.latest # None
  /\ t.pc \in {"retain", "saveRevision"} => t.val.art # None
  /\ t.pc = "saveRevision" => s.refs.want.art # None
  /\ t.pc \in CleanupPcs => t.then # "none"
  /\ t.pc \in {"idle"} \cup StartupPcs => t.e = 0 /\ t.then = "none"
  /\ t.pc \in StartupPcs \/ t.then \in {"rolledback", "durable"} => k = "startup" /\ t.e = 0
  /\ t.then = "durable" => t.val.art # None

TasksAreSound ==
  \A k \in Tasks : HoldsEntry(entry, lock, k, task[k]) /\ Advances(svc, k, task[k])

(* The first lease is provisioned before there is a record; a resume makes  *)
(* values of later leases, and retains them before it publishes them.       *)
Starts(s, rec, t) ==
  /\ t.pc = "provision" => rec.lease = 0 /\ s = NewService
  /\ t.pc \in {"read", "reconnect", "restore"} => rec.lease # 0
  /\ t.pc \in {"reconnect", "reject", "restore"} \/ Building(t) => t.val.lease # 0
  /\ t.pc \in {"reconnect", "restore"} \/ Building(t) => t.val.state \in {"active", "finalizing"}
  /\ Building(t) => s.lease[1].state # "none" /\ (t.val.lease = 1 => rec.lease = 0)
  /\ t.pc = "persist" /\ t.val.lease > 1 => s.refs.want.lease > 1
  /\ t.then = "durable" /\ s.refs.want.lease <= 1 => rec.art # None

(* The first lease is in one entry at most, and only with a record. *)
FirstLeaseIsOnce ==
  /\ \A e, f \in Entries : entry[e].lease = 1 /\ entry[f].lease = 1 => e = f
  /\ current # 0 => entry[current].lease # 0
  /\ record.lease = 0 => \A e \in Entries : entry[e].lease = 0
  /\ record.lease # 0 => svc.lease[1].state # "none"

(* Until a later lease is retained, the record and the entries are of the   *)
(* first one, and have its patch together.                                  *)
PatchIsKept ==
  svc.refs.want.lease <= 1 =>
    /\ record.lease <= 1
    /\ \A e \in Entries :
         /\ entry[e].lease <= 1
         /\ entry[e].lease = 1 => (entry[e].art # None <=> record.art # None)

(* The service has the patch only with the record, the owner only with both. *)
PatchIsAnnounced ==
  /\ svc.refs.want.art # None => record.art # None
  /\ announced # {} => svc.refs.want.art # None /\ announced = {svc.refs.want.art}

RuntimeInvariant ==
  /\ Typed /\ ValuesAreSound /\ TasksAreSound /\ Starts(svc, record, task["startup"])
  /\ FirstLeaseIsOnce /\ PatchIsKept /\ PatchIsAnnounced

----------
(* What a step of the service keeps for everybody. *)
Moves(s, t) ==
  /\ t \in Services /\ SoundService(t)
  /\ \A v \in Values : Sound(s, v) => Sound(t, v)
  /\ \A l \in Leases : s.lease[l].final # None => t.lease[l].final = s.lease[l].final
  /\ s.lease[1].state # "none" => t.lease[1].state # "none"
  /\ s.refs.want.lease > 1 => t.refs.want.lease > 1
  /\ s.refs.want.art # None => t.refs.want.art = s.refs.want.art

(* A step that leaves the reference set alone. *)
Quiet(s, t) ==
  /\ t \in Services /\ SoundService(t) /\ t.refs = s.refs
  /\ \A l \in Leases : s.lease[l].final # None => t.lease[l].final = s.lease[l].final
  /\ s.lease[1].state # "none" => t.lease[1].state # "none"

LEMMA FirstLease == 1 \in Leases /\ Leases \subseteq Nat
  BY ServiceAssumption DEF Leases

LEMMA QuietMoves ==
  ASSUME NEW s \in Services, NEW t, Quiet(s, t)
  PROVE  Moves(s, t)
  BY FirstLease DEF Quiet, Moves, Sound, Services

LEMMA StandingStill ==
  ASSUME NEW s \in Services, SoundService(s)
  PROVE  Quiet(s, s)
  BY DEF Quiet

(* A step that gives one lease another row. *)
LEMMA LeaseMoves ==
  ASSUME NEW s \in Services, SoundService(s), NEW l \in Leases, NEW r \in LeaseRows,
         s.lease[l].state # "none" => r.state # "none", r.heir # 1,
         r.state = "none" => r.final = None,
         r.final # None => r.final[1] = l,
         s.lease[l].final # None => r.final = s.lease[l].final
  PROVE  Quiet(s, [s EXCEPT !.lease[l] = r])
<1> DEFINE t == [s EXCEPT !.lease[l] = r]
<1>1. t \in Services /\ t.refs = s.refs /\ t.exported = s.exported
  BY DEF Services
<1>2. t.lease[l] = r /\ \A k \in Leases : k # l => t.lease[k] = s.lease[k]
  BY DEF Services
<1>3. SoundService(t)
  BY <1>1, <1>2, FirstLease DEF SoundService, Services
<1>4. s.lease[1].state # "none" => t.lease[1].state # "none"
  BY <1>2, FirstLease
<1> QED
  BY <1>1, <1>2, <1>3, <1>4 DEF Quiet

LEMMA QuietSteps ==
  ASSUME NEW s, NEW t, NEW u, Quiet(s, t), Quiet(t, u)
  PROVE  Quiet(s, u)
  BY DEF Quiet

(* A step that moves one column of one lease's row. *)
LEMMA ColumnMoves ==
  ASSUME NEW s \in Services, SoundService(s), NEW l \in Leases
  PROVE  /\ \A x \in LeaseStates \ {"none"} : Quiet(s, [s EXCEPT !.lease[l].state = x])
         /\ \A x \in {"no", "open", "done"} : Quiet(s, [s EXCEPT !.lease[l].asked = x])
         /\ \A x \in BOOLEAN : Quiet(s, [s EXCEPT !.lease[l].rooted = x])
         /\ \A x \in 0..MaxLease \ {1} : Quiet(s, [s EXCEPT !.lease[l].heir = x])
<1> DEFINE r == s.lease[l]
<1>1. /\ r \in LeaseRows /\ r.heir # 1 /\ (r.final # None => r.final[1] = l)
      /\ r.state = "none" => r.final = None
  BY DEF Services, SoundService
<1>2. ASSUME NEW q \in LeaseRows, q.heir # 1, q.final = r.final,
             q.state \in {r.state} \cup (LeaseStates \ {"none"})
      PROVE  Quiet(s, [s EXCEPT !.lease[l] = q])
  BY <1>1, <1>2, LeaseMoves
<1> HIDE DEF r
<1>3. ASSUME NEW x \in LeaseStates \ {"none"} PROVE Quiet(s, [s EXCEPT !.lease[l].state = x])
  <2>1. [r EXCEPT !.state = x] \in LeaseRows
    BY <1>1 DEF LeaseRows
  <2>2. Quiet(s, [s EXCEPT !.lease[l] = [r EXCEPT !.state = x]])
    BY <1>1, <1>2, <2>1 DEF LeaseRows
  <2> QED
    BY <2>2 DEF r
<1>4. ASSUME NEW x \in {"no", "open", "done"} PROVE Quiet(s, [s EXCEPT !.lease[l].asked = x])
  <2>1. [r EXCEPT !.asked = x] \in LeaseRows
    BY <1>1 DEF LeaseRows
  <2>2. Quiet(s, [s EXCEPT !.lease[l] = [r EXCEPT !.asked = x]])
    BY <1>1, <1>2, <2>1 DEF LeaseRows
  <2> QED
    BY <2>2 DEF r
<1>5. ASSUME NEW x \in BOOLEAN PROVE Quiet(s, [s EXCEPT !.lease[l].rooted = x])
  <2>1. [r EXCEPT !.rooted = x] \in LeaseRows
    BY <1>1 DEF LeaseRows
  <2>2. Quiet(s, [s EXCEPT !.lease[l] = [r EXCEPT !.rooted = x]])
    BY <1>1, <1>2, <2>1 DEF LeaseRows
  <2> QED
    BY <2>2 DEF r
<1>6. ASSUME NEW x \in 0..MaxLease \ {1} PROVE Quiet(s, [s EXCEPT !.lease[l].heir = x])
  <2>1. [r EXCEPT !.heir = x] \in LeaseRows
    BY <1>1 DEF LeaseRows
  <2>2. Quiet(s, [s EXCEPT !.lease[l] = [r EXCEPT !.heir = x]])
    BY <1>1, <1>2, <2>1 DEF LeaseRows
  <2> QED
    BY <2>2 DEF r
<1> QED
  BY <1>3, <1>4, <1>5, <1>6

LEMMA ReleaseMoves ==
  ASSUME NEW s \in Services, SoundService(s), NEW l \in Leases
  PROVE  /\ Quiet(s, Claimed(s, l)) /\ Quiet(s, Begun(s, l))
         /\ Quiet(s, Released(s, l)) /\ Quiet(s, Reconciled(s, l)) /\ Quiet(s, Lost(s, l))
<1>1. Quiet(s, s)
  BY StandingStill
<1>2. \A t : Quiet(s, t) => t \in Services /\ SoundService(t)
  BY DEF Quiet
<1>3. Quiet(s, Claimed(s, l))
  BY <1>1, ColumnMoves DEF Claimed
<1>4. Quiet(s, Begun(s, l))
  <2> DEFINE t == Claimed(s, l)
  <2>1. Quiet(t, [t EXCEPT !.lease[l].state = "release_pending"])
    BY <1>2, <1>3, ColumnMoves DEF LeaseStates
  <2>2. Quiet(s, [t EXCEPT !.lease[l].state = "release_pending"])
    BY <1>3, <2>1, QuietSteps
  <2> QED
    BY <1>1, <2>2 DEF Begun
<1>5. Quiet(s, Released(s, l))
  <2> DEFINE t == [s EXCEPT !.lease[l].state = "released"]
             u == [t EXCEPT !.lease[l].rooted = FALSE]
             w == [u EXCEPT !.lease[l].asked = "done"]
  <2>1. Quiet(s, t)
    BY ColumnMoves DEF LeaseStates
  <2> HIDE DEF t
  <2>2. Quiet(t, u)
    BY <1>2, <2>1, ColumnMoves
  <2>3. Quiet(s, u)
    BY <2>1, <2>2, QuietSteps
  <2> HIDE DEF u
  <2>4. Quiet(u, w)
    BY <1>2, <2>3, ColumnMoves
  <2>5. Quiet(s, w)
    BY <2>3, <2>4, QuietSteps
  <2> QED
    BY <1>1, <2>5 DEF Released, t, u
<1>6. Quiet(s, Reconciled(s, l))
  <2> DEFINE t == [s EXCEPT !.lease[l].state = "released"]
             u == [t EXCEPT !.lease[l].asked = "done"]
  <2>1. Quiet(s, t)
    BY ColumnMoves DEF LeaseStates
  <2> HIDE DEF t
  <2>2. Quiet(t, u)
    BY <1>2, <2>1, ColumnMoves
  <2>3. Quiet(s, u)
    BY <2>1, <2>2, QuietSteps
  <2> QED
    BY <2>3 DEF Reconciled, t
<1>7. Quiet(s, Lost(s, l))
  BY ColumnMoves DEF Lost, LeaseStates
<1> QED
  BY <1>3, <1>4, <1>5, <1>6, <1>7

LEMMA CheckpointMoves ==
  ASSUME NEW s \in Services, SoundService(s), NEW l \in Leases
  PROVE  /\ CanCheckpoint(s, l) =>
              /\ Quiet(s, Checkpointed(s, l))
              /\ Latest(Checkpointed(s, l), l) \in Snapshots \ {None}
         /\ CanComplete(s, l) =>
              /\ Quiet(s, CompletionOf(s, l))
              /\ CompletionOf(s, l).lease[l].final \in Snapshots \ {None}
<1> DEFINE r == s.lease[l]
           more == [r EXCEPT !.n = @ + 1]
           last == [more EXCEPT !.final = <<l, r.n + 1>>]
<1>1. /\ r \in LeaseRows /\ r.heir # 1 /\ (r.final # None => r.final[1] = l)
      /\ r.state = "none" => r.final = None
  BY DEF Services, SoundService
<1> HIDE DEF r
<1>2. ASSUME CanCheckpoint(s, l)
      PROVE  /\ r.n + 1 \in 0..MaxSnapshot /\ <<l, r.n + 1>> \in Snapshots
             /\ <<l, r.n + 1>> # None /\ <<l, r.n + 1>>[1] = l
  BY <1>1, <1>2, ServiceAssumption
     DEF CanCheckpoint, Snapshots, None, Leases, r, LeaseRows
<1>3. ASSUME CanCheckpoint(s, l)
      PROVE  Quiet(s, [s EXCEPT !.lease[l] = more])
  <2>1. /\ more \in LeaseRows
        /\ more.heir = r.heir /\ more.final = r.final /\ more.state = r.state
    BY <1>1, <1>2, <1>3 DEF LeaseRows
  <2> QED
    BY <1>1, <2>1, LeaseMoves DEF r, LeaseRows
<1>4. ASSUME CanCheckpoint(s, l), r.final = None
      PROVE  Quiet(s, [s EXCEPT !.lease[l] = last])
  <2>1. /\ last \in LeaseRows
        /\ last.heir = r.heir /\ last.final = <<l, r.n + 1>> /\ last.state = r.state
    BY <1>1, <1>2, <1>4 DEF LeaseRows
  <2> QED
    BY <1>1, <1>2, <1>4, <2>1, LeaseMoves DEF r, LeaseRows, CanCheckpoint, Active
<1>5. /\ Checkpointed(s, l) = [s EXCEPT !.lease[l] = more]
      /\ Latest(Checkpointed(s, l), l) = <<l, r.n + 1>>
  BY <1>1 DEF Checkpointed, Latest, r, Services
<1>6. /\ r.final # None => CompletionOf(s, l) = s
      /\ r.final = None => /\ CompletionOf(s, l) = [s EXCEPT !.lease[l] = last]
                           /\ CompletionOf(s, l).lease[l].final = <<l, r.n + 1>>
  BY <1>1, ZenonT(60) DEF CompletionOf, Checkpointed, r, Services, LeaseRows
<1>7. Quiet(s, s)
  BY StandingStill
<1> HIDE DEF more, last
<1> QED
  BY <1>1, <1>2, <1>3, <1>4, <1>5, <1>6, <1>7 DEF CanComplete, r, LeaseRows

LEMMA NewLeaseFacts ==
  /\ NoLease \in LeaseRows /\ NoLease.state = "none" /\ NoLease.heir = 0 /\ NoLease.final = None
  /\ NoLease.asked = "no"
  /\ NewLease \in LeaseRows /\ NewLease.state = "active" /\ NewLease.heir = 0
  /\ NewLease.final = None
<1>1. None \in Snapshots /\ 0 \in 0..MaxSnapshot /\ 0 \in 0..MaxLease
  BY ServiceAssumption DEF Snapshots
<1>2. /\ NoLease \in LeaseRows /\ NoLease.state = "none" /\ NoLease.heir = 0
      /\ NoLease.final = None /\ NoLease.asked = "no"
  BY <1>1 DEF NoLease, LeaseRows, LeaseStates
<1> QED
  BY <1>1, <1>2 DEF NewLease, LeaseRows, LeaseStates

LEMMA NewServiceFacts ==
  /\ NewService \in Services /\ SoundService(NewService)
  /\ NewService.refs.rev = 0 /\ NewService.refs.want.lease = 0
  /\ NewService.refs.want.art = None
<1>1. /\ NewService.lease = [l \in Leases |-> NoLease] /\ NewService.exported = {}
      /\ NewService.refs = References(0, NoWant)
  BY DEF NewService
<1>5. /\ References(0, NoWant).rev = 0 /\ References(0, NoWant).want = NoWant
      /\ References(0, NoWant).cleared = FALSE /\ References(0, NoWant).rooted = (0 > 0)
  BY Zenon DEF References
<1>2. None \in Snapshots /\ 0 \in 0..MaxLease
  BY ServiceAssumption DEF Snapshots
<1>3. NoWant \in [lease : 0..MaxLease, base : Snapshots, latest : Snapshots, art : Snapshots]
  BY <1>2 DEF NoWant
<1>4. NewService \in Services
  BY <1>3, NewLeaseFacts DEF NewService, References, Services
<1>6. \A l \in Leases : NewService.lease[l] = NoLease
  BY <1>1
<1>7. /\ NewService.refs.rev = 0 /\ NewService.refs.want.lease = 0
      /\ NewService.refs.want.art = None
  BY <1>1, <1>5 DEF NoWant
<1>8. ~NewService.refs.cleared /\ (NewService.refs.rooted <=> NewService.refs.rev > 0)
  BY <1>1, <1>5
<1> QED
  BY <1>1, <1>4, <1>6, <1>7, <1>8, NewLeaseFacts DEF SoundService

LEMMA ProvisionMoves ==
  /\ Quiet(NewService, Provisioned(NewService))
  /\ Provisioned(NewService).lease[1].state # "none"
<1> DEFINE s == NewService
<1>1. s.lease[1] = NoLease
  BY FirstLease DEF NewService
<1>2. Quiet(s, [s EXCEPT !.lease[1] = NewLease])
  BY <1>1, FirstLease, LeaseMoves, NewLeaseFacts, NewServiceFacts
<1>3. Provisioned(s) = [s EXCEPT !.lease[1] = NewLease]
  BY <1>1, NewLeaseFacts DEF Provisioned, Active
<1>4. Provisioned(s).lease[1] = NewLease
  BY <1>3, FirstLease, NewServiceFacts DEF Services
<1> QED
  BY <1>2, <1>3, <1>4, NewLeaseFacts

(* Only the first lease has the base of the runtime. *)
LEMMA ExportMoves ==
  ASSUME NEW s \in Services, SoundService(s), NEW l \in Leases, NEW p,
         p = s.lease[l].final, p # None, CanExport(s, l, <<1, 0>>, p)
  PROVE  l = 1 /\ Quiet(s, Exported(s, p))
<1>1. p \in Snapshots /\ p[1] = l
  BY DEF Services, SoundService, LeaseRows
<1>2. l = 1
  BY <1>1 DEF CanExport, SoundService
<1>3. /\ Exported(s, p) \in Services /\ Exported(s, p).refs = s.refs
      /\ Exported(s, p).lease = s.lease /\ Exported(s, p).exported = s.exported \cup {p}
  BY <1>1 DEF Exported, Services
<1>4. SoundService(Exported(s, p))
  BY <1>1, <1>2, <1>3 DEF SoundService
<1> QED
  BY <1>2, <1>3, <1>4 DEF Quiet

(* A restore makes an heir of a fresh lease, or finds it. *)
LEMMA RestoreMoves ==
  ASSUME NEW s \in Services, SoundService(s), s.lease[1].state # "none",
         NEW p \in Snapshots \ {None}, CanRestore(s, p)
  PROVE  Quiet(s, Restored(s, p)) /\ Heir(s, p) \in Leases \ {1}
<1> DEFINE q == p[1]
           h == Heir(s, p)
           made  == IF s.lease[q].heir # 0 THEN s ELSE [s EXCEPT !.lease[h] = NewLease]
           found == [made EXCEPT !.lease[q].heir = h]
           over  == [found EXCEPT !.lease[q].state = "released"]
<1>1. q \in Leases
  BY DEF Snapshots, None
<1>2. h \in Leases \ {1} /\ (s.lease[q].heir = 0 => s.lease[h].state = "none")
  <2>1. CASE s.lease[q].heir # 0
    <3>1. s.lease[q].heir \in 0..MaxLease /\ s.lease[q].heir # 1
      BY <1>1 DEF Services, SoundService, LeaseRows
    <3>2. h = s.lease[q].heir
      BY <2>1 DEF Heir
    <3> QED
      BY <2>1, <3>1, <3>2, ServiceAssumption DEF Leases
  <2>2. CASE s.lease[q].heir = 0
    BY <1>1, <2>2 DEF CanRestore, Heir, Fresh
  <2> QED
    BY <2>1, <2>2
<1>3. \A t : Quiet(s, t) => t \in Services /\ SoundService(t)
  BY DEF Quiet
<1> HIDE DEF q, h
<1>4. Quiet(s, made)
  <2>1. Quiet(s, s)
    BY StandingStill
  <2>2. s.lease[q].heir = 0 => s.lease[h].final = None
    BY <1>2 DEF SoundService
  <2>3. s.lease[q].heir = 0 => Quiet(s, [s EXCEPT !.lease[h] = NewLease])
    BY <1>2, <2>2, LeaseMoves, NewLeaseFacts
  <2> QED
    BY <2>1, <2>3
<1> HIDE DEF made
<1>5. Quiet(made, found)
  <2>1. h \in 0..MaxLease \ {1}
    BY <1>2, ServiceAssumption DEF Leases
  <2>2. made \in Services /\ SoundService(made)
    BY <1>3, <1>4
  <2> QED
    BY <1>1, <2>1, <2>2, ColumnMoves
<1>6. Quiet(s, found)
  BY <1>4, <1>5, QuietSteps
<1> HIDE DEF found
<1>7. Quiet(found, over)
  BY <1>1, <1>3, <1>6, ColumnMoves DEF LeaseStates
<1>8. Quiet(s, over)
  BY <1>6, <1>7, QuietSteps
<1>9. Restored(s, p) = over
  BY DEF Restored, over, found, made, q, h
<1> QED
  BY <1>2, <1>8, <1>9 DEF h

LEMMA RetainedRow ==
  ASSUME NEW W, NEW x \in [rev : Nat, want : W, cleared : BOOLEAN, rooted : BOOLEAN], NEW q \in W
  PROVE  /\ Retained(x, q) \in [rev : Nat, want : W, cleared : BOOLEAN, rooted : BOOLEAN]
         /\ Retained(x, q).want = q /\ Retained(x, q).rooted
         /\ Retained(x, q).cleared = x.cleared
         /\ Retained(x, q).rev = IF x.rev > 0 /\ x.want = q THEN x.rev ELSE x.rev + 1
<1> DEFINE n == IF x.rev > 0 /\ x.want = q THEN x.rev ELSE x.rev + 1
           a == [x EXCEPT !.rev = n]
           b == [a EXCEPT !.want = q]
           c == [b EXCEPT !.rooted = TRUE]
<1>1. n \in Nat
  OBVIOUS
<1>2. Retained(x, q) = c
  BY DEF Retained
<1> HIDE DEF n
<1>3. /\ a \in [rev : Nat, want : W, cleared : BOOLEAN, rooted : BOOLEAN]
      /\ a.rev = n /\ a.cleared = x.cleared
  BY <1>1
<1> HIDE DEF a
<1>4. /\ b \in [rev : Nat, want : W, cleared : BOOLEAN, rooted : BOOLEAN]
      /\ b.rev = n /\ b.cleared = x.cleared /\ b.want = q
  BY <1>3
<1> HIDE DEF b
<1>5. /\ c \in [rev : Nat, want : W, cleared : BOOLEAN, rooted : BOOLEAN]
      /\ c.rev = n /\ c.cleared = x.cleared /\ c.want = q /\ c.rooted = TRUE
  BY <1>4
<1> HIDE DEF c
<1> QED
  BY <1>2, <1>5 DEF n

(* A retain that is accepted: either nothing changes, or the revision moves *)
(* past everything that anybody else has, and the writer had the newest.    *)
LEMMA RetainMoves ==
  ASSUME NEW s \in Services, SoundService(s), NEW v \in Values, Sound(s, v), v.lease # 0,
         CanRetain(s, v), NEW t, t = AfterRetain(s, v)
  PROVE  /\ Moves(s, t) /\ t.refs.want = Want(v) /\ t.lease = s.lease
         /\ t.refs.rev \in Nat /\ Sound(t, [v EXCEPT !.rev = t.refs.rev])
         /\ v.lease = 1 => s.refs.want.lease <= 1
<1> DEFINE w == [v EXCEPT !.rev = t.refs.rev]
<1>1. /\ Want(v) \in [lease : 0..MaxLease, base : Snapshots, latest : Snapshots, art : Snapshots]
      /\ Want(v).lease = v.lease /\ Want(v).art = v.art
  BY DEF Want, Values
<1>2. /\ s.refs.rev \in Nat /\ s.refs.want.lease \in Nat /\ v.rev \in Nat /\ v.lease \in Nat
  BY ServiceAssumption DEF Services, Values
<1>3. /\ t \in Services /\ t.lease = s.lease /\ t.exported = s.exported
      /\ t.refs.want = Want(v) /\ t.refs.rooted /\ t.refs.cleared = s.refs.cleared
      /\ t.refs.rev = IF s.refs.rev > 0 /\ s.refs.want = Want(v) THEN s.refs.rev ELSE s.refs.rev + 1
  <2> DEFINE r == Retained(s.refs, Want(v))
             W == [lease : 0..MaxLease, base : Snapshots, latest : Snapshots, art : Snapshots]
  <2>1. Want(v) \in W /\ s.refs \in [rev : Nat, want : W, cleared : BOOLEAN, rooted : BOOLEAN]
    BY <1>1 DEF Services
  <2> HIDE DEF W
  <2>2. /\ r \in [rev : Nat, want : W, cleared : BOOLEAN, rooted : BOOLEAN]
        /\ r.want = Want(v) /\ r.rooted /\ r.cleared = s.refs.cleared
        /\ r.rev = IF s.refs.rev > 0 /\ s.refs.want = Want(v) THEN s.refs.rev ELSE s.refs.rev + 1
    BY <2>1, RetainedRow
  <2>3. t = [s EXCEPT !.refs = r]
    BY DEF AfterRetain
  <2> HIDE DEF r
  <2>4. t \in Services /\ t.refs = r /\ t.lease = s.lease /\ t.exported = s.exported
    BY <2>2, <2>3 DEF Services, W
  <2> QED
    BY <2>2, <2>4
<1>4. CASE s.refs.rev > 0 /\ s.refs.want = Want(v)
  <2>1. t.refs.rev = s.refs.rev /\ t.refs.want = s.refs.want
    BY <1>3, <1>4
  <2>2. SoundService(t)
    BY <1>2, <1>3, <1>4, <2>1 DEF SoundService
  <2>3. \A x \in Values : Sound(s, x) => Sound(t, x)
    BY <1>3, <2>1 DEF Sound
  <2>4. s.refs.want.lease > 1 => v.lease # 1
    BY <1>1, <1>4
  <2>5. Sound(t, w)
    BY <1>1, <1>2, <1>3, <1>4, <2>1 DEF Sound, Values
  <2> QED
    BY <1>2, <1>3, <2>1, <2>2, <2>3, <2>4, <2>5 DEF Moves
<1>5. CASE ~(s.refs.rev > 0 /\ s.refs.want = Want(v))
  <2>1. t.refs.rev = s.refs.rev + 1
    BY <1>3, <1>5
  <2>2. s.refs.rev > 0 => v.rev = s.refs.rev
    BY <1>2, <1>5 DEF CanRetain, RetainAccepted
  <2>3. /\ s.refs.want.art # None => v.art = s.refs.want.art
        /\ s.refs.want.lease > 1 => v.lease > 1
    BY <1>2, <2>2 DEF Sound, SoundService
  <2>4. SoundService(t)
    BY <1>1, <1>2, <1>3, <2>1 DEF SoundService, Sound
  <2>5. \A x \in Values : Sound(s, x) => Sound(t, x)
    <3> SUFFICES ASSUME NEW x \in Values, Sound(s, x) PROVE Sound(t, x)
      OBVIOUS
    <3>1. x.rev \in Nat /\ x.rev <= s.refs.rev
      BY DEF Sound, Values
    <3> QED
      BY <1>2, <1>3, <2>1, <3>1 DEF Sound
  <2>6. Sound(t, w)
    BY <1>1, <1>2, <1>3, <2>1 DEF Sound, Values
  <2> QED
    BY <1>1, <1>2, <1>3, <2>1, <2>3, <2>4, <2>5, <2>6 DEF Moves
<1> QED
  BY <1>4, <1>5

----------
(* Facts about the tasks. *)

LEMMA NoValueFacts ==
  /\ NoValue \in Values /\ NoValue.lease = 0 /\ NoValue.base = None /\ NoValue.latest = None
  /\ NoValue.art = None /\ NoValue.rev = 0 /\ NoValue.state = "active"
<1>1. None \in Snapshots /\ 0 \in 0..MaxLease
  BY ServiceAssumption DEF Snapshots
<1> QED
  BY <1>1 DEF NoValue, Values, States

LEMMA NoValueIsSound ==
  ASSUME NEW s \in Services, SoundService(s)
  PROVE  Sound(s, NoValue)
<1>1. s.refs.rev \in Nat
  BY DEF Services
<1> QED
  BY <1>1, NoValueFacts DEF Sound, SoundService

LEMMA IdleFacts ==
  /\ Idle \in TaskLocals /\ Idle.pc = "idle" /\ Idle.e = 0 /\ Idle.val = NoValue
  /\ Idle.then = "none"
  BY NoValueFacts, RuntimeAssumption DEF Idle, TaskLocals

LEMMA IdleIsSound ==
  ASSUME NEW values, NEW holder, NEW s, NEW rec, NEW k
  PROVE  /\ HoldsEntry(values, holder, k, Idle) /\ Advances(s, k, Idle) /\ Starts(s, rec, Idle)
         /\ ~Locking(Idle)
  BY IdleFacts
     DEF HoldsEntry, Advances, Starts, Locking, Building, WaitingPcs, LockedPcs,
         CleanupPcs, StartupPcs

(* A task in a critical section holds a runtime whose lease exists. *)
LEMMA LockedFacts ==
  ASSUME RuntimeInvariant, NEW k \in Tasks, Locking(task[k])
  PROVE  /\ task[k].e \in Entries /\ lock[task[k].e] = k
         /\ entry[task[k].e].lease # 0 /\ task[k].val.lease = entry[task[k].e].lease
         /\ task[k].val.lease \in Leases /\ Sound(svc, task[k].val) /\ task[k].val \in Values
         /\ record.lease # 0 /\ svc # NewService
<1>1. task[k] \in TaskLocals /\ HoldsEntry(entry, lock, k, task[k])
  BY DEF RuntimeInvariant, Typed, TasksAreSound
<1>2. task[k].e \in Entries
  BY <1>1, RuntimeAssumption DEF HoldsEntry, TaskLocals, Entries
<1>3. /\ lock[task[k].e] = k /\ entry[task[k].e].lease # 0
      /\ task[k].val.lease = entry[task[k].e].lease
  BY <1>1, <1>2 DEF HoldsEntry, Entries
<1>4. task[k].val \in Values /\ Sound(svc, task[k].val)
  BY <1>1 DEF TaskLocals, RuntimeInvariant, ValuesAreSound
<1>5. task[k].val.lease \in Leases
  BY <1>3, <1>4, ServiceAssumption DEF Values, Leases
<1>6. record.lease # 0 /\ svc.lease[1].state # "none"
  BY <1>2, <1>3 DEF RuntimeInvariant, FirstLeaseIsOnce
<1>7. svc # NewService
  BY <1>6, FirstLease, NewLeaseFacts DEF NewService
<1> QED
  BY <1>2, <1>3, <1>4, <1>5, <1>6, <1>7

(* A step of task k disturbs what the others hold only at entries it holds. *)
LEMMA Frame ==
  ASSUME RuntimeInvariant, NEW k \in Tasks, NEW t \in TaskLocals,
         task' = [task EXCEPT ![k] = t], Moves(svc, svc'),
         record' \in Values, Sound(svc', record'), current' \in 0..MaxEntry,
         announced' \subseteq Snapshots,
         entry' \in [Entries -> Values], \A e \in Entries : Sound(svc', entry'[e]),
         \A e \in Entries : entry[e].lease # 0 =>
           entry'[e].lease # 0 /\ (lock[e] # k => entry'[e] = entry[e]),
         lock' \in [Entries -> Tasks \cup {"free"}],
         \A e \in Entries : lock[e] \notin {k, "free"} => lock'[e] = lock[e],
         Sound(svc', t.val), t.pc \in {"cleanupRelease", "settled"} => Sound(svc', Got(t)),
         HoldsEntry(entry', lock', k, t), Advances(svc', k, t)
  PROVE  Typed' /\ ValuesAreSound' /\ TasksAreSound'
<1>1. /\ task \in [Tasks -> TaskLocals] /\ task'[k] = t
      /\ \A j \in Tasks \ {k} : task'[j] = task[j]
  BY DEF RuntimeInvariant, Typed
<1>2. Typed'
  BY <1>1 DEF Typed, Moves
<1>3. ASSUME NEW j \in Tasks \ {k}
      PROVE  /\ Sound(svc', task[j].val)
             /\ task[j].pc \in {"cleanupRelease", "settled"} => Sound(svc', Got(task[j]))
  <2>1. /\ Sound(svc, task[j].val)
        /\ task[j].pc \in {"cleanupRelease", "settled"} => Sound(svc, Got(task[j]))
    BY DEF RuntimeInvariant, ValuesAreSound
  <2>2. task[j].val \in Values /\ Got(task[j]) \in Values
    BY <1>1 DEF TaskLocals, Got, Values
  <2> QED
    BY <2>1, <2>2 DEF Moves
<1>4. ValuesAreSound'
  BY <1>1, <1>3 DEF ValuesAreSound, Moves
<1>5. ASSUME NEW j \in Tasks \ {k}
      PROVE  HoldsEntry(entry', lock', j, task[j])
  <2>1. HoldsEntry(entry, lock, j, task[j]) /\ task[j] \in TaskLocals
    BY DEF RuntimeInvariant, TasksAreSound, Typed
  <2>2. task[j].e # 0 => task[j].e \in Entries
    BY <2>1, RuntimeAssumption DEF TaskLocals, Entries
  <2>3. Locking(task[j]) => entry'[task[j].e] = entry[task[j].e] /\ lock'[task[j].e] = j
    BY <1>3, <2>1, <2>2 DEF HoldsEntry, Tasks
  <2> QED
    BY <2>1, <2>2, <2>3 DEF HoldsEntry
<1>6. ASSUME NEW j \in Tasks \ {k}
      PROVE  Advances(svc', j, task[j])
  <2>1. Advances(svc, j, task[j])
    BY DEF RuntimeInvariant, TasksAreSound
  <2>2. task[j].pc \in {"saveCheckpoint", "export"} => task[j].val.lease \in Leases
    BY LockedFacts DEF Locking, LockedPcs
  <2> QED
    BY <2>1, <2>2 DEF Advances, Moves
<1>7. TasksAreSound'
  BY <1>1, <1>5, <1>6 DEF TasksAreSound
<1> QED
  BY <1>2, <1>4, <1>7

(* A startup waits while another task steps. *)
LEMMA StartupWaits ==
  ASSUME RuntimeInvariant, Moves(svc, svc'), task'["startup"] = task["startup"],
         svc = NewService => svc' = svc, record.lease = 0 => record' = record,
         record.lease # 0 => record'.lease # 0,
         svc'.refs.want.lease <= 1 /\ record.art # None => record'.art # None
  PROVE  Starts(svc, record, task["startup"])'
<1>1. Starts(svc, record, task["startup"])
  BY DEF RuntimeInvariant
<1>2. svc'.refs.want.lease <= 1 => svc.refs.want.lease <= 1
  <2>1. svc.refs.want.lease \in Nat /\ svc'.refs.want.lease \in Nat
    BY ServiceAssumption DEF RuntimeInvariant, Typed, Services, Moves
  <2> QED
    BY <2>1 DEF Moves
<1> QED
  BY <1>1, <1>2 DEF Starts, Moves

(* A step of task k that saves nothing. *)
LEMMA CallKeeps ==
  ASSUME RuntimeInvariant, NEW k \in Tasks, NEW t \in TaskLocals,
         task' = [task EXCEPT ![k] = t], Moves(svc, svc'), UNCHANGED <<record, entry, announced>>,
         current' \in 0..MaxEntry, current' # 0 => entry[current'].lease # 0,
         lock' \in [Entries -> Tasks \cup {"free"}],
         \A e \in Entries : lock[e] \notin {k, "free"} => lock'[e] = lock[e],
         Sound(svc', t.val), t.pc \in {"cleanupRelease", "settled"} => Sound(svc', Got(t)),
         HoldsEntry(entry, lock', k, t), Advances(svc', k, t),
         IF k = "startup" THEN Starts(svc', record, t) ELSE svc = NewService => svc' = svc,
         svc'.refs.want.art # svc.refs.want.art => record.art # None
  PROVE  RuntimeInvariant'
<1>1. Typed /\ ValuesAreSound
  BY DEF RuntimeInvariant
<1>2. Typed' /\ ValuesAreSound' /\ TasksAreSound'
  <2>1. Sound(svc', record) /\ \A e \in Entries : Sound(svc', entry[e])
    BY <1>1 DEF Typed, ValuesAreSound, Moves
  <2> QED
    BY <1>1, <2>1, Frame DEF Typed
<1>3. Starts(svc, record, task["startup"])'
  <2>1. CASE k = "startup"
    BY <1>1, <2>1 DEF Typed
  <2>2. CASE k # "startup"
    <3>1. task'["startup"] = task["startup"]
      BY <1>1, <2>2 DEF Typed, Tasks
    <3> QED
      BY <2>2, <3>1, StartupWaits
  <2> QED
    BY <2>1, <2>2
<1>4. FirstLeaseIsOnce'
  BY DEF RuntimeInvariant, FirstLeaseIsOnce, Moves
<1>5. PatchIsKept'
  <2>1. svc.refs.want.lease \in Nat /\ svc'.refs.want.lease \in Nat
    BY <1>1, ServiceAssumption DEF Typed, Services, Moves
  <2> QED
    BY <2>1 DEF RuntimeInvariant, PatchIsKept, Moves
<1>6. PatchIsAnnounced'
  BY DEF RuntimeInvariant, PatchIsAnnounced, Moves
<1> QED
  BY <1>2, <1>3, <1>4, <1>5, <1>6 DEF RuntimeInvariant

(* A task that ends, whatever its last call did. *)
LEMMA EndKeeps ==
  ASSUME RuntimeInvariant, NEW k \in Tasks, Moves(svc, svc'),
         UNCHANGED <<record, entry, announced>>, End(k), current' \in {0, current},
         svc = NewService => svc' = svc \/ k = "startup",
         svc'.refs.want.art # svc.refs.want.art => record.art # None
  PROVE  RuntimeInvariant'
<1>1. Typed /\ FirstLeaseIsOnce
  BY DEF RuntimeInvariant
<1>2. Sound(svc', Idle.val) /\ Idle.pc \notin {"cleanupRelease", "settled"}
  BY IdleFacts, NoValueIsSound DEF Moves
<1>3. /\ task' = [task EXCEPT ![k] = Idle] /\ lock' \in [Entries -> Tasks \cup {"free"}]
      /\ \A e \in Entries : lock[e] \notin {k, "free"} => lock'[e] = lock[e]
  BY <1>1 DEF End, Typed
<1>4. current' \in 0..MaxEntry /\ (current' # 0 => entry[current'].lease # 0)
  BY <1>1, RuntimeAssumption DEF Typed, FirstLeaseIsOnce
<1>5. /\ HoldsEntry(entry, lock', k, Idle) /\ Advances(svc', k, Idle)
      /\ Starts(svc', record, Idle)
  BY IdleIsSound
<1> QED
  BY <1>2, <1>3, <1>4, <1>5, IdleFacts, CallKeeps

(* A task in a critical section saves a value of its entry: in the record,  *)
(* in the entry, or in both when it has the patch that the entry lacks.     *)
LEMMA SaveKeeps ==
  ASSUME RuntimeInvariant, NEW k \in Tasks, NEW t \in TaskLocals, Locking(task[k]),
         NEW v \in Values, Sound(svc, v), v.lease = entry[task[k].e].lease,
         \/ v.art = entry[task[k].e].art
         \/ v.art # None /\ record' = v /\ entry' = [entry EXCEPT ![task[k].e] = v],
         record' \in {record, v}, entry' \in {entry, [entry EXCEPT ![task[k].e] = v]},
         announced' = announced
           \/ (svc.refs.want.art # None /\ v.art # None /\ announced' = announced \cup {v.art}),
         task' = [task EXCEPT ![k] = t], svc' = svc,
         current' \in {0, task[k].e, current},
         lock' \in [Entries -> Tasks \cup {"free"}],
         \A f \in Entries : lock[f] \notin {k, "free"} => lock'[f] = lock[f],
         Sound(svc, t.val), t.pc \in {"cleanupRelease", "settled"} => Sound(svc, Got(t)),
         HoldsEntry(entry', lock', k, t), Advances(svc, k, t), k = "startup" => Starts(svc, record', t)
  PROVE  RuntimeInvariant'
<1> DEFINE e == task[k].e
<1>1. /\ Typed /\ ValuesAreSound /\ FirstLeaseIsOnce /\ PatchIsKept /\ PatchIsAnnounced
      /\ SoundService(svc)
  BY DEF RuntimeInvariant, ValuesAreSound
<1>2. /\ e \in Entries /\ lock[e] = k /\ entry[e].lease # 0 /\ record.lease # 0 /\ svc # NewService
      /\ v.lease \in Leases
  BY LockedFacts
<1>3. Moves(svc, svc')
  BY <1>1, StandingStill, QuietMoves DEF Typed
<1>4. /\ entry'[e] \in {entry[e], v} /\ \A f \in Entries \ {e} : entry'[f] = entry[f]
      /\ entry' \in [Entries -> Values] /\ record' \in Values
      /\ \A f \in Entries : entry'[f].lease = entry[f].lease
  BY <1>1, <1>2 DEF Typed
<1>5. Sound(svc, record') /\ \A f \in Entries : Sound(svc, entry'[f])
  BY <1>1, <1>4 DEF ValuesAreSound
<1>6. current' \in 0..MaxEntry /\ (current' # 0 => entry'[current'].lease # 0)
  BY <1>1, <1>2, <1>4, RuntimeAssumption DEF Typed, FirstLeaseIsOnce, Entries
<1>7. announced' \subseteq Snapshots
  BY <1>1 DEF Typed, Values
<1>8. Typed' /\ ValuesAreSound' /\ TasksAreSound'
  BY <1>2, <1>3, <1>4, <1>5, <1>6, <1>7, Frame, ZenonT(60)
<1>9. record'.lease # 0
  BY <1>2 DEF Leases
<1>10. FirstLeaseIsOnce'
  BY <1>1, <1>2, <1>4, <1>6, <1>9 DEF FirstLeaseIsOnce
<1>11. ASSUME svc.refs.want.lease <= 1
       PROVE  /\ v.lease = 1 /\ entry[e].lease = 1 /\ (record.art # None => record'.art # None)
              /\ \A f \in Entries \ {e} : entry[f].lease # 1
              /\ entry'[e].art # None <=> record'.art # None
  <2>1. v.lease = 1 /\ entry[e].lease = 1 /\ (entry[e].art # None <=> record.art # None)
    BY <1>1, <1>2, <1>11, ServiceAssumption DEF PatchIsKept, Leases
  <2>2. \A f \in Entries \ {e} : entry[f].lease # 1
    BY <1>1, <1>2, <2>1 DEF FirstLeaseIsOnce
  <2>3. entry'[e].art # None <=> record'.art # None
    BY <1>1, <1>2, <1>4, <2>1 DEF Typed
  <2> QED
    BY <2>1, <2>2, <2>3
<1>12. PatchIsKept'
  <2>1. svc.refs.want.lease <= 1 => record'.lease <= 1
    BY <1>1, <1>11 DEF PatchIsKept
  <2> QED
    BY <1>1, <1>4, <1>11, <2>1 DEF PatchIsKept
<1>13. PatchIsAnnounced'
  <2>1. svc.refs.want.art # None => svc.refs.want.lease <= 1 /\ svc.refs.want.art = svc.lease[1].final
    BY <1>1 DEF SoundService
  <2>2. svc.refs.want.art # None /\ v.art # None => v.art = svc.refs.want.art
    BY <2>1 DEF Sound
  <2> QED
    BY <1>1, <1>11, <2>1, <2>2 DEF PatchIsAnnounced
<1>14. Starts(svc, record, task["startup"])'
  <2>1. CASE k = "startup"
    BY <1>1, <2>1 DEF Typed
  <2>2. CASE k # "startup"
    <3>1. task'["startup"] = task["startup"]
      BY <1>1, <2>2 DEF Typed, Tasks
    <3> QED
      BY <1>2, <1>3, <1>9, <1>11, <3>1, StartupWaits
  <2> QED
    BY <2>1, <2>2
<1> QED
  BY <1>8, <1>10, <1>12, <1>13, <1>14 DEF RuntimeInvariant

----------
(* The steps of the tasks. *)

Moved(t, pc, v) == [t EXCEPT !.pc = pc, !.val = v]

AllPcs == {"idle"} \cup CleanupPcs \cup WaitingPcs \cup LockedPcs \cup StartupPcs

LEMMA MovedFacts ==
  ASSUME NEW t \in TaskLocals, NEW pc \in AllPcs, NEW v \in Values
  PROVE  /\ Moved(t, pc, v) \in TaskLocals
         /\ Moved(t, pc, v).pc = pc /\ Moved(t, pc, v).val = v
         /\ Moved(t, pc, v).e = t.e /\ Moved(t, pc, v).then = t.then
         /\ Moved(t, pc, v).got = t.got /\ Moved(t, pc, v).permit = t.permit
  BY DEF Moved, TaskLocals, AllPcs

LEMMA WithFacts ==
  ASSUME RuntimeInvariant, NEW k \in Tasks, NEW pc \in AllPcs, NEW v \in Values, With(k, pc, v)
  PROVE  task' = [task EXCEPT ![k] = Moved(task[k], pc, v)]
<1>1. task \in [Tasks -> TaskLocals]
  BY DEF RuntimeInvariant, Typed
<1> QED
  BY <1>1 DEF With, Moved, TaskLocals

LEMMA LockedPcFacts ==
  /\ LockedPcs \cap StartupPcs = {} /\ LockedPcs \cap CleanupPcs = {} /\ LockedPcs \cap WaitingPcs = {}
  /\ "startup" \in Tasks /\ "cleanup" \in Tasks /\ "turn" \in Tasks
  BY DEF LockedPcs, StartupPcs, CleanupPcs, WaitingPcs, Tasks

(* A task in its critical section leaves nothing to say about the startup. *)
LEMMA LockedStarts ==
  ASSUME NEW s, NEW rec, NEW t, t.pc \in LockedPcs, t.then # "durable"
  PROVE  Starts(s, rec, t)
  BY DEF Starts, Building, LockedPcs, CleanupPcs

LEMMA LockedThen ==
  ASSUME RuntimeInvariant, NEW k \in Tasks, Locking(task[k])
  PROVE  task[k].then \notin {"rolledback", "durable"}
<1>1. Advances(svc, k, task[k]) /\ HoldsEntry(entry, lock, k, task[k])
  BY DEF RuntimeInvariant, TasksAreSound
<1> QED
  BY <1>1 DEF Advances, HoldsEntry

LEMMA PersistKeeps ==
  ASSUME RuntimeInvariant, NEW k \in Tasks, NEW pc \in LockedPcs, NEW v \in Values,
         NEW next \in LockedPcs \ {"savePatch"}, PersistStep(k, pc, v, next), Sound(svc, v),
         v.lease = task[k].val.lease, v.art = entry[task[k].e].art \/ v.art # None,
         Advances(svc, k, Moved(task[k], next, v))
  PROVE  RuntimeInvariant'
<1> DEFINE e == task[k].e
           t == Moved(task[k], next, v)
<1>1. Typed /\ ValuesAreSound /\ SoundService(svc) /\ svc' = svc /\ announced' = announced
  BY DEF RuntimeInvariant, ValuesAreSound, PersistStep, others
<1>2. Locking(task[k])
  BY DEF PersistStep, At, Locking
<1>3. /\ e \in Entries /\ lock[e] = k /\ entry[e].lease # 0 /\ v.lease = entry[e].lease
      /\ svc # NewService
  BY <1>2, LockedFacts
<1>4. Moves(svc, svc')
  BY <1>1, StandingStill, QuietMoves DEF Typed
<1>5. CASE /\ Persisted(v) /\ entry' = [entry EXCEPT ![e] = v]
           /\ With(k, next, v) /\ UNCHANGED <<lock, current>>
  <2>0. next \in AllPcs /\ task[k] \in TaskLocals
    BY <1>1 DEF AllPcs, Typed
  <2>1. /\ t \in TaskLocals /\ task' = [task EXCEPT ![k] = t]
        /\ t.pc = next /\ t.val = v /\ t.e = e /\ t.then = task[k].then
    BY <1>5, <2>0, WithFacts, MovedFacts
  <2> HIDE DEF t
  <2>2. entry'[e] = v
    BY <1>1, <1>3, <1>5 DEF Typed
  <2>3. HoldsEntry(entry', lock', k, t)
    BY <1>3, <1>5, <2>1, <2>2 DEF HoldsEntry, Entries
  <2>4. Starts(svc, record', t)
    BY <1>2, <2>1, LockedThen, LockedStarts
  <2>5. t.pc \notin {"cleanupRelease", "settled"}
    BY <2>1 DEF LockedPcs
  <2> QED
    <3>1. Advances(svc, k, t)
      BY DEF t
    <3>2. /\ lock' \in [Entries -> Tasks \cup {"free"}] /\ lock' = lock /\ current' = current
          /\ record' = v /\ entry' = [entry EXCEPT ![task[k].e] = v]
      BY <1>1, <1>5 DEF Persisted, Typed
    <3> QED
      BY <1>1, <1>2, <1>3, <2>1, <2>3, <2>4, <2>5, <3>1, <3>2, SaveKeeps
<1>6. CASE PersistFails /\ UNCHANGED entry /\ Return(k)
  BY <1>1, <1>4, <1>6, EndKeeps DEF PersistFails, Return, Dropped
<1> QED
  BY <1>5, <1>6 DEF PersistStep

(* What the current value of a task is worth. *)
LEMMA ValueFacts ==
  ASSUME RuntimeInvariant, NEW k \in Tasks
  PROVE  /\ svc \in Services /\ SoundService(svc) /\ task[k] \in TaskLocals
         /\ task[k].val \in Values /\ Sound(svc, task[k].val)
         /\ HoldsEntry(entry, lock, k, task[k]) /\ Advances(svc, k, task[k])
<1>1. task[k] \in TaskLocals
  BY DEF RuntimeInvariant, Typed
<1> QED
  BY <1>1 DEF RuntimeInvariant, Typed, ValuesAreSound, TasksAreSound, TaskLocals

LEMMA MarkPendingKeeps ==
  ASSUME RuntimeInvariant, NEW k \in Tasks, MarkPending(k)
  PROVE  RuntimeInvariant'
<1> DEFINE v == [Val(k) EXCEPT !.state = "finalizing"]
           t == Moved(task[k], "complete", v)
<1>1. /\ task[k].val \in Values /\ Sound(svc, task[k].val) /\ task[k] \in TaskLocals
      /\ HoldsEntry(entry, lock, k, task[k]) /\ Advances(svc, k, task[k])
  BY ValueFacts
<1>2. task[k].pc = "mark" /\ Locking(task[k])
  BY DEF MarkPending, PersistStep, At, Locking, LockedPcs
<1>3. task[k].val.state = "active" /\ task[k].val.art = None /\ entry[task[k].e].art = None
  BY <1>1, <1>2 DEF Advances, HoldsEntry, Sound, Finished
<1>4. /\ v \in Values /\ v.lease = task[k].val.lease /\ v.art = None /\ v.rev = task[k].val.rev
      /\ v.base = task[k].val.base /\ v.latest = task[k].val.latest /\ v.state = "finalizing"
  BY <1>1, <1>3 DEF Val, Values, States
<1>5. Sound(svc, v)
  BY <1>1, <1>3, <1>4 DEF Sound
<1> HIDE DEF v
<1>6. t.pc = "complete" /\ t.val = v /\ t.then = task[k].then
  BY <1>1, <1>4, MovedFacts DEF AllPcs, LockedPcs
<1> HIDE DEF t
<1>7. Advances(svc, k, t)
  BY <1>2, <1>4, <1>6, LockedThen DEF Advances, CleanupPcs, StartupPcs
<1>8. PersistStep(k, "mark", v, "complete")
  BY DEF MarkPending, v
<1> QED
  BY <1>3, <1>4, <1>5, <1>7, <1>8, PersistKeeps DEF LockedPcs, t

LEMMA SaveCompletionKeeps ==
  ASSUME RuntimeInvariant, NEW k \in Tasks, SaveCompletion(k)
  PROVE  RuntimeInvariant'
<1> DEFINE t == Moved(task[k], "export", Val(k))
<1>1. /\ task[k].val \in Values /\ Sound(svc, task[k].val) /\ task[k] \in TaskLocals
      /\ HoldsEntry(entry, lock, k, task[k]) /\ Advances(svc, k, task[k])
  BY ValueFacts
<1>2. task[k].pc = "saveCheckpoint" /\ Locking(task[k])
  BY DEF SaveCompletion, PersistStep, At, Locking, LockedPcs
<1>3. t.pc = "export" /\ t.val = task[k].val /\ t.then = task[k].then
  BY <1>1, MovedFacts DEF AllPcs, LockedPcs, Val
<1> HIDE DEF t
<1>4. Advances(svc, k, t)
  BY <1>1, <1>2, <1>3, LockedThen DEF Advances, CleanupPcs, StartupPcs
<1>5. task[k].val.art = entry[task[k].e].art
  BY <1>1, <1>2 DEF HoldsEntry
<1> QED
  BY <1>1, <1>4, <1>5, PersistKeeps DEF SaveCompletion, LockedPcs, t, Val

LEMMA SavePatchKeeps ==
  ASSUME RuntimeInvariant, NEW k \in Tasks, SavePatch(k)
  PROVE  RuntimeInvariant'
<1> DEFINE t == Moved(task[k], "retain", Val(k))
<1>1. /\ task[k].val \in Values /\ Sound(svc, task[k].val) /\ task[k] \in TaskLocals
      /\ HoldsEntry(entry, lock, k, task[k]) /\ Advances(svc, k, task[k])
  BY ValueFacts
<1>2. task[k].pc = "savePatch" /\ Locking(task[k])
  BY DEF SavePatch, PersistStep, At, Locking, LockedPcs
<1>3. t.pc = "retain" /\ t.val = task[k].val /\ t.then = task[k].then
  BY <1>1, MovedFacts DEF AllPcs, LockedPcs, Val
<1> HIDE DEF t
<1>4. task[k].val.art # None
  BY <1>1, <1>2 DEF HoldsEntry
<1>5. Advances(svc, k, t)
  BY <1>2, <1>3, <1>4, LockedThen DEF Advances, CleanupPcs, StartupPcs
<1> QED
  BY <1>1, <1>4, <1>5, PersistKeeps DEF SavePatch, LockedPcs, t, Val

(* A call in the critical section that was answered. *)
LEMMA LockedReply ==
  ASSUME RuntimeInvariant, NEW k \in Tasks, task[k].pc \in LockedPcs \ {"savePatch"},
         NEW next \in LockedPcs, NEW v \in Values, With(k, next, v), Moves(svc, svc'),
         UNCHANGED <<record, entry, announced, lock, current>>, Sound(svc', v),
         v.lease = task[k].val.lease,
         IF next = "savePatch" THEN v.art # None ELSE v.art = task[k].val.art,
         Advances(svc', k, Moved(task[k], next, v)),
         svc'.refs.want.art # svc.refs.want.art => record.art # None
  PROVE  RuntimeInvariant'
<1> DEFINE t == Moved(task[k], next, v)
<1>1. Typed /\ FirstLeaseIsOnce /\ task[k] \in TaskLocals /\ HoldsEntry(entry, lock, k, task[k])
  BY ValueFacts DEF RuntimeInvariant
<1>2. Locking(task[k])
  BY DEF Locking
<1>3. /\ t \in TaskLocals /\ task' = [task EXCEPT ![k] = t]
      /\ t.pc = next /\ t.val = v /\ t.e = task[k].e /\ t.then = task[k].then
  BY <1>1, WithFacts, MovedFacts DEF AllPcs
<1>4. svc # NewService /\ task[k].e \in Entries
  BY <1>2, LockedFacts
<1>5. Advances(svc', k, t)
  OBVIOUS
<1> HIDE DEF t
<1>6. HoldsEntry(entry, lock', k, t)
  BY <1>1, <1>2, <1>3 DEF HoldsEntry
<1>7. Starts(svc', record, t)
  BY <1>2, <1>3, LockedThen, LockedStarts
<1>8. t.pc \notin {"cleanupRelease", "settled"}
  BY <1>3 DEF LockedPcs
<1>9. current' \in 0..MaxEntry /\ (current' # 0 => entry[current'].lease # 0)
  BY <1>1 DEF Typed, FirstLeaseIsOnce
<1>10. lock' \in [Entries -> Tasks \cup {"free"}]
  BY <1>1 DEF Typed
<1> QED
  BY <1>3, <1>4, <1>5, <1>6, <1>7, <1>8, <1>9, <1>10, CallKeeps

(* A call in the critical section that was not. *)
LEMMA LockedError ==
  ASSUME RuntimeInvariant, NEW k \in Tasks, task[k].pc \in LockedPcs, Moves(svc, svc'),
         UNCHANGED <<record, entry, announced>>, Return(k),
         svc'.refs.want.art # svc.refs.want.art => record.art # None
  PROVE  RuntimeInvariant'
<1>1. svc # NewService
  BY LockedFacts DEF Locking
<1> QED
  BY <1>1, EndKeeps DEF Return, Dropped

LEMMA CompletionCheckpointKeeps ==
  ASSUME RuntimeInvariant, NEW k \in Tasks, CompletionCheckpoint(k)
  PROVE  RuntimeInvariant'
<1> DEFINE l == task[k].val.lease
           s == CompletionOf(svc, l)
           v == [task[k].val EXCEPT !.latest = s.lease[l].final]
           t == Moved(task[k], "saveCheckpoint", v)
<1>1. /\ task[k].val \in Values /\ Sound(svc, task[k].val) /\ task[k] \in TaskLocals
      /\ HoldsEntry(entry, lock, k, task[k]) /\ Advances(svc, k, task[k])
      /\ svc \in Services /\ SoundService(svc)
  BY ValueFacts
<1>2. task[k].pc = "complete" /\ task[k].pc \in LockedPcs \ {"savePatch"} /\ Locking(task[k])
  BY DEF CompletionCheckpoint, CallStep, At, Locking, LockedPcs
<1>3. l \in Leases
  BY <1>2, LockedFacts
<1>4. CanComplete(svc, l) => Quiet(svc, s) /\ s.lease[l].final \in Snapshots \ {None}
  BY <1>1, <1>3, CheckpointMoves
<1>5. svc' = svc \/ (CanComplete(svc, l) /\ svc' = s)
  BY DEF CompletionCheckpoint, CallStep, Replies, Errs, Val
<1>6. Quiet(svc, svc')
  BY <1>1, <1>4, <1>5, StandingStill
<1>7. Moves(svc, svc') /\ svc'.refs = svc.refs
  BY <1>1, <1>6, QuietMoves DEF Quiet
<1>8. CASE /\ CanComplete(svc, l) /\ svc' = s /\ With(k, "saveCheckpoint", v)
           /\ UNCHANGED <<record, entry, announced, lock, current>>
  <2>1. /\ v \in Values /\ v.latest = svc'.lease[l].final /\ v.latest # None
        /\ v.lease = task[k].val.lease /\ v.base = task[k].val.base /\ v.art = task[k].val.art
        /\ v.rev = task[k].val.rev /\ v.state = task[k].val.state
    BY <1>1, <1>4, <1>8 DEF Values
  <2>2. Sound(svc', task[k].val)
    BY <1>1, <1>7 DEF Moves
  <2> HIDE DEF v
  <2>3. Sound(svc', v)
    BY <2>1, <2>2 DEF Sound
  <2>4. t.pc = "saveCheckpoint" /\ t.val = v /\ t.then = task[k].then
    BY <1>1, <2>1, MovedFacts DEF AllPcs, LockedPcs
  <2> HIDE DEF t
  <2>5. Advances(svc', k, t)
    BY <1>1, <1>2, <2>1, <2>4, LockedThen DEF Advances, CleanupPcs, StartupPcs
  <2> QED
    BY <1>2, <1>7, <1>8, <2>1, <2>3, <2>5, LockedReply DEF t, LockedPcs
<1>9. CASE UNCHANGED <<record, entry, announced>> /\ Return(k)
  BY <1>2, <1>7, <1>9, LockedError
<1> QED
  BY <1>8, <1>9 DEF CompletionCheckpoint, CallStep, Replies, Errs, Val

LEMMA ExportPatchKeeps ==
  ASSUME RuntimeInvariant, NEW k \in Tasks, ExportPatch(k)
  PROVE  RuntimeInvariant'
<1> DEFINE x == task[k].val
           s == Exported(svc, x.latest)
           v == [x EXCEPT !.art = x.latest, !.state = "completed"]
           t == Moved(task[k], "savePatch", v)
           can == CanExport(svc, x.lease, x.base, x.latest) /\ ExportKey(x.latest) \notin refused
<1>1. /\ x \in Values /\ Sound(svc, x) /\ task[k] \in TaskLocals
      /\ HoldsEntry(entry, lock, k, task[k]) /\ Advances(svc, k, task[k])
      /\ svc \in Services /\ SoundService(svc)
  BY ValueFacts
<1>2. task[k].pc = "export" /\ task[k].pc \in LockedPcs \ {"savePatch"} /\ Locking(task[k])
  BY DEF ExportPatch, CallStep, At, Locking, LockedPcs
<1>3. x.lease \in Leases /\ x.latest = svc.lease[x.lease].final /\ x.latest # None
  BY <1>1, <1>2, LockedFacts DEF Advances
<1>4. x.base = <<1, 0>>
  BY <1>1, <1>3, FirstLease DEF Sound, Leases
<1> HIDE DEF x
<1>5. can => x.lease = 1 /\ Quiet(svc, s)
  BY <1>1, <1>3, <1>4, ExportMoves
<1>6. svc' = svc \/ (can /\ svc' = s)
  BY DEF ExportPatch, CallStep, Replies, Errs, Val, x
<1>7. Quiet(svc, svc')
  BY <1>1, <1>5, <1>6, StandingStill
<1>8. Moves(svc, svc') /\ svc'.refs = svc.refs
  BY <1>1, <1>7, QuietMoves DEF Quiet
<1>9. CASE /\ can /\ svc' = s /\ With(k, "savePatch", v)
           /\ UNCHANGED <<record, entry, announced, lock, current>>
  <2>1. /\ v \in Values /\ v.latest = x.latest /\ v.lease = x.lease /\ v.base = x.base
        /\ v.art = x.latest /\ v.rev = x.rev /\ v.state = "completed"
    BY <1>1 DEF Values, States
  <2>2. Sound(svc', x) /\ svc'.lease = svc.lease
    BY <1>1, <1>8, <1>9 DEF Moves, Exported, Services
  <2> HIDE DEF v
  <2>3. Sound(svc', v)
    BY <1>3, <1>5, <1>9, <2>1, <2>2 DEF Sound, Finished
  <2>4. t.pc = "savePatch" /\ t.val = v /\ t.then = task[k].then
    <3>1. "savePatch" \in AllPcs
      BY DEF AllPcs, LockedPcs
    <3>2. v \in Values /\ task[k] \in TaskLocals
      BY <1>1, <2>1
    <3> QED
      BY <3>1, <3>2, MovedFacts
  <2> HIDE DEF t
  <2>5. Advances(svc', k, t)
    BY <1>1, <1>2, <2>4, LockedThen DEF Advances, CleanupPcs, StartupPcs
  <2> QED
    BY <1>2, <1>3, <1>8, <1>9, <2>1, <2>3, <2>5, LockedReply DEF t, LockedPcs, x
<1>10. CASE UNCHANGED <<record, entry, announced>> /\ Return(k)
  BY <1>2, <1>8, <1>10, LockedError
<1> QED
  BY <1>9, <1>10 DEF ExportPatch, CallStep, Replies, Errs, Val, x

(* A retain in the critical section tells the service of a patch only when  *)
(* the record has it.                                                       *)
LEMMA LockedRetain ==
  ASSUME RuntimeInvariant, NEW k \in Tasks, Locking(task[k]), task[k].pc # "savePatch",
         CanRetain(svc, task[k].val)
  PROVE  /\ Moves(svc, AfterRetain(svc, task[k].val))
         /\ AfterRetain(svc, task[k].val).refs.want.art = task[k].val.art
         /\ AfterRetain(svc, task[k].val).refs.rev \in Nat
         /\ Sound(AfterRetain(svc, task[k].val),
                  [task[k].val EXCEPT !.rev = AfterRetain(svc, task[k].val).refs.rev])
         /\ AfterRetain(svc, task[k].val).refs.want.art # svc.refs.want.art => record.art # None
<1> DEFINE x == task[k].val
           s == AfterRetain(svc, x)
<1>1. /\ x \in Values /\ Sound(svc, x) /\ HoldsEntry(entry, lock, k, task[k])
      /\ svc \in Services /\ SoundService(svc)
  BY ValueFacts
<1>2. task[k].e \in Entries /\ x.lease = entry[task[k].e].lease /\ x.lease # 0
  BY LockedFacts
<1> HIDE DEF s
<1>3. /\ Moves(svc, s) /\ s.refs.want = Want(x) /\ s.refs.rev \in Nat
      /\ Sound(s, [x EXCEPT !.rev = s.refs.rev]) /\ (x.lease = 1 => svc.refs.want.lease <= 1)
  BY <1>1, <1>2, RetainMoves DEF s
<1>4. s.refs.want.art = x.art
  BY <1>3 DEF Want
<1>5. ASSUME s.refs.want.art # svc.refs.want.art PROVE record.art # None
  <2>1. x.art # None
    BY <1>3, <1>4, <1>5 DEF Moves
  <2>2. x.lease = 1 /\ x.art = entry[task[k].e].art
    BY <1>1, <2>1 DEF Sound, HoldsEntry
  <2> QED
    BY <1>2, <1>3, <2>1, <2>2 DEF RuntimeInvariant, PatchIsKept
<1> QED
  BY <1>3, <1>4, <1>5 DEF s

(* The two retains of a critical section that save the new revision. *)
LEMMA RetainKeeps ==
  ASSUME RuntimeInvariant, NEW k \in Tasks, NEW pc, NEW next,
         \/ pc = "retain" /\ next = "saveRevision"
         \/ pc = "retainSnapshot" /\ next = "saveRetained",
         CallStep(k, pc, CanRetain(svc, task[k].val), AfterRetain(svc, task[k].val),
                  [task[k].val EXCEPT !.rev = AfterRetain(svc, task[k].val).refs.rev], next)
  PROVE  RuntimeInvariant'
<1> DEFINE x == task[k].val
           s == AfterRetain(svc, x)
           v == [x EXCEPT !.rev = s.refs.rev]
           t == Moved(task[k], next, v)
           can == CanRetain(svc, x)
<1>1. /\ x \in Values /\ Sound(svc, x) /\ task[k] \in TaskLocals
      /\ HoldsEntry(entry, lock, k, task[k]) /\ Advances(svc, k, task[k])
      /\ svc \in Services /\ SoundService(svc)
  BY ValueFacts
<1>2. /\ task[k].pc = pc /\ pc \in LockedPcs \ {"savePatch"} /\ next \in LockedPcs \ {"savePatch"}
      /\ Locking(task[k])
  BY DEF CallStep, At, Locking, LockedPcs
<1>3. svc' = svc \/ (can /\ svc' = s)
  BY DEF CallStep, Replies, Errs
<1>4. /\ \/ /\ can /\ svc' = s /\ With(k, next, v)
            /\ UNCHANGED <<record, entry, announced, lock, current>>
         \/ UNCHANGED <<record, entry, announced>> /\ Return(k)
  BY DEF CallStep, Replies, Errs
<1> HIDE DEF s, can
<1>5. can => /\ Moves(svc, s) /\ s.refs.want.art = x.art /\ s.refs.rev \in Nat /\ Sound(s, v)
             /\ s.refs.want.art # svc.refs.want.art => record.art # None
  BY <1>2, LockedRetain DEF s, can
<1>6. Moves(svc, svc') /\ (svc'.refs.want.art # svc.refs.want.art => record.art # None)
  BY <1>1, <1>3, <1>5, StandingStill, QuietMoves
<1>7. CASE /\ can /\ svc' = s /\ With(k, next, v)
           /\ UNCHANGED <<record, entry, announced, lock, current>>
  <2>1. v \in Values /\ v.lease = x.lease /\ v.art = x.art
    BY <1>1, <1>5, <1>7 DEF Values
  <2> HIDE DEF v
  <2>2. t.pc = next /\ t.val = v /\ t.then = task[k].then
    BY <1>1, <1>2, <2>1, MovedFacts DEF AllPcs
  <2> HIDE DEF t
  <2>3. Advances(svc', k, t)
    BY <1>1, <1>2, <1>5, <1>7, <2>1, <2>2, LockedThen DEF Advances, CleanupPcs, StartupPcs
  <2> QED
    BY <1>2, <1>5, <1>6, <1>7, <2>1, <2>3, LockedReply DEF t
<1>8. CASE UNCHANGED <<record, entry, announced>> /\ Return(k)
  BY <1>2, <1>6, <1>8, LockedError
<1> QED
  BY <1>4, <1>7, <1>8

LEMMA RetainPatchKeeps ==
  ASSUME RuntimeInvariant, NEW k \in Tasks, RetainPatch(k)
  PROVE  RuntimeInvariant'
  BY RetainKeeps DEF RetainPatch, Val

LEMMA CheckpointRetainKeeps ==
  ASSUME RuntimeInvariant, CheckpointRetain
  PROVE  RuntimeInvariant'
  BY RetainKeeps, LockedPcFacts DEF CheckpointRetain, Val

LEMMA EntryThen ==
  ASSUME RuntimeInvariant, NEW k \in Tasks, task[k].pc \in WaitingPcs
  PROVE  /\ task[k].e \in Entries /\ task[k].then \notin {"rolledback", "durable"}
         /\ entry[task[k].e].lease # 0
<1>1. task[k] \in TaskLocals /\ Advances(svc, k, task[k]) /\ HoldsEntry(entry, lock, k, task[k])
  BY ValueFacts
<1>2. task[k].e # 0
  BY <1>1 DEF HoldsEntry
<1>3. task[k].e \in Entries
  BY <1>1, <1>2, RuntimeAssumption DEF TaskLocals, Entries
<1> QED
  BY <1>1, <1>2, <1>3 DEF Advances, HoldsEntry

(* A step that calls and saves nothing, and holds no other locks. *)
LEMMA StillKeeps ==
  ASSUME RuntimeInvariant, NEW k \in Tasks, NEW t \in TaskLocals,
         task' = [task EXCEPT ![k] = t], UNCHANGED <<svc, record, entry, announced, lock>>,
         current' \in 0..MaxEntry, current' # 0 => entry[current'].lease # 0,
         Sound(svc, t.val), t.pc \in {"cleanupRelease", "settled"} => Sound(svc, Got(t)),
         HoldsEntry(entry, lock, k, t), Advances(svc, k, t),
         k = "startup" => Starts(svc, record, t)
  PROVE  RuntimeInvariant'
<1>1. Typed /\ SoundService(svc)
  BY DEF RuntimeInvariant, ValuesAreSound
<1>2. Moves(svc, svc')
  BY <1>1, StandingStill, QuietMoves DEF Typed
<1>3. lock' \in [Entries -> Tasks \cup {"free"}]
  BY <1>1 DEF Typed
<1> QED
  BY <1>2, <1>3, CallKeeps

(* A task that stops waiting without a lock. *)
LEMMA StopKeeps ==
  ASSUME RuntimeInvariant, NEW k \in Tasks, task' = [task EXCEPT ![k] = Idle],
         UNCHANGED <<svc, record, entry, announced, lock>>,
         current' \in 0..MaxEntry, current' # 0 => entry[current'].lease # 0
  PROVE  RuntimeInvariant'
<1>1. svc \in Services /\ SoundService(svc)
  BY ValueFacts
<1>2. Sound(svc, Idle.val) /\ Idle.pc \notin {"cleanupRelease", "settled"}
  BY <1>1, IdleFacts, NoValueIsSound
<1> QED
  BY <1>2, IdleFacts, IdleIsSound, StillKeeps

LEMMA CurrentFacts ==
  ASSUME RuntimeInvariant
  PROVE  /\ current \in 0..MaxEntry /\ 0 \in 0..MaxEntry
         /\ current # 0 => entry[current].lease # 0 /\ current \in Entries
  BY RuntimeAssumption DEF RuntimeInvariant, Typed, FirstLeaseIsOnce, Entries

(* A task that gets the lock it waits for reads the entry's value. *)
LEMMA LockKeeps ==
  ASSUME RuntimeInvariant, NEW k \in Tasks, NEW t \in TaskLocals, task[k].pc \in WaitingPcs,
         lock[task[k].e] = "free", lock' = [lock EXCEPT ![task[k].e] = k],
         task' = [task EXCEPT ![k] = t], UNCHANGED <<svc, record, entry, announced, current>>,
         t.e = task[k].e, t.val = entry[task[k].e],
         t.pc \notin {"savePatch", "cleanupRelease", "settled"}, Advances(svc, k, t),
         k = "startup" => Starts(svc, record, t)
  PROVE  RuntimeInvariant'
<1> DEFINE e == task[k].e
<1>1. Typed /\ ValuesAreSound /\ SoundService(svc) /\ FirstLeaseIsOnce
  BY DEF RuntimeInvariant, ValuesAreSound
<1>2. Moves(svc, svc')
  BY <1>1, StandingStill, QuietMoves DEF Typed
<1>3. e \in Entries /\ entry[e].lease # 0
  BY EntryThen
<1>4. /\ lock' \in [Entries -> Tasks \cup {"free"}] /\ lock'[e] = k
      /\ \A f \in Entries \ {e} : lock'[f] = lock[f]
  BY <1>1, <1>3 DEF Typed
<1>5. HoldsEntry(entry, lock', k, t)
  BY <1>3, <1>4 DEF HoldsEntry, Entries
<1>6. Sound(svc, t.val)
  BY <1>1, <1>3 DEF ValuesAreSound
<1>7. current' \in 0..MaxEntry /\ (current' # 0 => entry[current'].lease # 0)
  BY CurrentFacts
<1> QED
  BY <1>2, <1>4, <1>5, <1>6, <1>7, CallKeeps

LEMMA FinalizeBeginKeeps ==
  ASSUME RuntimeInvariant, NEW k \in Tasks, FinalizeBegin(k)
  PROVE  RuntimeInvariant'
<1> DEFINE v == entry[task[k].e]
           pc == CASE v.state = "active" -> "mark"
                   [] v.state = "finalizing" -> "complete"
                   [] OTHER -> "retain"
           t == Moved(task[k], pc, v)
<1>1. task[k].pc = "finalize" /\ task[k].pc \in WaitingPcs /\ lock[task[k].e] = "free"
  BY DEF FinalizeBegin, At, WaitingPcs
<1>2. task[k] \in TaskLocals /\ entry \in [Entries -> Values]
  BY ValueFacts DEF RuntimeInvariant, Typed
<1>3. task[k].e \in Entries /\ task[k].then \notin {"rolledback", "durable"} /\ v \in Values
  BY <1>1, <1>2, EntryThen
<1>4. CASE Over(v)
  BY <1>4, StopKeeps, CurrentFacts DEF FinalizeBegin, Value, Dropped, others
<1>5. CASE ~Over(v)
  <2>1. /\ lock' = [lock EXCEPT ![task[k].e] = k] /\ With(k, pc, v)
        /\ UNCHANGED <<svc, record, entry, announced, current>>
    BY <1>5 DEF FinalizeBegin, Value, others
  <2>2. /\ pc \in {"mark", "complete", "retain"} /\ (pc = "mark" => v.state = "active")
        /\ pc = "complete" => v.state = "finalizing"
        /\ pc = "retain" => v.art # None
    BY <1>5 DEF Over
  <2> HIDE DEF pc
  <2>3. pc \in LockedPcs /\ pc \in AllPcs
    BY <2>2 DEF LockedPcs, AllPcs
  <2>4. /\ t \in TaskLocals /\ task' = [task EXCEPT ![k] = t]
        /\ t.pc = pc /\ t.val = v /\ t.e = task[k].e /\ t.then = task[k].then
    BY <1>2, <1>3, <2>1, <2>3, WithFacts, MovedFacts
  <2> HIDE DEF t
  <2>5. Advances(svc, k, t)
    BY <1>3, <2>2, <2>4 DEF Advances, CleanupPcs, StartupPcs
  <2>6. Starts(svc, record, t)
    BY <1>3, <2>3, <2>4, LockedStarts
  <2>7. t.pc \notin {"savePatch", "cleanupRelease", "settled"}
    BY <2>2, <2>4
  <2> QED
    BY <1>1, <2>1, <2>4, <2>5, <2>6, <2>7, LockKeeps
<1> QED
  BY <1>4, <1>5

LEMMA CheckpointBeginKeeps ==
  ASSUME RuntimeInvariant, CheckpointBegin
  PROVE  RuntimeInvariant'
<1> DEFINE k == "turn"
           v == entry[task[k].e]
           t == Moved(task[k], "snapshot", v)
<1>1. /\ k \in Tasks /\ task[k].pc \in WaitingPcs /\ lock[task[k].e] = "free"
      /\ "snapshot" \in AllPcs
  BY DEF CheckpointBegin, At, WaitingPcs, Tasks, AllPcs, LockedPcs
<1>2. /\ lock' = [lock EXCEPT ![task[k].e] = k] /\ With(k, "snapshot", v) /\ k # "startup"
      /\ UNCHANGED <<svc, record, entry, announced, current>>
  BY DEF CheckpointBegin, Value, others
<1> HIDE DEF k
<1>3. task[k] \in TaskLocals /\ entry \in [Entries -> Values]
  BY <1>1, ValueFacts DEF RuntimeInvariant, Typed
<1>4. task[k].e \in Entries /\ task[k].then \notin {"rolledback", "durable"} /\ v \in Values
  BY <1>1, <1>3, EntryThen
<1>5. /\ t \in TaskLocals /\ task' = [task EXCEPT ![k] = t]
      /\ t.pc = "snapshot" /\ t.val = v /\ t.e = task[k].e /\ t.then = task[k].then
  BY <1>1, <1>2, <1>3, <1>4, WithFacts, MovedFacts
<1> HIDE DEF t
<1>6. Advances(svc, k, t)
  BY <1>4, <1>5 DEF Advances, CleanupPcs, StartupPcs
<1> QED
  BY <1>1, <1>2, <1>5, <1>6, LockKeeps

LEMMA CheckpointCallKeeps ==
  ASSUME RuntimeInvariant, CheckpointCall
  PROVE  RuntimeInvariant'
<1> DEFINE k == "turn"
           x == task[k].val
           l == x.lease
           s == Checkpointed(svc, l)
           v == [x EXCEPT !.latest = Latest(s, l)]
           t == Moved(task[k], "saveSnapshot", v)
<1>0. k \in Tasks
  BY DEF Tasks
<1>1. /\ x \in Values /\ Sound(svc, x) /\ task[k] \in TaskLocals
      /\ svc \in Services /\ SoundService(svc)
  BY <1>0, ValueFacts
<1>2. task[k].pc \in LockedPcs \ {"savePatch"} /\ Locking(task[k]) /\ "saveSnapshot" \in LockedPcs
  BY DEF CheckpointCall, CallStep, At, Locking, LockedPcs
<1>3. l \in Leases
  BY <1>0, <1>2, LockedFacts
<1>4. CanCheckpoint(svc, l) => Quiet(svc, s) /\ Latest(s, l) \in Snapshots \ {None}
  BY <1>1, <1>3, CheckpointMoves
<1>5. svc' = svc \/ (CanCheckpoint(svc, l) /\ svc' = s)
  BY DEF CheckpointCall, CallStep, Replies, Errs, Val
<1>6. \/ /\ CanCheckpoint(svc, l) /\ svc' = s /\ With(k, "saveSnapshot", v)
         /\ UNCHANGED <<record, entry, announced, lock, current>>
      \/ UNCHANGED <<record, entry, announced>> /\ Return(k)
  BY DEF CheckpointCall, CallStep, Replies, Errs, Val
<1> HIDE DEF k
<1>7. Quiet(svc, svc')
  BY <1>1, <1>4, <1>5, StandingStill
<1>8. Moves(svc, svc') /\ svc'.refs = svc.refs
  BY <1>1, <1>7, QuietMoves DEF Quiet
<1>9. CASE /\ CanCheckpoint(svc, l) /\ svc' = s /\ With(k, "saveSnapshot", v)
           /\ UNCHANGED <<record, entry, announced, lock, current>>
  <2>1. /\ v \in Values /\ v.latest # None
        /\ v.lease = x.lease /\ v.base = x.base /\ v.art = x.art
        /\ v.rev = x.rev /\ v.state = x.state
    BY <1>1, <1>4, <1>9 DEF Values
  <2>2. Sound(svc', x)
    BY <1>1, <1>8 DEF Moves
  <2> HIDE DEF v
  <2>3. Sound(svc', v)
    BY <2>1, <2>2 DEF Sound
  <2>4. t.pc = "saveSnapshot" /\ t.val = v /\ t.then = task[k].then
    BY <1>1, <1>2, <2>1, MovedFacts DEF AllPcs
  <2> HIDE DEF t
  <2>5. Advances(svc', k, t)
    BY <1>0, <1>2, <2>4, LockedThen DEF Advances, CleanupPcs, StartupPcs
  <2> QED
    BY <1>0, <1>2, <1>8, <1>9, <2>1, <2>3, <2>5, LockedReply DEF t
<1>10. CASE UNCHANGED <<record, entry, announced>> /\ Return(k)
  BY <1>0, <1>2, <1>8, <1>10, LockedError
<1> QED
  BY <1>6, <1>9, <1>10

(* The two saves of a checkpoint. *)
LEMMA CheckpointSaveKeeps ==
  ASSUME RuntimeInvariant, CheckpointSaveSnapshot \/ CheckpointSaveRevision
  PROVE  RuntimeInvariant'
<1> DEFINE k == "turn"
           x == task[k].val
<1>1. \E pc \in {"saveSnapshot", "saveRetained"}, next \in {"retainSnapshot", "unlock"} :
        PersistStep(k, pc, x, next)
  BY DEF CheckpointSaveSnapshot, CheckpointSaveRevision, Val
<1>2. PICK pc \in {"saveSnapshot", "saveRetained"}, next \in {"retainSnapshot", "unlock"} :
        PersistStep(k, pc, x, next)
  BY <1>1
<1> DEFINE t == Moved(task[k], next, x)
<1>0. k \in Tasks
  BY DEF Tasks
<1> HIDE DEF k
<1>3. /\ x \in Values /\ Sound(svc, x) /\ task[k] \in TaskLocals
      /\ HoldsEntry(entry, lock, k, task[k])
  BY <1>0, ValueFacts
<1>4. /\ task[k].pc = pc /\ pc \in LockedPcs \ {"savePatch"} /\ Locking(task[k])
      /\ next \in LockedPcs \ {"savePatch"}
  BY <1>2 DEF PersistStep, At, Locking, LockedPcs
<1>5. t.pc = next /\ t.val = x /\ t.then = task[k].then
  BY <1>3, <1>4, MovedFacts DEF AllPcs
<1> HIDE DEF t
<1>6. Advances(svc, k, t)
  BY <1>0, <1>4, <1>5, LockedThen DEF Advances, CleanupPcs, StartupPcs
<1>7. x.art = entry[task[k].e].art
  BY <1>3, <1>4 DEF HoldsEntry
<1> QED
  BY <1>0, <1>2, <1>3, <1>4, <1>6, <1>7, PersistKeeps DEF t

LEMMA CheckpointEndKeeps ==
  ASSUME RuntimeInvariant, CheckpointEnd
  PROVE  RuntimeInvariant'
<1>1. svc \in Services /\ SoundService(svc) /\ "turn" \in Tasks
  BY ValueFacts, LockedPcFacts
<1>2. Moves(svc, svc)
  BY <1>1, StandingStill, QuietMoves
<1> QED
  BY <1>1, <1>2, EndKeeps DEF CheckpointEnd, others

----------
(* The outcome of a finalization, and the cleanup that every caller shares. *)

Cleaning(t, then, v) == [t EXCEPT !.pc = "cleanupRetain", !.val = v, !.then = then]
Went(t, pc)          == [t EXCEPT !.pc = pc]
Answered(t, n)       == [t EXCEPT !.pc = "cleanupRelease", !.got = n]

Callers == {"finalized", "removed", "rolledback", "durable"}

LEMMA CleaningFacts ==
  ASSUME NEW t \in TaskLocals, NEW v \in Values,
         NEW then \in Callers
  PROVE  /\ Cleaning(t, then, v) \in TaskLocals
         /\ Cleaning(t, then, v).pc = "cleanupRetain" /\ Cleaning(t, then, v).val = v
         /\ Cleaning(t, then, v).e = t.e /\ Cleaning(t, then, v).then = then
  BY DEF Cleaning, TaskLocals, CleanupPcs, Callers

LEMMA WentFacts ==
  ASSUME NEW t \in TaskLocals, NEW pc \in AllPcs
  PROVE  /\ Went(t, pc) \in TaskLocals
         /\ Went(t, pc).pc = pc /\ Went(t, pc).val = t.val /\ Went(t, pc).e = t.e
         /\ Went(t, pc).then = t.then /\ Went(t, pc).got = t.got
  BY DEF Went, TaskLocals, AllPcs

LEMMA AnsweredFacts ==
  ASSUME NEW t \in TaskLocals, NEW n \in Nat
  PROVE  /\ Answered(t, n) \in TaskLocals
         /\ Answered(t, n).pc = "cleanupRelease" /\ Answered(t, n).val = t.val
         /\ Answered(t, n).e = t.e /\ Answered(t, n).then = t.then /\ Answered(t, n).got = n
  BY DEF Answered, TaskLocals, CleanupPcs

LEMMA TaskUpdates ==
  ASSUME RuntimeInvariant, NEW k \in Tasks
  PROVE  /\ \A then, v : Cleanup(k, then, v) => task' = [task EXCEPT ![k] = Cleaning(task[k], then, v)]
         /\ \A pc : Go(k, pc) => task' = [task EXCEPT ![k] = Went(task[k], pc)]
         /\ \A n : [task EXCEPT ![k].pc = "cleanupRelease", ![k].got = n]
                     = [task EXCEPT ![k] = Answered(task[k], n)]
<1>1. task \in [Tasks -> TaskLocals]
  BY DEF RuntimeInvariant, Typed
<1> QED
  BY <1>1 DEF Cleanup, Go, Cleaning, Went, Answered, TaskLocals

LEMMA AnnouncePatchKeeps ==
  ASSUME RuntimeInvariant, NEW k \in Tasks, AnnouncePatch(k)
  PROVE  RuntimeInvariant'
<1> DEFINE v == task[k].val
           e == task[k].e
           t == Cleaning(task[k], "finalized", v)
<1>1. /\ v \in Values /\ Sound(svc, v) /\ task[k] \in TaskLocals
      /\ HoldsEntry(entry, lock, k, task[k]) /\ Advances(svc, k, task[k])
      /\ svc \in Services /\ SoundService(svc)
  BY ValueFacts
<1>2. task[k].pc = "saveRevision" /\ task[k].pc \in LockedPcs /\ Locking(task[k]) /\ svc' = svc
  BY DEF AnnouncePatch, At, Locking, LockedPcs
<1>3. /\ v.art # None /\ svc.refs.want.art # None /\ v.art = entry[e].art
      /\ v.lease = entry[e].lease /\ lock[e] = k /\ e \in Entries
  BY <1>1, <1>2, LockedFacts DEF Advances, HoldsEntry
<1>4. Moves(svc, svc')
  BY <1>1, <1>2, StandingStill, QuietMoves
<1>5. CASE /\ \/ UNCHANGED <<record, entry>>
              \/ Persisted(v) /\ entry' = [entry EXCEPT ![e] = v]
           /\ announced' = announced \cup {v.art}
           /\ Cleanup(k, "finalized", v) /\ UNCHANGED <<lock, current>>
  <2>1. t \in TaskLocals /\ t.pc = "cleanupRetain" /\ t.val = v /\ t.e = e /\ t.then = "finalized"
    <3>1. /\ task[k] \in TaskLocals /\ v \in Values
          /\ "finalized" \in Callers
      BY <1>1 DEF Callers
    <3> HIDE DEF v
    <3> QED
      BY <3>1, CleaningFacts
  <2>2. task' = [task EXCEPT ![k] = t]
    BY <1>5, TaskUpdates
  <2> HIDE DEF t
  <2>3. /\ record' \in {record, v} /\ entry' \in {entry, [entry EXCEPT ![e] = v]}
        /\ entry'[e].lease = v.lease /\ entry'[e].art = v.art /\ entry'[e].lease # 0
    BY <1>2, <1>3, <1>5, LockedFacts DEF Persisted, RuntimeInvariant, Typed
  <2>4. HoldsEntry(entry', lock', k, t)
    BY <1>3, <1>5, <2>1, <2>3 DEF HoldsEntry, Entries
  <2>5. Advances(svc, k, t)
    BY <2>1 DEF Advances, StartupPcs, CleanupPcs
  <2>6. Starts(svc, record', t)
    BY <2>1 DEF Starts, Building
  <2>7. lock' \in [Entries -> Tasks \cup {"free"}] /\ lock' = lock /\ current' = current
    BY <1>5 DEF RuntimeInvariant, Typed
  <2>8. announced' = announced \cup {v.art}
    BY <1>5
  <2> QED
    BY <1>1, <1>2, <1>3, <2>1, <2>2, <2>3, <2>4, <2>5, <2>6, <2>7, <2>8, SaveKeeps
<1>6. CASE UNCHANGED <<record, entry, announced>> /\ Return(k)
  BY <1>2, <1>4, <1>6, LockedError
<1> QED
  BY <1>5, <1>6 DEF AnnouncePatch, Val, PersistFails

(* A task that saves the outcome of its cleanup and ends. *)
LEMMA SettleKeeps ==
  ASSUME RuntimeInvariant, NEW k \in Tasks, Locking(task[k]), task[k].pc # "savePatch",
         NEW v \in Values, Sound(svc, v), v.lease = task[k].val.lease, v.art = task[k].val.art,
         record' \in {record, v}, entry' \in {entry, [entry EXCEPT ![task[k].e] = v]},
         current' \in {0, task[k].e, current}, End(k), UNCHANGED <<svc, announced>>
  PROVE  RuntimeInvariant'
<1>1. HoldsEntry(entry, lock, k, task[k]) /\ svc \in Services /\ SoundService(svc)
  BY ValueFacts
<1>2. v.lease = entry[task[k].e].lease /\ v.art = entry[task[k].e].art
  BY <1>1 DEF HoldsEntry
<1>3. Sound(svc, Idle.val) /\ Idle.pc \notin {"cleanupRelease", "settled"}
  BY <1>1, IdleFacts, NoValueIsSound
<1>4. /\ task' = [task EXCEPT ![k] = Idle] /\ lock' \in [Entries -> Tasks \cup {"free"}]
      /\ \A e \in Entries : lock[e] \notin {k, "free"} => lock'[e] = lock[e]
  BY DEF End, RuntimeInvariant, Typed
<1>5. /\ HoldsEntry(entry', lock', k, Idle) /\ Advances(svc, k, Idle) /\ Starts(svc, record', Idle)
  BY IdleIsSound
<1> QED
  BY <1>2, <1>3, <1>4, <1>5, IdleFacts, SaveKeeps

(* The values that record the outcome of a cleanup. *)
LEMMA Outcomes ==
  ASSUME RuntimeInvariant, NEW k \in Tasks, NEW v,
         \/ v = [task[k].val EXCEPT !.state = "releasing"]
         \/ /\ task[k].pc = "settled"
            /\ v \in {[task[k].val EXCEPT !.state = x, !.rev = task[k].got] :
                        x \in {"released", "releasing"}}
  PROVE  v \in Values /\ Sound(svc, v) /\ v.lease = task[k].val.lease /\ v.art = task[k].val.art
<1>1. /\ task[k] \in TaskLocals /\ task[k].val \in Values /\ Sound(svc, task[k].val)
      /\ task[k].got \in Nat
  BY ValueFacts DEF TaskLocals
<1>2. CASE v = [task[k].val EXCEPT !.state = "releasing"]
  <2>1. /\ v \in Values /\ v.lease = task[k].val.lease /\ v.art = task[k].val.art
        /\ v.base = task[k].val.base /\ v.latest = task[k].val.latest
        /\ v.rev = task[k].val.rev /\ v.state = "releasing"
    BY <1>1, <1>2 DEF Values, States
  <2> QED
    BY <1>1, <2>1 DEF Sound, Finished
<1>3. CASE /\ task[k].pc = "settled"
           /\ v \in {[task[k].val EXCEPT !.state = x, !.rev = task[k].got] :
                       x \in {"released", "releasing"}}
  <2> DEFINE g == Got(task[k])
  <2>1. Sound(svc, g)
    BY <1>3 DEF RuntimeInvariant, ValuesAreSound
  <2>2. /\ g.lease = task[k].val.lease /\ g.art = task[k].val.art /\ g.rev = task[k].got
        /\ g.base = task[k].val.base /\ g.latest = task[k].val.latest
    BY <1>1 DEF Got, Values
  <2> HIDE DEF g
  <2>3. /\ v \in Values /\ v.lease = g.lease /\ v.art = g.art
        /\ v.base = g.base /\ v.latest = g.latest
        /\ v.rev = g.rev /\ v.state \in {"released", "releasing"}
    BY <1>1, <1>3, <2>2 DEF Values, States
  <2> QED
    BY <2>1, <2>2, <2>3 DEF Sound, Finished
<1> QED
  BY <1>2, <1>3

LEMMA SettleFinalizationKeeps ==
  ASSUME RuntimeInvariant, NEW k \in Tasks, SettleFinalization(k)
  PROVE  RuntimeInvariant'
<1> DEFINE v == IF At(k, "settled") THEN [Val(k) EXCEPT !.state = "released", !.rev = task[k].got]
                ELSE [Val(k) EXCEPT !.state = "releasing"]
<1>1. Locking(task[k]) /\ task[k].pc # "savePatch"
  BY DEF SettleFinalization, Locking, CleanupPcs
<1>2. v \in Values /\ Sound(svc, v) /\ v.lease = task[k].val.lease /\ v.art = task[k].val.art
  BY Outcomes DEF Val, At
<1>3. /\ record' \in {record, v} /\ entry' = [entry EXCEPT ![task[k].e] = v]
      /\ current' \in {0, current} /\ End(k) /\ UNCHANGED <<svc, announced>>
  BY DEF SettleFinalization, Persisted, PersistFails, Return, Dropped, others
<1> HIDE DEF v
<1> QED
  BY <1>1, <1>2, <1>3, SettleKeeps

(* Whoever cleans up has a lease: the entry's, the one that it built, or    *)
(* the one of a record with a patch.                                        *)
LEMMA CleanupFacts ==
  ASSUME RuntimeInvariant, NEW k \in Tasks, task[k].pc \in CleanupPcs
  PROVE  /\ task[k].val.lease \in Leases
         /\ \/ Locking(task[k])
            \/ k = "startup" /\ task[k].then = "rolledback" /\ task[k].val.art = None
            \/ k = "startup" /\ task[k].then = "durable" /\ task[k].val.art # None
                 /\ task[k].val.lease = 1
<1>1. /\ task[k] \in TaskLocals /\ task[k].val \in Values /\ Sound(svc, task[k].val)
      /\ Advances(svc, k, task[k]) /\ Starts(svc, record, task["startup"])
  BY ValueFacts DEF RuntimeInvariant
<1>2. task[k].val.lease # 0 => task[k].val.lease \in Leases
  BY <1>1, ServiceAssumption DEF Values, Leases
<1>3. CASE Locking(task[k])
  BY <1>3, LockedFacts
<1>4. CASE task[k].then = "rolledback"
  <2>1. k = "startup" /\ task[k].val.lease # 0 /\ task[k].val.state \in {"active", "finalizing"}
    BY <1>1, <1>4 DEF Advances, Starts, Building
  <2> QED
    BY <1>1, <1>2, <1>4, <2>1 DEF Sound, Finished
<1>5. CASE task[k].then = "durable"
  BY <1>1, <1>2, <1>5 DEF Advances, Sound
<1>6. task[k].then \in {"finalized", "removed", "rolledback", "durable"}
  BY <1>1 DEF TaskLocals, Advances
<1> QED
  BY <1>3, <1>4, <1>5, <1>6 DEF Locking

(* A step from one stage of the cleanup to the next. *)
LEMMA PassKeeps ==
  ASSUME RuntimeInvariant, NEW k \in Tasks, task[k].pc \in CleanupPcs,
         NEW t \in TaskLocals, task' = [task EXCEPT ![k] = t], t.pc \in CleanupPcs,
         t.e = task[k].e, t.val = task[k].val, t.then = task[k].then,
         t.pc \in {"cleanupRelease", "settled"} => Sound(svc', Got(t)),
         Moves(svc, svc'), UNCHANGED <<record, memory, others>>,
         svc'.refs.want.art # svc.refs.want.art => record.art # None
  PROVE  RuntimeInvariant'
<1>1. /\ task[k].val \in Values /\ Sound(svc, task[k].val) /\ HoldsEntry(entry, lock, k, task[k])
      /\ Advances(svc, k, task[k]) /\ svc \in Services
  BY ValueFacts
<1>2. UNCHANGED <<record, entry, announced, lock, current>>
  BY DEF memory, others
<1>3. /\ current' \in 0..MaxEntry /\ (current' # 0 => entry[current'].lease # 0)
      /\ lock' \in [Entries -> Tasks \cup {"free"}]
  BY <1>2, CurrentFacts DEF RuntimeInvariant, Typed
<1>4. task[k].pc # "savePatch" /\ t.pc # "savePatch" /\ (Locking(t) <=> Locking(task[k]))
  BY DEF Locking, CleanupPcs, LockedPcs
<1>5. HoldsEntry(entry, lock', k, t)
  BY <1>1, <1>2, <1>4 DEF HoldsEntry, CleanupPcs, WaitingPcs
<1>6. Advances(svc', k, t)
  BY <1>1 DEF Advances, CleanupPcs, StartupPcs
<1>7. Sound(svc', t.val)
  BY <1>1 DEF Moves
<1>8. ASSUME k = "startup" PROVE Starts(svc', record, t)
  <2>1. Starts(svc, record, task[k])
    BY <1>8 DEF RuntimeInvariant
  <2>2. svc'.refs.want.lease <= 1 => svc.refs.want.lease <= 1
    <3>1. svc.refs.want.lease \in Nat /\ svc'.refs.want.lease \in Nat
      BY <1>1, ServiceAssumption DEF Services, Moves
    <3> QED
      BY <3>1 DEF Moves
  <2> QED
    BY <2>1, <2>2 DEF Starts, Building, Moves, CleanupPcs
<1>9. k # "startup" => svc # NewService
  BY CleanupFacts, LockedFacts
<1> QED
  BY <1>2, <1>3, <1>5, <1>6, <1>7, <1>8, <1>9, CallKeeps

LEMMA CleanupRetainMoves ==
  ASSUME RuntimeInvariant, NEW k \in Tasks, task[k].pc = "cleanupRetain",
         CanRetain(svc, task[k].val), NEW s, s = AfterRetain(svc, task[k].val)
  PROVE  /\ Moves(svc, s) /\ s.refs.rev \in Nat
         /\ Sound(s, [task[k].val EXCEPT !.rev = s.refs.rev])
         /\ s.refs.want.art # svc.refs.want.art => record.art # None
<1> DEFINE x == task[k].val
<1>1. x \in Values /\ Sound(svc, x) /\ svc \in Services /\ SoundService(svc)
  BY ValueFacts
<1>2. /\ x.lease # 0
      /\ \/ Locking(task[k])
         \/ k = "startup" /\ task[k].then = "rolledback" /\ x.art = None
         \/ k = "startup" /\ task[k].then = "durable" /\ x.lease = 1
  BY CleanupFacts, FirstLease DEF CleanupPcs, Leases
<1>3. /\ Moves(svc, s) /\ s.refs.want = Want(x) /\ s.refs.rev \in Nat
      /\ Sound(s, [x EXCEPT !.rev = s.refs.rev]) /\ (x.lease = 1 => svc.refs.want.lease <= 1)
  BY <1>1, <1>2, RetainMoves
<1>4. s.refs.want.art = x.art
  BY <1>3 DEF Want
<1>5. ASSUME s.refs.want.art # svc.refs.want.art PROVE record.art # None
  <2>1. CASE Locking(task[k])
    BY <1>5, <2>1, LockedRetain
  <2>2. CASE x.art = None
    BY <1>3, <1>4, <1>5, <2>2 DEF Moves
  <2>3. CASE k = "startup" /\ task[k].then = "durable" /\ x.lease = 1
    BY <1>3, <2>3 DEF RuntimeInvariant, Starts
  <2> QED
    BY <1>2, <2>1, <2>2, <2>3
<1> QED
  BY <1>3, <1>5

LEMMA CleanupRetainKeeps ==
  ASSUME RuntimeInvariant, NEW k \in Tasks, CleanupRetain(k)
  PROVE  RuntimeInvariant'
<1> DEFINE x == task[k].val
           s == AfterRetain(svc, x)
           t == Answered(task[k], svc'.refs.rev)
           u == Went(task[k], "unsettled")
<1>1. /\ x \in Values /\ Sound(svc, x) /\ task[k] \in TaskLocals
      /\ svc \in Services /\ SoundService(svc)
  BY ValueFacts
<1>2. /\ task[k].pc = "cleanupRetain" /\ task[k].pc \in CleanupPcs /\ "unsettled" \in AllPcs
      /\ UNCHANGED <<record, memory, others>>
  BY DEF CleanupRetain, At, CleanupPcs, AllPcs
<1>3. svc' = svc \/ (CanRetain(svc, x) /\ svc' = s)
  BY DEF CleanupRetain, Replies, Errs, Val
<1>4. \/ /\ CanRetain(svc, x) /\ svc' = s
         /\ task' = [task EXCEPT ![k].pc = "cleanupRelease", ![k].got = svc'.refs.rev]
      \/ Go(k, "unsettled")
  BY DEF CleanupRetain, Replies, Val
<1> HIDE DEF s
<1>5. CanRetain(svc, x) =>
        /\ Moves(svc, s) /\ s.refs.rev \in Nat /\ Sound(s, [x EXCEPT !.rev = s.refs.rev])
        /\ s.refs.want.art # svc.refs.want.art => record.art # None
  BY <1>2, CleanupRetainMoves DEF s
<1>6. Moves(svc, svc') /\ (svc'.refs.want.art # svc.refs.want.art => record.art # None)
  BY <1>1, <1>3, <1>5, StandingStill, QuietMoves
<1>7. CASE /\ CanRetain(svc, x) /\ svc' = s
           /\ task' = [task EXCEPT ![k].pc = "cleanupRelease", ![k].got = svc'.refs.rev]
  <2>1. svc'.refs.rev \in Nat
    BY <1>5, <1>7
  <2>2. /\ t \in TaskLocals /\ t.pc = "cleanupRelease" /\ t.val = x /\ t.e = task[k].e
        /\ t.then = task[k].then /\ t.got = svc'.refs.rev
    BY <1>1, <2>1, AnsweredFacts
  <2>3. task' = [task EXCEPT ![k] = t]
    BY <1>7, TaskUpdates
  <2> HIDE DEF t
  <2>4. Sound(svc', Got(t))
    BY <1>5, <1>7, <2>2 DEF Got
  <2> QED
    BY <1>2, <1>6, <2>2, <2>3, <2>4, PassKeeps DEF CleanupPcs
<1>8. CASE Go(k, "unsettled")
  <2>1. /\ u \in TaskLocals /\ u.pc = "unsettled" /\ u.val = x /\ u.e = task[k].e
        /\ u.then = task[k].then
    BY <1>1, <1>2, WentFacts
  <2>2. task' = [task EXCEPT ![k] = u]
    BY <1>8, TaskUpdates
  <2> HIDE DEF u
  <2> QED
    BY <1>2, <1>6, <2>1, <2>2, PassKeeps DEF CleanupPcs
<1> QED
  BY <1>4, <1>7, <1>8

(* A release, however it ends, is a quiet step of the service. *)
LEMMA ReleaseIsQuiet ==
  ASSUME RuntimeInvariant, NEW l \in Leases,
         Replies(CanRelease(svc, l), Released(svc, l)) \/ ReleaseErrs(l)
  PROVE  Moves(svc, svc') /\ svc'.refs = svc.refs
<1>1. svc \in Services /\ SoundService(svc)
  BY DEF RuntimeInvariant, Typed, ValuesAreSound
<1>2. svc' \in {svc, Claimed(svc, l), Begun(svc, l), Released(svc, l)}
  BY DEF Replies, ReleaseErrs
<1>3. Quiet(svc, svc')
  BY <1>1, <1>2, ReleaseMoves, StandingStill
<1> QED
  BY <1>1, <1>3, QuietMoves DEF Quiet

LEMMA CleanupReleaseKeeps ==
  ASSUME RuntimeInvariant, NEW k \in Tasks, CleanupRelease(k)
  PROVE  RuntimeInvariant'
<1> DEFINE l == task[k].val.lease
<1>1. /\ task[k].val \in Values /\ task[k] \in TaskLocals
  BY ValueFacts
<1>2. /\ task[k].pc = "cleanupRelease" /\ task[k].pc \in CleanupPcs
      /\ UNCHANGED <<record, memory, others>>
  BY DEF CleanupRelease, At, CleanupPcs
<1>3. l \in Leases
  BY <1>2, CleanupFacts
<1>4. /\ Replies(CanRelease(svc, l), Released(svc, l)) \/ ReleaseErrs(l)
      /\ Go(k, "settled") \/ Go(k, "unsettled")
  BY DEF CleanupRelease, Val
<1>5. Moves(svc, svc') /\ svc'.refs = svc.refs
  BY <1>3, <1>4, ReleaseIsQuiet
<1>6. PICK pc \in {"settled", "unsettled"} : Go(k, pc)
  BY <1>4
<1> DEFINE u == Went(task[k], pc)
<1>7. /\ u \in TaskLocals /\ u.pc = pc /\ u.val = task[k].val /\ u.e = task[k].e
      /\ u.then = task[k].then /\ u.got = task[k].got
  BY <1>1, <1>6, WentFacts DEF AllPcs, CleanupPcs
<1>8. task' = [task EXCEPT ![k] = u]
  BY <1>6, TaskUpdates
<1> HIDE DEF u
<1>9. Sound(svc', Got(u))
  <2>1. Sound(svc, Got(task[k])) /\ Got(task[k]) \in Values
    BY <1>1, <1>2 DEF RuntimeInvariant, ValuesAreSound, Got, Values, TaskLocals
  <2>2. Got(u) = Got(task[k])
    BY <1>7 DEF Got
  <2> QED
    BY <1>5, <2>1, <2>2 DEF Moves
<1> QED
  BY <1>2, <1>5, <1>6, <1>7, <1>8, <1>9, PassKeeps DEF CleanupPcs

----------
(* The turn and the removal. *)

(* A task that begins to wait for an entry. *)
LEMMA WaitKeeps ==
  ASSUME RuntimeInvariant, NEW k \in Tasks, NEW t \in TaskLocals, task' = [task EXCEPT ![k] = t],
         t.pc \in WaitingPcs, t.e \in Entries, entry[t.e].lease # 0, t.val = entry[t.e],
         t.then = "none",
         UNCHANGED <<svc, record, entry, announced, lock>>, current' \in {0, current}
  PROVE  RuntimeInvariant'
<1>1. Sound(svc, t.val)
  BY DEF RuntimeInvariant, ValuesAreSound
<1>2. ~Locking(t) /\ ~Building(t)
  BY DEF Locking, Building, WaitingPcs, LockedPcs, CleanupPcs
<1>3. HoldsEntry(entry, lock, k, t)
  BY <1>2 DEF HoldsEntry, Entries
<1>4. Advances(svc, k, t) /\ Starts(svc, record, t) /\ t.pc \notin {"cleanupRelease", "settled"}
  BY <1>2 DEF Advances, Starts, WaitingPcs, CleanupPcs, StartupPcs
<1>5. current' \in 0..MaxEntry /\ (current' # 0 => entry[current'].lease # 0)
  BY CurrentFacts
<1> QED
  BY <1>1, <1>3, <1>4, <1>5, StillKeeps

Aimed(pc, e, v)         == [Idle EXCEPT !.pc = pc, !.e = e, !.val = v]
Taken(pc, e, v, permit) == [Idle EXCEPT !.pc = pc, !.e = e, !.val = v, !.permit = permit]

LEMMA AimedFacts ==
  ASSUME NEW pc \in AllPcs, NEW e \in 0..MaxEntry, NEW v \in Values
  PROVE  /\ Aimed(pc, e, v) \in TaskLocals
         /\ Aimed(pc, e, v).pc = pc /\ Aimed(pc, e, v).e = e /\ Aimed(pc, e, v).val = v
         /\ Aimed(pc, e, v).then = "none"
<1> DEFINE a == [Idle EXCEPT !.pc = pc]
           b == [a EXCEPT !.e = e]
           c == [b EXCEPT !.val = v]
<1>1. a \in TaskLocals /\ a.pc = pc /\ a.then = "none"
  BY IdleFacts DEF TaskLocals, AllPcs
<1>2. Aimed(pc, e, v) = c
  BY DEF Aimed
<1> HIDE DEF a
<1>3. b \in TaskLocals /\ b.pc = pc /\ b.e = e /\ b.then = "none"
  BY <1>1 DEF TaskLocals
<1> HIDE DEF b
<1>4. c \in TaskLocals /\ c.pc = pc /\ c.e = e /\ c.val = v /\ c.then = "none"
  BY <1>3 DEF TaskLocals
<1> QED
  BY <1>2, <1>4

LEMMA TakenFacts ==
  ASSUME NEW pc \in AllPcs, NEW e \in 0..MaxEntry, NEW v \in Values, NEW permit \in BOOLEAN
  PROVE  /\ Taken(pc, e, v, permit) \in TaskLocals
         /\ Taken(pc, e, v, permit).pc = pc /\ Taken(pc, e, v, permit).e = e
         /\ Taken(pc, e, v, permit).val = v /\ Taken(pc, e, v, permit).then = "none"
<1> DEFINE a == Aimed(pc, e, v)
<1>1. a \in TaskLocals /\ a.pc = pc /\ a.e = e /\ a.val = v /\ a.then = "none"
  BY AimedFacts
<1>2. Taken(pc, e, v, permit) = [a EXCEPT !.permit = permit]
  BY DEF Taken, Aimed
<1> HIDE DEF a
<1> QED
  BY <1>1, <1>2 DEF TaskLocals

LEMMA TurnEndsKeeps ==
  ASSUME RuntimeInvariant, NEW goal \in {"finalize", "checkpoint"}, TurnEnds(goal)
  PROVE  RuntimeInvariant'
<1> DEFINE t == Aimed(goal, current, entry[current])
<1>1. /\ current \in Entries /\ entry[current].lease # 0 /\ "turn" \in Tasks
      /\ goal \in WaitingPcs /\ entry[current] \in Values
  BY CurrentFacts DEF TurnEnds, Tasks, WaitingPcs, RuntimeInvariant, Typed
<1>2. /\ t \in TaskLocals /\ t.pc = goal /\ t.e = current /\ t.val = entry[current]
      /\ t.then = "none"
  BY <1>1, AimedFacts, CurrentFacts DEF AllPcs
<1>3. /\ task' = [task EXCEPT !["turn"] = t]
      /\ UNCHANGED <<svc, record, entry, announced, lock, current>>
  BY DEF TurnEnds, memory, others, Aimed
<1> HIDE DEF t
<1> QED
  BY <1>1, <1>2, <1>3, WaitKeeps

LEMMA TakeKeeps ==
  ASSUME RuntimeInvariant, NEW scheduled, NEW permit \in BOOLEAN, Take(scheduled, permit)
  PROVE  RuntimeInvariant'
<1> DEFINE t == Taken("taken", current, entry[current], permit)
<1>1. /\ "cleanup" \in Tasks /\ "taken" \in WaitingPcs /\ current' = 0
      /\ UNCHANGED <<svc, record, entry, announced, lock>>
  BY DEF Tasks, WaitingPcs, Take
<1>2. CASE current = 0
  <2>1. task' = [task EXCEPT !["cleanup"] = Idle]
    BY <1>2 DEF Take
  <2> QED
    BY <1>1, <2>1, StopKeeps, CurrentFacts
<1>3. CASE current # 0
  <2>1. current \in Entries /\ entry[current].lease # 0 /\ entry[current] \in Values
    BY <1>3, CurrentFacts DEF RuntimeInvariant, Typed
  <2>2. /\ t \in TaskLocals /\ t.pc = "taken" /\ t.e = current /\ t.val = entry[current]
        /\ t.then = "none"
    BY <1>1, <2>1, TakenFacts, CurrentFacts DEF AllPcs
  <2>3. task' = [task EXCEPT !["cleanup"] = t]
    BY <1>3 DEF Take, Taken
  <2> HIDE DEF t
  <2> QED
    BY <1>1, <2>1, <2>2, <2>3, WaitKeeps
<1> QED
  BY <1>2, <1>3

LEMMA ReleaseRemovedKeeps ==
  ASSUME RuntimeInvariant, ReleaseRemoved
  PROVE  RuntimeInvariant'
<1> DEFINE k == "cleanup"
           e == task[k].e
           t == Went(task[k], "finalize")
           u == Moved(task[k], "await", entry[e])
<1>1. k \in Tasks /\ task[k].pc \in WaitingPcs /\ "finalize" \in AllPcs /\ "await" \in AllPcs
  BY DEF ReleaseRemoved, At, Tasks, WaitingPcs, AllPcs
<1>2. /\ UNCHANGED <<svc, record, entry, announced, lock>> /\ k # "startup"
      /\ \/ current' = e /\ Go(k, "finalize")
         \/ current' = current /\ With(k, "await", entry[e])
  BY DEF ReleaseRemoved, others
<1> HIDE DEF k
<1>3. /\ task[k] \in TaskLocals /\ task[k].val \in Values /\ Sound(svc, task[k].val)
      /\ entry \in [Entries -> Values]
  BY <1>1, ValueFacts DEF RuntimeInvariant, Typed
<1>4. /\ e \in Entries /\ task[k].then \notin {"rolledback", "durable"} /\ entry[e].lease # 0
  BY <1>1, EntryThen
<1>5. current' \in 0..MaxEntry /\ (current' # 0 => entry[current'].lease # 0)
  BY <1>2, <1>4, CurrentFacts, RuntimeAssumption DEF Entries
<1>6. ASSUME NEW w \in TaskLocals, w.pc \in {"finalize", "await"}, w.e = e,
             w.then = task[k].then
      PROVE  HoldsEntry(entry, lock, k, w) /\ Advances(svc, k, w)
  <2>1. ~Locking(w)
    BY <1>6 DEF Locking, LockedPcs, CleanupPcs
  <2> QED
    BY <1>4, <1>6, <2>1 DEF HoldsEntry, Advances, CleanupPcs, StartupPcs, Entries
<1>7. CASE current' = e /\ Go(k, "finalize")
  <2>1. /\ t \in TaskLocals /\ t.pc = "finalize" /\ t.val = task[k].val /\ t.e = e
        /\ t.then = task[k].then
    BY <1>1, <1>3, WentFacts
  <2>2. task' = [task EXCEPT ![k] = t]
    BY <1>1, <1>7, TaskUpdates
  <2> HIDE DEF t
  <2> QED
    BY <1>1, <1>2, <1>3, <1>5, <1>6, <2>1, <2>2, StillKeeps
<1>8. CASE current' = current /\ With(k, "await", entry[e])
  <2>1. entry[e] \in Values /\ Sound(svc, entry[e])
    BY <1>3, <1>4 DEF RuntimeInvariant, ValuesAreSound
  <2>2. /\ u \in TaskLocals /\ u.pc = "await" /\ u.val = entry[e] /\ u.e = e
        /\ u.then = task[k].then
    BY <1>1, <1>3, <2>1, MovedFacts
  <2>3. task' = [task EXCEPT ![k] = u]
    BY <1>1, <1>8, <2>1, WithFacts
  <2> HIDE DEF u
  <2> QED
    BY <1>1, <1>2, <1>5, <1>6, <2>1, <2>2, <2>3, StillKeeps
<1> QED
  BY <1>2, <1>7, <1>8

LEMMA ReleaseLockedKeeps ==
  ASSUME RuntimeInvariant, ReleaseLocked
  PROVE  RuntimeInvariant'
<1> DEFINE k == "cleanup"
           e == task[k].e
           v == entry[e]
           t == Cleaning(task[k], "removed", v)
<1>1. /\ k \in Tasks /\ task[k].pc \in WaitingPcs /\ lock[e] = "free" /\ "removed" \in Callers
      /\ UNCHANGED <<svc, record, entry, announced>> /\ k # "startup"
  BY DEF ReleaseLocked, At, Tasks, WaitingPcs, Callers, others
<1>2. \/ /\ task' = [task EXCEPT ![k] = Idle] /\ UNCHANGED lock
         /\ current' \in {e, current}
      \/ /\ lock' = [lock EXCEPT ![e] = k] /\ Cleanup(k, "removed", v) /\ UNCHANGED current
  BY DEF ReleaseLocked, Value, Reinserted
<1> HIDE DEF k
<1>3. task[k] \in TaskLocals /\ entry \in [Entries -> Values]
  BY <1>1, ValueFacts DEF RuntimeInvariant, Typed
<1>4. e \in Entries /\ entry[e].lease # 0 /\ v \in Values
  BY <1>1, <1>3, EntryThen
<1>5. CASE task' = [task EXCEPT ![k] = Idle] /\ UNCHANGED lock /\ current' \in {e, current}
  <2>1. current' \in 0..MaxEntry /\ (current' # 0 => entry[current'].lease # 0)
    BY <1>4, <1>5, CurrentFacts, RuntimeAssumption DEF Entries
  <2> QED
    BY <1>1, <1>5, <2>1, StopKeeps
<1>6. CASE lock' = [lock EXCEPT ![e] = k] /\ Cleanup(k, "removed", v) /\ UNCHANGED current
  <2>1. t \in TaskLocals /\ t.pc = "cleanupRetain" /\ t.val = v /\ t.e = e /\ t.then = "removed"
    BY <1>1, <1>3, <1>4, CleaningFacts
  <2>2. task' = [task EXCEPT ![k] = t]
    BY <1>1, <1>6, TaskUpdates
  <2> HIDE DEF t
  <2>3. Advances(svc, k, t)
    BY <2>1 DEF Advances, CleanupPcs, StartupPcs
  <2> QED
    BY <1>1, <1>6, <2>1, <2>2, <2>3, LockKeeps
<1> QED
  BY <1>2, <1>5, <1>6

LEMMA SettleRemovalKeeps ==
  ASSUME RuntimeInvariant, SettleRemoval
  PROVE  RuntimeInvariant'
<1> DEFINE k == "cleanup"
           x == task[k].val
           released == [x EXCEPT !.state = "released", !.rev = task[k].got]
           stuck    == [x EXCEPT !.state = "releasing", !.rev = task[k].got]
           failed   == [x EXCEPT !.state = "releasing"]
<1>1. /\ k \in Tasks /\ Locking(task[k]) /\ task[k].pc # "savePatch"
      /\ UNCHANGED <<svc, announced>> /\ End(k)
  BY DEF SettleRemoval, At, Locking, CleanupPcs, Tasks, others
<1>2. x \in Values
  BY <1>1, ValueFacts
<1>3. [released EXCEPT !.state = "releasing"] = stuck
  BY <1>2 DEF Values
<1>4. \/ /\ task[k].pc = "settled" /\ record' = released /\ UNCHANGED <<entry, current>>
      \/ /\ task[k].pc = "settled" /\ UNCHANGED record
         /\ entry' = [entry EXCEPT ![task[k].e] = stuck]
         /\ current' \in {task[k].e, current}
      \/ /\ record' \in {record, failed} /\ entry' = [entry EXCEPT ![task[k].e] = failed]
         /\ current' \in {task[k].e, current}
  BY <1>3 DEF SettleRemoval, At, Persisted, PersistFails, Val, Reinserted
<1>5. task[k].pc = "settled" =>
        /\ released \in Values /\ Sound(svc, released) /\ released.lease = x.lease
        /\ released.art = x.art
        /\ stuck \in Values /\ Sound(svc, stuck) /\ stuck.lease = x.lease /\ stuck.art = x.art
  BY <1>1, Outcomes
<1>6. failed \in Values /\ Sound(svc, failed) /\ failed.lease = x.lease /\ failed.art = x.art
  BY <1>1, Outcomes
<1> HIDE DEF released, stuck, failed, k
<1> QED
  BY <1>1, <1>4, <1>5, <1>6, SettleKeeps

----------
(* Start and resume. *)

(* The startup ends with nothing saved. *)
LEMMA StartupEnds ==
  ASSUME RuntimeInvariant, task' = [task EXCEPT !["startup"] = Idle], Moves(svc, svc'),
         UNCHANGED <<record, memory, others>>, svc'.refs = svc.refs
  PROVE  RuntimeInvariant'
<1>1. "startup" \in Tasks /\ UNCHANGED <<record, entry, announced, lock, current>>
  BY DEF Tasks, memory, others
<1>2. Sound(svc', Idle.val) /\ Idle.pc \notin {"cleanupRelease", "settled"}
  BY IdleFacts, NoValueIsSound DEF Moves
<1>3. /\ current' \in 0..MaxEntry /\ (current' # 0 => entry[current'].lease # 0)
      /\ lock' \in [Entries -> Tasks \cup {"free"}]
  BY <1>1, CurrentFacts DEF RuntimeInvariant, Typed
<1>4. /\ HoldsEntry(entry, lock', "startup", Idle) /\ Advances(svc', "startup", Idle)
      /\ Starts(svc', record, Idle)
  BY IdleIsSound
<1> QED
  BY <1>1, <1>2, <1>3, <1>4, IdleFacts, CallKeeps

(* A startup holds no entry. *)
LEMMA StartupFacts ==
  ASSUME RuntimeInvariant
  PROVE  LET t == task["startup"] IN
         /\ "startup" \in Tasks /\ t \in TaskLocals /\ t.val \in Values /\ Sound(svc, t.val)
         /\ Starts(svc, record, t) /\ svc \in Services /\ SoundService(svc) /\ Moves(svc, svc)
         /\ t.pc \in {"idle"} \cup StartupPcs => t.e = 0 /\ t.then = "none"
<1>1. "startup" \in Tasks
  BY DEF Tasks
<1>2. /\ task["startup"] \in TaskLocals /\ task["startup"].val \in Values
      /\ Sound(svc, task["startup"].val) /\ Advances(svc, "startup", task["startup"])
      /\ svc \in Services /\ SoundService(svc)
  BY <1>1, ValueFacts
<1>3. Moves(svc, svc)
  BY <1>2, StandingStill, QuietMoves
<1> QED
  BY <1>1, <1>2, <1>3 DEF Advances, RuntimeInvariant

(* A step of a startup that has no entry, and saves nothing. *)
LEMMA StartupKeeps ==
  ASSUME RuntimeInvariant, NEW t \in TaskLocals, task' = [task EXCEPT !["startup"] = t],
         Moves(svc, svc'), UNCHANGED <<record, entry, announced, lock>>, current' \in {0, current},
         t.e = 0, Sound(svc', t.val), Starts(svc', record, t),
         \/ t.pc \in StartupPcs /\ t.then = "none"
         \/ t.pc = "cleanupRetain" /\ t.then = "rolledback"
         \/ t.pc = "cleanupRetain" /\ t.then = "durable" /\ t.val.art # None,
         svc'.refs.want.art = svc.refs.want.art
  PROVE  RuntimeInvariant'
<1>1. "startup" \in Tasks
  BY DEF Tasks
<1>2. /\ current' \in 0..MaxEntry /\ (current' # 0 => entry[current'].lease # 0)
      /\ lock' \in [Entries -> Tasks \cup {"free"}]
  BY CurrentFacts DEF RuntimeInvariant, Typed
<1>3. HoldsEntry(entry, lock', "startup", t)
  BY DEF HoldsEntry, Locking, StartupPcs, WaitingPcs, LockedPcs, CleanupPcs
<1>4. Advances(svc', "startup", t) /\ t.pc \notin {"cleanupRelease", "settled"}
  BY DEF Advances, StartupPcs, CleanupPcs
<1> QED
  BY <1>1, <1>2, <1>3, <1>4, CallKeeps

LEMMA StartKeeps ==
  ASSUME RuntimeInvariant, Start
  PROVE  RuntimeInvariant'
<1> DEFINE t == Went(task["startup"], "provision")
<1>1. /\ task["startup"].pc = "idle" /\ record.lease = 0 /\ svc = NewService
      /\ Go("startup", "provision") /\ UNCHANGED <<svc, record, entry, announced, lock, current>>
      /\ "provision" \in AllPcs /\ "provision" \in StartupPcs
  BY DEF Start, At, memory, others, AllPcs, StartupPcs
<1>2. /\ task["startup"] \in TaskLocals /\ Sound(svc, task["startup"].val) /\ Moves(svc, svc)
      /\ task["startup"].e = 0 /\ task["startup"].then = "none" /\ "startup" \in Tasks
  BY <1>1, StartupFacts
<1>3. /\ t \in TaskLocals /\ t.pc = "provision" /\ t.val = task["startup"].val /\ t.e = 0
      /\ t.then = "none" /\ task' = [task EXCEPT !["startup"] = t]
  BY <1>1, <1>2, WentFacts, TaskUpdates
<1> HIDE DEF t
<1>4. Starts(svc', record, t)
  BY <1>1, <1>3 DEF Starts, Building, CleanupPcs
<1> QED
  BY <1>1, <1>2, <1>3, <1>4, StartupKeeps

LEMMA ResumeKeeps ==
  ASSUME RuntimeInvariant, Resume
  PROVE  RuntimeInvariant'
<1> DEFINE t == Went(task["startup"], "read")
<1>1. /\ task["startup"].pc = "idle" /\ record.lease # 0 /\ current' \in {0, current}
      /\ Go("startup", "read") /\ UNCHANGED <<svc, record, entry, announced, lock>>
      /\ "read" \in AllPcs /\ "read" \in StartupPcs
  BY DEF Resume, At, AllPcs, StartupPcs
<1>2. /\ task["startup"] \in TaskLocals /\ Sound(svc, task["startup"].val) /\ Moves(svc, svc)
      /\ task["startup"].e = 0 /\ task["startup"].then = "none" /\ "startup" \in Tasks
  BY <1>1, StartupFacts
<1>3. /\ t \in TaskLocals /\ t.pc = "read" /\ t.val = task["startup"].val /\ t.e = 0
      /\ t.then = "none" /\ task' = [task EXCEPT !["startup"] = t]
  BY <1>1, <1>2, WentFacts, TaskUpdates
<1> HIDE DEF t
<1>4. Starts(svc', record, t)
  BY <1>1, <1>3 DEF Starts, Building, CleanupPcs
<1> QED
  BY <1>1, <1>2, <1>3, <1>4, StartupKeeps

LEMMA ProvisionKeeps ==
  ASSUME RuntimeInvariant, Provision
  PROVE  RuntimeInvariant'
<1> DEFINE s == Provisioned(svc)
           v == [NoValue EXCEPT !.lease = 1, !.base = <<1, 0>>, !.latest = <<1, 0>>]
           t == Moved(task["startup"], "boot", v)
<1>1. /\ task["startup"].pc = "provision" /\ "boot" \in AllPcs /\ "boot" \in StartupPcs
      /\ task["startup"].pc \in StartupPcs
  BY DEF Provision, CallStep, At, AllPcs, StartupPcs
<1>2. /\ task["startup"] \in TaskLocals /\ svc \in Services /\ SoundService(svc)
      /\ task["startup"].e = 0 /\ task["startup"].then = "none" /\ "startup" \in Tasks
      /\ Starts(svc, record, task["startup"]) /\ Moves(svc, svc)
  BY <1>1, StartupFacts
<1>3. record.lease = 0 /\ svc = NewService
  BY <1>1, <1>2 DEF Starts
<1>4. svc' = svc \/ svc' = s
  BY DEF Provision, CallStep, Replies, Errs
<1>5. \/ /\ svc' = s /\ With("startup", "boot", v)
         /\ UNCHANGED <<record, entry, announced, lock, current>>
      \/ UNCHANGED <<record, entry, announced>> /\ Return("startup")
  BY DEF Provision, CallStep, Replies, Errs
<1>6. Quiet(svc, s) /\ s.lease[1].state # "none"
  BY <1>3, ProvisionMoves
<1> HIDE DEF s
<1>7. Moves(svc, svc') /\ svc'.refs = svc.refs
  BY <1>2, <1>4, <1>6, QuietMoves DEF Quiet
<1>8. CASE /\ svc' = s /\ With("startup", "boot", v)
           /\ UNCHANGED <<record, entry, announced, lock, current>>
  <2>1. /\ v \in Values /\ v.lease = 1 /\ v.base = <<1, 0>> /\ v.latest = <<1, 0>>
        /\ v.art = None /\ v.rev = 0 /\ v.state = "active"
    <3>1. <<1, 0>> \in Snapshots /\ 1 \in 0..MaxLease
      BY ServiceAssumption DEF Snapshots, Leases
    <3> QED
      BY <3>1, NoValueFacts DEF Values
  <2>2. svc'.refs.rev = 0 /\ svc'.refs.want.lease = 0 /\ svc'.refs.want.art = None
    BY <1>3, <1>7, NewServiceFacts
  <2> HIDE DEF v
  <2>3. Sound(svc', v)
    BY <2>1, <2>2 DEF Sound, None
  <2>4. /\ t \in TaskLocals /\ t.pc = "boot" /\ t.val = v /\ t.e = 0 /\ t.then = "none"
        /\ task' = [task EXCEPT !["startup"] = t]
    BY <1>1, <1>2, <1>8, <2>1, MovedFacts, WithFacts
  <2> HIDE DEF t
  <2>5. Starts(svc', record, t)
    BY <1>3, <1>6, <1>8, <2>1, <2>4 DEF Starts, Building, CleanupPcs
  <2> QED
    BY <1>1, <1>7, <1>8, <2>3, <2>4, <2>5, StartupKeeps
<1>9. CASE UNCHANGED <<record, entry, announced>> /\ Return("startup")
  BY <1>2, <1>7, <1>9, EndKeeps DEF Return, Dropped
<1> QED
  BY <1>5, <1>8, <1>9

Reading(v)  == [Idle EXCEPT !.pc = "reconnect", !.val = v]
Settling(v) == [Idle EXCEPT !.pc = "cleanupRetain", !.then = "durable", !.val = v]

LEMMA ReadingFacts ==
  ASSUME NEW v \in Values
  PROVE  /\ Reading(v) \in TaskLocals /\ Reading(v).pc = "reconnect" /\ Reading(v).val = v
         /\ Reading(v).e = 0 /\ Reading(v).then = "none"
  BY IdleFacts DEF Reading, TaskLocals, StartupPcs

LEMMA SettlingFacts ==
  ASSUME NEW v \in Values
  PROVE  /\ Settling(v) \in TaskLocals /\ Settling(v).pc = "cleanupRetain" /\ Settling(v).val = v
         /\ Settling(v).e = 0 /\ Settling(v).then = "durable"
<1> DEFINE a == [Idle EXCEPT !.pc = "cleanupRetain", !.then = "durable"]
<1>1. a \in TaskLocals /\ a.pc = "cleanupRetain" /\ a.e = 0 /\ a.then = "durable"
  BY IdleFacts DEF TaskLocals, CleanupPcs
<1>2. Settling(v) = [a EXCEPT !.val = v]
  BY DEF Settling
<1> HIDE DEF a
<1> QED
  BY <1>1, <1>2 DEF TaskLocals

LEMMA ReadRecordKeeps ==
  ASSUME RuntimeInvariant, ReadRecord
  PROVE  RuntimeInvariant'
<1> DEFINE k == "startup"
<1>1. /\ task[k].pc = "read" /\ current' \in {0, current}
      /\ UNCHANGED <<svc, record, entry, announced, lock>>
      /\ "finalize" \in AllPcs /\ "finalize" \in WaitingPcs /\ "reconnect" \in StartupPcs
  BY DEF ReadRecord, At, others, AllPcs, WaitingPcs, StartupPcs
<1>2. /\ record \in Values /\ Sound(svc, record) /\ Moves(svc, svc)
      /\ "startup" \in Tasks /\ Starts(svc, record, task[k]) /\ entry \in [Entries -> Values]
  BY StartupFacts DEF RuntimeInvariant, Typed, ValuesAreSound
<1>3. record.lease # 0
  BY <1>1, <1>2 DEF Starts
<1>4. \/ /\ record.state \in {"active", "finalizing"}
         /\ task' = [task EXCEPT !["startup"] = Reading(record)]
      \/ /\ current # 0
         /\ task' = [task EXCEPT !["startup"] = Aimed("finalize", current, entry[current])]
      \/ /\ record.art # None
         /\ task' = [task EXCEPT !["startup"] = Settling(record)]
      \/ task' = [task EXCEPT !["startup"] = Idle]
  BY DEF ReadRecord, Reading, Aimed, Settling
<1>5. CASE /\ record.state \in {"active", "finalizing"}
           /\ task' = [task EXCEPT !["startup"] = Reading(record)]
  <2> DEFINE t == Reading(record)
  <2>1. /\ t \in TaskLocals /\ t.pc = "reconnect" /\ t.val = record /\ t.e = 0 /\ t.then = "none"
        /\ task' = [task EXCEPT !["startup"] = t]
    BY <1>2, <1>5, ReadingFacts
  <2> HIDE DEF t
  <2>2. Starts(svc, record, t)
    BY <1>3, <1>5, <2>1 DEF Starts, Building, CleanupPcs
  <2> QED
    BY <1>1, <1>2, <2>1, <2>2, StartupKeeps
<1>6. CASE /\ current # 0
           /\ task' = [task EXCEPT !["startup"] = Aimed("finalize", current, entry[current])]
  <2> DEFINE t == Aimed("finalize", current, entry[current])
  <2>1. current \in Entries /\ entry[current].lease # 0 /\ entry[current] \in Values
    BY <1>2, <1>6, CurrentFacts
  <2>2. /\ t \in TaskLocals /\ t.pc = "finalize" /\ t.e = current /\ t.val = entry[current]
        /\ t.then = "none" /\ task' = [task EXCEPT !["startup"] = t]
    BY <1>1, <1>6, <2>1, AimedFacts, CurrentFacts
  <2> HIDE DEF t
  <2> QED
    BY <1>1, <1>2, <2>1, <2>2, WaitKeeps
<1>7. CASE record.art # None /\ task' = [task EXCEPT !["startup"] = Settling(record)]
  <2> DEFINE t == Settling(record)
  <2>1. /\ t \in TaskLocals /\ t.pc = "cleanupRetain" /\ t.val = record /\ t.e = 0
        /\ t.then = "durable" /\ task' = [task EXCEPT !["startup"] = t]
    BY <1>2, <1>7, SettlingFacts
  <2> HIDE DEF t
  <2>2. Starts(svc, record, t)
    BY <1>7, <2>1 DEF Starts, Building
  <2> QED
    BY <1>1, <1>2, <1>7, <2>1, <2>2, StartupKeeps
<1>8. CASE task' = [task EXCEPT !["startup"] = Idle]
  BY <1>1, <1>2, <1>8, StopKeeps, CurrentFacts
<1> QED
  BY <1>4, <1>5, <1>6, <1>7, <1>8

(* The two steps that choose how a startup goes on. *)
LEMMA ReconnectKeeps ==
  ASSUME RuntimeInvariant, Reconnect
  PROVE  RuntimeInvariant'
<1> DEFINE k == "startup"
<1>1. /\ task[k].pc = "reconnect" /\ UNCHANGED <<svc, record, memory, others>>
      /\ UNCHANGED <<entry, announced, lock, current>> /\ task[k].pc \in StartupPcs
      /\ {"reject", "restore"} \subseteq StartupPcs /\ {"reject", "restore"} \subseteq AllPcs
  BY DEF Reconnect, At, memory, others, StartupPcs, AllPcs
<1>2. /\ task[k] \in TaskLocals /\ Sound(svc, task[k].val) /\ Starts(svc, record, task[k])
      /\ Moves(svc, svc) /\ task[k].e = 0 /\ task[k].then = "none" /\ "startup" \in Tasks
  BY <1>1, StartupFacts
<1>3. (\E pc \in {"reject", "restore"} : Go("startup", pc)) \/ task' = [task EXCEPT !["startup"] = Idle]
  BY DEF Reconnect
<1>4. ASSUME NEW pc \in {"reject", "restore"}, Go("startup", pc)
      PROVE  RuntimeInvariant'
  <2> DEFINE t == Went(task[k], pc)
  <2>1. /\ t \in TaskLocals /\ t.pc = pc /\ t.val = task[k].val /\ t.e = 0 /\ t.then = "none"
        /\ task' = [task EXCEPT !["startup"] = t]
    BY <1>1, <1>2, <1>4, WentFacts, TaskUpdates, ZenonT(60)
  <2> HIDE DEF t
  <2>2. Starts(svc, record, t)
    BY <1>1, <1>2, <2>1 DEF Starts, Building, CleanupPcs
  <2> QED
    BY <1>1, <1>2, <2>1, <2>2, StartupKeeps
<1>5. CASE task' = [task EXCEPT !["startup"] = Idle]
  BY <1>1, <1>2, <1>5, StartupEnds
<1> QED
  BY <1>3, <1>4, <1>5

LEMMA RejectReconnectKeeps ==
  ASSUME RuntimeInvariant, RejectReconnect
  PROVE  RuntimeInvariant'
<1> DEFINE l == task["startup"].val.lease
<1>1. /\ task["startup"].pc = "reject" /\ UNCHANGED <<record, memory, others>>
      /\ task' = [task EXCEPT !["startup"] = Idle]
      /\ Replies(CanRelease(svc, l), Released(svc, l)) \/ ReleaseErrs(l)
  BY DEF RejectReconnect, At, Val
<1>2. l \in Leases
  <2>1. task["startup"].val \in Values /\ Starts(svc, record, task["startup"])
    BY StartupFacts
  <2> QED
    BY <1>1, <2>1, ServiceAssumption DEF Starts, Values, Leases
<1>3. Moves(svc, svc') /\ svc'.refs = svc.refs
  BY <1>1, <1>2, ReleaseIsQuiet
<1> QED
  BY <1>1, <1>3, StartupEnds

LEMMA RestoreKeeps ==
  ASSUME RuntimeInvariant, Restore
  PROVE  RuntimeInvariant'
<1> DEFINE k == "startup"
           x == task[k].val
           p == x.latest
           s == Restored(svc, p)
           can == CanRestore(svc, p) /\ RestoreKey(p) \notin refused
           v == [x EXCEPT !.lease = IF can THEN Heir(svc, p) ELSE 0]
           t == Moved(task[k], "boot", v)
<1>1. /\ task[k].pc = "restore" /\ "boot" \in AllPcs /\ "boot" \in StartupPcs
      /\ task[k].pc \in StartupPcs
  BY DEF Restore, CallStep, At, AllPcs, StartupPcs
<1>2. /\ task[k] \in TaskLocals /\ svc \in Services /\ SoundService(svc)
      /\ x \in Values /\ Sound(svc, x)
      /\ task[k].e = 0 /\ task[k].then = "none" /\ "startup" \in Tasks
      /\ Starts(svc, record, task[k]) /\ Moves(svc, svc)
  BY <1>1, StartupFacts
<1>3. /\ record.lease # 0 /\ x.lease # 0 /\ x.state \in {"active", "finalizing"}
      /\ svc.lease[1].state # "none"
  BY <1>1, <1>2 DEF Starts, RuntimeInvariant, FirstLeaseIsOnce
<1>4. p \in Snapshots \ {None} /\ x.art = None
  BY <1>2, <1>3 DEF Sound, Values, Finished
<1>5. svc' = svc \/ (can /\ svc' = s)
  BY DEF Restore, CallStep, Replies, Errs, Val
<1>6. \/ /\ can /\ svc' = s /\ With("startup", "boot", v)
         /\ UNCHANGED <<record, entry, announced, lock, current>>
      \/ UNCHANGED <<record, entry, announced>> /\ Return("startup")
  BY DEF Restore, CallStep, Replies, Errs, Val
<1> HIDE DEF s
<1>7. can => Quiet(svc, s) /\ Heir(svc, p) \in Leases \ {1}
  BY <1>2, <1>3, <1>4, RestoreMoves DEF s
<1>8. Moves(svc, svc') /\ svc'.refs = svc.refs
  BY <1>2, <1>5, <1>7, QuietMoves DEF Quiet
<1>9. CASE /\ can /\ svc' = s /\ With("startup", "boot", v)
           /\ UNCHANGED <<record, entry, announced, lock, current>>
  <2>1. /\ v \in Values /\ v.lease \in Leases \ {1} /\ v.base = x.base /\ v.latest = x.latest
        /\ v.art = None /\ v.rev = x.rev /\ v.state = x.state
    <3>1. Heir(svc, p) \in 0..MaxLease /\ v = [x EXCEPT !.lease = Heir(svc, p)]
      BY <1>7, <1>9 DEF Leases
    <3> HIDE DEF v
    <3> QED
      BY <1>2, <1>4, <1>7, <1>9, <3>1 DEF Values
  <2>2. Sound(svc', x)
    BY <1>2, <1>8 DEF Moves
  <2> HIDE DEF v
  <2>3. Sound(svc', v)
    BY <1>3, <1>4, <2>1, <2>2 DEF Sound
  <2>4. /\ t \in TaskLocals /\ t.pc = "boot" /\ t.val = v /\ t.e = 0 /\ t.then = "none"
        /\ task' = [task EXCEPT !["startup"] = t]
    BY <1>1, <1>2, <1>9, <2>1, MovedFacts, WithFacts
  <2> HIDE DEF t
  <2>5. Starts(svc', record, t)
    BY <1>3, <1>8, <2>1, <2>4, FirstLease DEF Starts, Building, CleanupPcs, Moves, Leases
  <2> QED
    BY <1>1, <1>8, <1>9, <2>3, <2>4, <2>5, StartupKeeps
<1>10. CASE UNCHANGED <<record, entry, announced>> /\ Return("startup")
  BY <1>2, <1>8, <1>10, EndKeeps DEF Return, Dropped
<1> QED
  BY <1>6, <1>9, <1>10

(* A startup that gives up what it built cleans it up. *)
LEMMA RollbackKeeps ==
  ASSUME RuntimeInvariant, Building(task["startup"]), task["startup"].pc \in StartupPcs,
         Cleanup("startup", "rolledback", task["startup"].val), Moves(svc, svc'),
         UNCHANGED <<record, entry, announced, lock, current>>,
         svc'.refs.want.art = svc.refs.want.art
  PROVE  RuntimeInvariant'
<1> DEFINE x == task["startup"].val
           t == Cleaning(task["startup"], "rolledback", x)
<1>1. /\ task["startup"] \in TaskLocals /\ x \in Values /\ Sound(svc, x) /\ "startup" \in Tasks
      /\ Starts(svc, record, task["startup"]) /\ task["startup"].e = 0
  BY StartupFacts
<1>2. "rolledback" \in Callers
  BY DEF Callers
<1>3. t \in TaskLocals /\ t.pc = "cleanupRetain" /\ t.val = x /\ t.e = 0 /\ t.then = "rolledback"
  BY <1>1, <1>2, CleaningFacts
<1>4. task' = [task EXCEPT !["startup"] = t]
  BY <1>1, TaskUpdates
<1> HIDE DEF t
<1>5. Starts(svc', record, t)
  BY <1>1, <1>3 DEF Starts, Building, CleanupPcs, Moves
<1>6. Sound(svc', t.val)
  BY <1>1, <1>3 DEF Moves
<1> QED
  BY <1>3, <1>4, <1>5, <1>6, StartupKeeps

LEMMA BootKeeps ==
  ASSUME RuntimeInvariant, Boot
  PROVE  RuntimeInvariant'
<1> DEFINE k == "startup"
<1>1. /\ task[k].pc = "boot" /\ UNCHANGED <<svc, record, memory, others>>
      /\ UNCHANGED <<entry, announced, lock, current>> /\ task[k].pc \in StartupPcs
      /\ {"reject", "commit"} \subseteq StartupPcs /\ {"reject", "commit"} \subseteq AllPcs
      /\ Building(task[k])
  BY DEF Boot, At, memory, others, StartupPcs, AllPcs, Building
<1>2. /\ task[k] \in TaskLocals /\ Sound(svc, task[k].val) /\ Starts(svc, record, task[k])
      /\ Moves(svc, svc) /\ task[k].e = 0 /\ task[k].then = "none" /\ "startup" \in Tasks
  BY <1>1, StartupFacts
<1>3. \/ \E pc \in {"reject", "commit"} : Go("startup", pc)
      \/ Cleanup("startup", "rolledback", task[k].val)
  BY DEF Boot, Val
<1>4. ASSUME NEW pc \in {"reject", "commit"}, Go("startup", pc)
      PROVE  RuntimeInvariant'
  <2> DEFINE t == Went(task[k], pc)
  <2>1. /\ t \in TaskLocals /\ t.pc = pc /\ t.val = task[k].val /\ t.e = 0 /\ t.then = "none"
        /\ task' = [task EXCEPT !["startup"] = t]
    BY <1>1, <1>2, <1>4, WentFacts, TaskUpdates, ZenonT(60)
  <2> HIDE DEF t
  <2>2. Starts(svc, record, t)
    BY <1>1, <1>2, <2>1 DEF Starts, Building, CleanupPcs
  <2> QED
    BY <1>1, <1>2, <2>1, <2>2, StartupKeeps
<1>5. CASE Cleanup("startup", "rolledback", task[k].val)
  BY <1>1, <1>2, <1>5, RollbackKeeps
<1> QED
  BY <1>3, <1>4, <1>5

LEMMA RetainPendingKeeps ==
  ASSUME RuntimeInvariant, RetainPending
  PROVE  RuntimeInvariant'
<1> DEFINE k == "startup"
           x == task[k].val
           s == AfterRetain(svc, x)
           v == [x EXCEPT !.rev = s.refs.rev]
           t == Moved(task[k], "persist", v)
           can == CanRetain(svc, x)
<1>1. /\ task[k].pc = "commit" /\ UNCHANGED <<record, entry, announced, lock, current>>
      /\ task[k].pc \in StartupPcs /\ "persist" \in StartupPcs /\ "persist" \in AllPcs
      /\ Building(task[k])
  BY DEF RetainPending, At, memory, others, StartupPcs, AllPcs, Building
<1>2. /\ task[k] \in TaskLocals /\ x \in Values /\ Sound(svc, x) /\ Starts(svc, record, task[k])
      /\ svc \in Services /\ SoundService(svc)
      /\ Moves(svc, svc) /\ task[k].e = 0 /\ task[k].then = "none" /\ "startup" \in Tasks
  BY <1>1, StartupFacts
<1>3. x.lease # 0 /\ x.art = None
  BY <1>1, <1>2 DEF Starts, Sound, Finished
<1>4. svc' = svc \/ (can /\ svc' = s)
  BY DEF RetainPending, Replies, Errs, Val
<1>5. \/ can /\ svc' = s /\ With("startup", "persist", v)
      \/ Cleanup("startup", "rolledback", x)
  BY DEF RetainPending, Replies, Val
<1> HIDE DEF s, can
<1>6. can => /\ Moves(svc, s) /\ s.refs.want = Want(x) /\ s.refs.rev \in Nat /\ Sound(s, v)
  BY <1>2, <1>3, RetainMoves DEF s, can
<1>7. can => s.refs.want.art = svc.refs.want.art /\ s.refs.want.lease = x.lease
  BY <1>3, <1>6 DEF Moves, Want
<1>8. Moves(svc, svc') /\ svc'.refs.want.art = svc.refs.want.art
  BY <1>2, <1>4, <1>6, <1>7
<1>9. CASE can /\ svc' = s /\ With("startup", "persist", v)
  <2>1. v \in Values /\ v.lease = x.lease /\ v.state = x.state
    BY <1>2, <1>6, <1>9 DEF Values
  <2> HIDE DEF v
  <2>2. /\ t \in TaskLocals /\ t.pc = "persist" /\ t.val = v /\ t.e = 0 /\ t.then = "none"
        /\ task' = [task EXCEPT !["startup"] = t]
    BY <1>1, <1>2, <1>9, <2>1, MovedFacts, WithFacts
  <2> HIDE DEF t
  <2>3. Starts(svc', record, t)
    BY <1>1, <1>2, <1>7, <1>8, <1>9, <2>1, <2>2 DEF Starts, Building, CleanupPcs, Moves
  <2> QED
    BY <1>1, <1>6, <1>8, <1>9, <2>2, <2>3, StartupKeeps
<1>10. CASE Cleanup("startup", "rolledback", x)
  BY <1>1, <1>8, <1>10, RollbackKeeps
<1> QED
  BY <1>5, <1>9, <1>10

LEMMA RolledBackKeeps ==
  ASSUME RuntimeInvariant, RolledBack
  PROVE  RuntimeInvariant'
<1>1. Moves(svc, svc)
  BY StartupFacts
<1> QED
  BY <1>1, StartupEnds DEF RolledBack

(* The record and the first entry get the value of the first lease together, *)
(* and a later lease comes after the service was told of it.                 *)
LEMMA PublishKeeps ==
  ASSUME RuntimeInvariant, task["startup"].pc = "persist",
         NEW e \in NewEntry, record' = task["startup"].val,
         entry' = [entry EXCEPT ![e] = task["startup"].val], current' = e,
         NEW t \in TaskLocals, task' = [task EXCEPT !["startup"] = t],
         UNCHANGED <<svc, announced, lock>>,
         t = Idle \/ t = Aimed("finalize", e, task["startup"].val)
  PROVE  RuntimeInvariant'
<1> DEFINE v == task["startup"].val
<1>1. /\ v \in Values /\ Sound(svc, v) /\ Starts(svc, record, task["startup"])
      /\ svc \in Services /\ SoundService(svc) /\ Moves(svc, svc) /\ "startup" \in Tasks
  BY StartupFacts
<1>2. /\ Typed /\ ValuesAreSound /\ FirstLeaseIsOnce /\ PatchIsKept /\ PatchIsAnnounced
  BY DEF RuntimeInvariant
<1>3. /\ v.lease # 0 /\ v.state \in {"active", "finalizing"} /\ svc.lease[1].state # "none"
      /\ v.lease = 1 => record.lease = 0
      /\ v.lease > 1 => svc.refs.want.lease > 1
  BY <1>1 DEF Starts, Building
<1>4. e \in Entries /\ entry[e].lease = 0 /\ e # 0
  BY DEF NewEntry, Entries
<1> HIDE DEF v
<1>5. /\ entry' \in [Entries -> Values] /\ entry'[e] = v
      /\ \A f \in Entries \ {e} : entry'[f] = entry[f]
      /\ record' = v
  BY <1>1, <1>2, <1>4 DEF Typed, v
<1>6. \A f \in Entries : Sound(svc, entry'[f])
  BY <1>1, <1>2, <1>5 DEF ValuesAreSound
<1>7. v.lease \in Nat /\ svc.refs.want.lease \in Nat
  BY <1>1, ServiceAssumption DEF Values, Services
<1>8. v.lease = 1 => record.lease = 0 /\ \A f \in Entries : entry[f].lease = 0
  BY <1>2, <1>3 DEF FirstLeaseIsOnce
<1>9. /\ Sound(svc, t.val) /\ t.pc \notin {"cleanupRelease", "settled"}
      /\ HoldsEntry(entry', lock', "startup", t) /\ Advances(svc, "startup", t)
      /\ Starts(svc, record', t)
  <2>1. CASE t = Idle
    BY <1>1, <2>1, IdleFacts, IdleIsSound, NoValueIsSound
  <2>2. CASE t = Aimed("finalize", e, v)
    <3>1. "finalize" \in AllPcs /\ e \in 0..MaxEntry
      BY <1>4, RuntimeAssumption DEF AllPcs, WaitingPcs, Entries
    <3>2. t.pc = "finalize" /\ t.e = e /\ t.val = v /\ t.then = "none"
      BY <1>1, <2>2, <3>1, AimedFacts
    <3>3. ~Locking(t) /\ ~Building(t)
      BY <3>2 DEF Locking, Building, LockedPcs, CleanupPcs
    <3> QED
      BY <1>1, <1>3, <1>4, <1>5, <3>2, <3>3
         DEF HoldsEntry, Advances, Starts, CleanupPcs, StartupPcs
  <2> QED
    BY <2>1, <2>2 DEF v
<1>10. Typed' /\ ValuesAreSound' /\ TasksAreSound'
  <2>1. /\ record' \in Values /\ Sound(svc', record') /\ current' \in 0..MaxEntry
        /\ announced' \subseteq Snapshots /\ lock' \in [Entries -> Tasks \cup {"free"}]
    BY <1>1, <1>2, <1>4, RuntimeAssumption DEF Typed, Entries, v
  <2>2. \A f \in Entries : entry[f].lease # 0 => entry'[f].lease # 0 /\ entry'[f] = entry[f]
    BY <1>4, <1>5
  <2> QED
    BY <1>1, <1>5, <1>6, <1>9, <2>1, <2>2, Frame
<1>11. FirstLeaseIsOnce'
  BY <1>2, <1>3, <1>4, <1>5, <1>8 DEF FirstLeaseIsOnce
<1>12. PatchIsKept'
  <2>1. svc.refs.want.lease <= 1 => v.lease = 1
    BY <1>3, <1>7
  <2> QED
    BY <1>3, <1>4, <1>5, <1>7, <1>8, <2>1 DEF PatchIsKept, v
<1>13. PatchIsAnnounced'
  <2>1. svc.refs.want.art = None
    <3>1. svc.refs.want.art # None => v.lease = 1 /\ record.art # None
      BY <1>1, <1>2, <1>3, <1>7 DEF SoundService, PatchIsAnnounced
    <3>2. record.art # None => record.lease = 1
      BY <1>2 DEF ValuesAreSound, Sound
    <3> QED
      BY <1>8, <3>1, <3>2
  <2> QED
    BY <1>2, <2>1 DEF PatchIsAnnounced
<1>14. Starts(svc, record, task["startup"])'
  BY <1>1, <1>2, <1>9 DEF Typed
<1> QED
  BY <1>10, <1>11, <1>12, <1>13, <1>14 DEF RuntimeInvariant

LEMMA PersistPendingKeeps ==
  ASSUME RuntimeInvariant, PersistPending
  PROVE  RuntimeInvariant'
<1> DEFINE k == "startup"
           v == task[k].val
           after(e) == IF v.state = "finalizing" THEN Aimed("finalize", e, v) ELSE Idle
<1>1. /\ task[k].pc = "persist" /\ task[k].pc \in StartupPcs /\ Building(task[k])
      /\ UNCHANGED <<svc, announced, lock>>
  BY DEF PersistPending, At, StartupPcs, Building, others
<1>2. v \in Values /\ Moves(svc, svc)
  BY StartupFacts
<1>3. \/ /\ record' = v
         /\ \E e \in NewEntry :
              /\ entry' = [entry EXCEPT ![e] = v] /\ current' = e
              /\ task' = [task EXCEPT !["startup"] = after(e)]
      \/ /\ Cleanup("startup", "rolledback", v)
         /\ UNCHANGED <<record, entry, announced, lock, current>>
  BY <1>1 DEF PersistPending, Persisted, PersistFails, Val, Aimed
<1>4. ASSUME NEW e \in NewEntry, record' = v, entry' = [entry EXCEPT ![e] = v], current' = e,
             task' = [task EXCEPT !["startup"] = after(e)]
      PROVE  RuntimeInvariant'
  <2>1. "finalize" \in AllPcs /\ e \in 0..MaxEntry
    BY RuntimeAssumption DEF AllPcs, WaitingPcs, Entries, NewEntry
  <2>2. Aimed("finalize", e, v) \in TaskLocals
    BY <1>2, <2>1, AimedFacts
  <2>3. after(e) \in TaskLocals /\ (after(e) = Idle \/ after(e) = Aimed("finalize", e, v))
    BY <2>2, IdleFacts
  <2> HIDE DEF after
  <2> QED
    BY <1>1, <1>4, <2>3, PublishKeeps
<1>5. CASE /\ Cleanup("startup", "rolledback", v)
           /\ UNCHANGED <<record, entry, announced, lock, current>>
  BY <1>1, <1>2, <1>5, RollbackKeeps
<1> QED
  BY <1>3, <1>4, <1>5

(* The record is rewritten without the lock, but never without its patch. *)
LEMMA SettleDurableKeeps ==
  ASSUME RuntimeInvariant, SettleDurable
  PROVE  RuntimeInvariant'
<1> DEFINE k == "startup"
           x == task[k].val
           released == [x EXCEPT !.state = "released", !.rev = task[k].got]
           failed   == [x EXCEPT !.state = "releasing"]
<1>1. /\ task[k].then = "durable" /\ task[k].pc \in CleanupPcs /\ "startup" \in Tasks
      /\ UNCHANGED <<svc, memory, others>> /\ task' = [task EXCEPT !["startup"] = Idle]
      /\ \/ task[k].pc = "settled" /\ record' = released
         \/ record' = failed
         \/ UNCHANGED record
  BY DEF SettleDurable, At, CleanupPcs, Tasks, Persisted, PersistFails, Val
<1>2. /\ x \in Values /\ Sound(svc, x) /\ Starts(svc, record, task[k])
      /\ svc \in Services /\ SoundService(svc) /\ Moves(svc, svc)
  BY StartupFacts
<1>3. x.art # None /\ x.lease = 1
  BY <1>1, CleanupFacts DEF Locking, LockedPcs, CleanupPcs
<1>4. CASE UNCHANGED record
  BY <1>1, <1>2, <1>4, StartupEnds
<1>5. ASSUME NEW v \in Values, Sound(svc, v), v.lease = x.lease, v.art = x.art, record' = v
      PROVE  RuntimeInvariant'
  <2>1. /\ Typed /\ ValuesAreSound /\ FirstLeaseIsOnce /\ PatchIsKept /\ PatchIsAnnounced
    BY DEF RuntimeInvariant
  <2>2. UNCHANGED <<entry, announced, lock, current>>
    BY <1>1 DEF memory, others
  <2>3. /\ HoldsEntry(entry, lock, k, Idle) /\ Advances(svc, k, Idle) /\ Starts(svc, v, Idle)
        /\ Sound(svc, Idle.val) /\ Idle.pc \notin {"cleanupRelease", "settled"}
    BY <1>2, IdleFacts, IdleIsSound, NoValueIsSound
  <2>4. Typed' /\ ValuesAreSound' /\ TasksAreSound'
    BY <1>1, <1>2, <1>5, <2>1, <2>2, <2>3, IdleFacts, Frame DEF Typed, ValuesAreSound
  <2>5. v.lease = 1 /\ svc.lease[1].state # "none"
    BY <1>3, <1>5, <1>2, FirstLease DEF Sound, SoundService
  <2>6. FirstLeaseIsOnce'
    BY <1>1, <1>5, <2>1, <2>2, <2>5 DEF FirstLeaseIsOnce
  <2>7. svc.refs.want.lease <= 1 => record.art # None
    BY <1>1, <1>2 DEF Starts
  <2>8. PatchIsKept'
    BY <1>1, <1>3, <1>5, <2>1, <2>2, <2>5, <2>7 DEF PatchIsKept
  <2>9. PatchIsAnnounced'
    BY <1>1, <1>3, <1>5, <2>1, <2>2 DEF PatchIsAnnounced
  <2>10. Starts(svc, record, task["startup"])'
    BY <1>1, <1>5, <2>1, <2>3 DEF Typed
  <2> QED
    BY <2>4, <2>6, <2>8, <2>9, <2>10 DEF RuntimeInvariant
<1>6. CASE task[k].pc = "settled" /\ record' = released
  <2>1. released \in Values /\ Sound(svc, released) /\ released.lease = x.lease /\ released.art = x.art
    BY <1>1, <1>6, Outcomes, ZenonT(60)
  <2> HIDE DEF released
  <2> QED
    BY <1>5, <1>6, <2>1
<1>7. CASE record' = failed
  <2>1. failed \in Values /\ Sound(svc, failed) /\ failed.lease = x.lease /\ failed.art = x.art
    BY <1>1, Outcomes
  <2> HIDE DEF failed
  <2> QED
    BY <1>5, <1>7, <2>1
<1> QED
  BY <1>1, <1>4, <1>6, <1>7

----------
(* The environment. *)

(* A step that no task takes. *)
LEMMA OutsideKeeps ==
  ASSUME RuntimeInvariant, Moves(svc, svc'), svc'.refs = svc.refs, svc = NewService => svc' = svc,
         UNCHANGED <<record, entry, lock, current, task, announced>>
  PROVE  RuntimeInvariant'
<1> DEFINE t == task["turn"]
<1>1. "turn" \in Tasks
  BY DEF Tasks
<1>2. /\ t \in TaskLocals /\ t.val \in Values /\ Sound(svc, t.val)
      /\ HoldsEntry(entry, lock, "turn", t) /\ Advances(svc, "turn", t)
  BY <1>1, ValueFacts
<1>3. task' = [task EXCEPT !["turn"] = t]
  BY DEF RuntimeInvariant, Typed
<1>4. /\ Sound(svc', t.val)
      /\ t.pc \in {"cleanupRelease", "settled"} => Sound(svc', Got(t))
  <2>1. t.pc \in {"cleanupRelease", "settled"} => Sound(svc, Got(t))
    BY <1>1 DEF RuntimeInvariant, ValuesAreSound
  <2>2. Got(t) \in Values
    BY <1>2 DEF Got, Values, TaskLocals
  <2> QED
    BY <1>2, <2>1, <2>2 DEF Moves
<1>5. Advances(svc', "turn", t)
  <2>1. t.pc \in {"saveCheckpoint", "export"} => t.val.lease \in Leases
    BY <1>1, LockedFacts DEF Locking, LockedPcs
  <2> QED
    BY <1>2, <2>1 DEF Advances, Moves
<1>6. /\ current' \in 0..MaxEntry /\ (current' # 0 => entry[current'].lease # 0)
      /\ lock' \in [Entries -> Tasks \cup {"free"}]
  BY CurrentFacts DEF RuntimeInvariant, Typed
<1> HIDE DEF t
<1> QED
  BY <1>1, <1>2, <1>3, <1>4, <1>5, <1>6, CallKeeps

LEMMA LeaseStepKeeps ==
  ASSUME RuntimeInvariant, NEW l \in Leases, LoseSandbox(l) \/ ReconcileRelease(l)
  PROVE  RuntimeInvariant'
<1>1. svc \in Services /\ SoundService(svc)
  BY StartupFacts
<1>2. svc # NewService
  <2>1. NewService.lease[l] = NoLease
    BY DEF NewService
  <2>2. svc.lease[l].state = "active" \/ svc.lease[l].asked = "open"
    BY DEF LoseSandbox, ReconcileRelease, Active
  <2> QED
    BY <2>1, <2>2, NewLeaseFacts
<1>3. Quiet(svc, svc')
  BY <1>1, ReleaseMoves DEF LoseSandbox, ReconcileRelease
<1>4. Moves(svc, svc') /\ svc'.refs = svc.refs
  BY <1>1, <1>3, QuietMoves DEF Quiet
<1>5. UNCHANGED <<record, entry, lock, current, task, announced>>
  BY DEF LoseSandbox, ReconcileRelease, memory, others
<1> QED
  BY <1>2, <1>4, <1>5, OutsideKeeps

LEMMA CrashKeeps ==
  ASSUME RuntimeInvariant, Crash
  PROVE  RuntimeInvariant'
<1>1. /\ task' = [k \in Tasks |-> Idle] /\ lock' = [e \in Entries |-> "free"] /\ current' = 0
      /\ entry' = [e \in Entries |-> NoValue] /\ UNCHANGED <<svc, record, announced>>
      /\ task'["startup"] = Idle
  BY DEF Crash, Tasks
<1>2. /\ Typed /\ ValuesAreSound /\ FirstLeaseIsOnce /\ PatchIsKept /\ PatchIsAnnounced
      /\ svc \in Services /\ SoundService(svc)
  BY StartupFacts DEF RuntimeInvariant
<1>3. Typed'
  BY <1>1, <1>2, IdleFacts, NoValueFacts, RuntimeAssumption DEF Typed
<1>4. Sound(svc, NoValue) /\ Idle.pc \notin {"cleanupRelease", "settled"}
  BY <1>2, NoValueIsSound, IdleFacts
<1>5. ValuesAreSound'
  BY <1>1, <1>2, <1>4, IdleFacts DEF ValuesAreSound
<1>6. TasksAreSound' /\ Starts(svc, record, task["startup"])'
  BY <1>1, IdleIsSound DEF TasksAreSound
<1>7. FirstLeaseIsOnce' /\ PatchIsKept' /\ PatchIsAnnounced'
  BY <1>1, <1>2, NoValueFacts DEF FirstLeaseIsOnce, PatchIsKept, PatchIsAnnounced
<1> QED
  BY <1>3, <1>5, <1>6, <1>7 DEF RuntimeInvariant

LEMMA InitIsSound == Init => RuntimeInvariant
<1> SUFFICES ASSUME Init PROVE RuntimeInvariant
  OBVIOUS
<1>1. /\ svc = NewService /\ record = NoValue /\ entry = [e \in Entries |-> NoValue]
      /\ lock = [e \in Entries |-> "free"] /\ current = 0 /\ announced = {}
      /\ task = [k \in Tasks |-> Idle] /\ task["startup"] = Idle
  BY DEF Init, Tasks
<1>2. svc \in Services /\ SoundService(svc)
  BY <1>1, NewServiceFacts
<1>3. Typed
  BY <1>1, <1>2, IdleFacts, NoValueFacts, RuntimeAssumption DEF Typed
<1>4. Sound(svc, NoValue) /\ Idle.pc \notin {"cleanupRelease", "settled"}
  BY <1>2, NoValueIsSound, IdleFacts
<1>5. ValuesAreSound
  BY <1>1, <1>2, <1>4, IdleFacts DEF ValuesAreSound
<1>6. TasksAreSound /\ Starts(svc, record, task["startup"])
  BY <1>1, IdleIsSound DEF TasksAreSound
<1>7. FirstLeaseIsOnce /\ PatchIsKept /\ PatchIsAnnounced
  BY <1>1, NewServiceFacts, NoValueFacts
     DEF FirstLeaseIsOnce, PatchIsKept, PatchIsAnnounced
<1> QED
  BY <1>3, <1>5, <1>6, <1>7 DEF RuntimeInvariant

LEMMA StepKeeps == RuntimeInvariant /\ [Next]_vars => RuntimeInvariant'
<1> SUFFICES ASSUME RuntimeInvariant, [Next]_vars PROVE RuntimeInvariant'
  OBVIOUS
<1>1. ASSUME NEW k \in Tasks, TaskStep(k) PROVE RuntimeInvariant'
  BY <1>1, FinalizeBeginKeeps, MarkPendingKeeps, CompletionCheckpointKeeps,
     SaveCompletionKeeps, ExportPatchKeeps, SavePatchKeeps, RetainPatchKeeps,
     AnnouncePatchKeeps, SettleFinalizationKeeps, CleanupRetainKeeps, CleanupReleaseKeeps
     DEF TaskStep, Finalize
<1>2. CASE TurnStep
  BY <1>2, CheckpointBeginKeeps, CheckpointCallKeeps, CheckpointSaveKeeps,
     CheckpointRetainKeeps, CheckpointEndKeeps
     DEF TurnStep
<1>3. CASE RemovalStep
  BY <1>3, ReleaseRemovedKeeps, ReleaseLockedKeeps, SettleRemovalKeeps DEF RemovalStep
<1>4. CASE StartupStep
  BY <1>4, ProvisionKeeps, ReadRecordKeeps, ReconnectKeeps, RejectReconnectKeeps,
     RestoreKeeps, BootKeeps, RetainPendingKeeps, PersistPendingKeeps, RolledBackKeeps,
     SettleDurableKeeps
     DEF StartupStep
<1>5. ASSUME NEW goal \in {"finalize", "checkpoint"}, TurnEnds(goal) PROVE RuntimeInvariant'
  BY <1>5, TurnEndsKeeps
<1>6. CASE RemoveThread \/ RetryCleanup
  BY <1>6, TakeKeeps DEF RemoveThread, RetryCleanup
<1>7. CASE Start \/ Resume
  BY <1>7, StartKeeps, ResumeKeeps
<1>8. CASE Stop \/ UNCHANGED vars
  <2>1. Moves(svc, svc) /\ UNCHANGED <<svc, record, entry, lock, current, task, announced>>
    BY <1>8, StartupFacts DEF Stop, vars, others
  <2> QED
    BY <2>1, OutsideKeeps
<1>9. ASSUME NEW l \in Leases, LoseSandbox(l) \/ ReconcileRelease(l) PROVE RuntimeInvariant'
  BY <1>9, LeaseStepKeeps
<1>10. CASE Crash
  BY <1>10, CrashKeeps
<1> QED
  BY <1>1, <1>2, <1>3, <1>4, <1>5, <1>6, <1>7, <1>8, <1>9, <1>10 DEF Next

(* The inductive invariant of the hosted runtime: every task with an entry  *)
(* has it under the operation lock and with the value it was locked at, and *)
(* every value that still passes the revision fence of the reference set    *)
(* has the patch the service was told of.                                   *)
THEOREM RuntimeInvariantHolds == Spec => []RuntimeInvariant
  BY InitIsSound, StepKeeps, PTL DEF Spec

(* AnnouncedPatchIsDurable: whatever fails, crashes, resumes or cleans up   *)
(* with an older view, a patch that finalize_hosted_runtime announced stays *)
(* in a finished durable record and rooted at the service, in runs of any   *)
(* length with any number of leases, entries, faults and crashes.           *)
THEOREM PatchIsDurable == Spec => []AnnouncedPatchIsDurable
<1>1. RuntimeInvariant => AnnouncedPatchIsDurable
  <2> SUFFICES ASSUME RuntimeInvariant, NEW a \in announced
               PROVE  /\ record.art = a /\ record.state \in Finished
                      /\ svc.refs.rooted /\ svc.refs.want.art = a
    BY DEF AnnouncedPatchIsDurable
  <2>1. svc \in Services /\ SoundService(svc) /\ Sound(svc, record) /\ PatchIsAnnounced
    BY DEF RuntimeInvariant, Typed, ValuesAreSound
  <2>2. svc.refs.want.art # None /\ svc.refs.want.art = a /\ record.art # None
    BY <2>1 DEF PatchIsAnnounced
  <2>3. record.art = a /\ record.state \in Finished /\ svc.refs.want.lease = 1
    BY <2>1, <2>2 DEF Sound, SoundService
  <2>4. svc.refs.rev \in Nat /\ svc.refs.rev # 0
    BY <2>1, <2>3 DEF SoundService, Services
  <2> QED
    BY <2>1, <2>2, <2>3, <2>4 DEF SoundService
<1> QED
  BY <1>1, RuntimeInvariantHolds, PTL
----------
(* The first life of the thread, before any crash or resume: one lease, one *)
(* entry, and while the lease is held the entry is in somebody's hands.     *)
Gone(s) == s.lease[1].state = "released"

DoneIsReleased(s) ==
  \A l \in Leases : s.lease[l].asked = "done" => s.lease[l].state = "released"

Finalizing(t) == t.pc = "finalize" \/ t.pc \in LockedPcs \/ t.then = "finalized"

FirstStart(t) ==
  /\ t.e = 0 /\ t.pc \notin {"read", "reconnect", "restore"} /\ t.then # "durable"
  /\ Building(t) => t.val.lease = 1 /\ t.val.state = "active"

FirstTask(s, t) ==
  /\ t.val.lease <= 1
  /\ t.val.state = "released" \/ t.pc = "settled" => Gone(s)

FirstLife ==
  history = "first" =>
    /\ svc.refs.want.lease <= 1
    /\ FirstStart(task["startup"]) /\ \A k \in Tasks : FirstTask(svc, task[k])
    /\ IF record.lease = 0 THEN record.state = "active"
       ELSE \E e \in Entries : entry[e].lease # 0
    /\ \A e \in Entries : entry[e].state = "released" => Gone(svc)
    /\ Finalizing(task["cleanup"]) => current = task["cleanup"].e
    /\ ~Gone(svc) =>
         \A e \in Entries : entry[e].lease # 0 => e \in {current, task["cleanup"].e}

First == RuntimeInvariant /\ DoneIsReleased(svc) /\ FirstLife /\ history = "first"

(* A released lease stays so, and a release that is done has released it. *)
Ages(s, t) ==
  \A l \in Leases : /\ s.lease[l].state = "released" => t.lease[l].state = "released"
                    /\ t.lease[l].asked = "done" => t.lease[l].state = "released"

LEMMA AgesFacts ==
  ASSUME NEW s, NEW t, Ages(s, t)
  PROVE  DoneIsReleased(t) /\ (Gone(s) => Gone(t))
  BY FirstLease DEF Ages, DoneIsReleased, Gone

LEMMA RowAges ==
  ASSUME NEW s \in Services, DoneIsReleased(s), NEW l \in Leases, NEW r,
         s.lease[l].state = "released" => r.state = "released",
         r.asked = "done" => r.state = "released"
  PROVE  Ages(s, [s EXCEPT !.lease[l] = r])
<1>1. [s EXCEPT !.lease[l] = r].lease = [s.lease EXCEPT ![l] = r]
  BY DEF Services
<1>2. s.lease \in [Leases -> LeaseRows]
  BY DEF Services
<1> QED
  BY <1>1, <1>2 DEF Ages, DoneIsReleased

LEMMA SameLeasesAge ==
  ASSUME NEW s, NEW t, DoneIsReleased(s), t.lease = s.lease
  PROVE  Ages(s, t)
  BY DEF Ages, DoneIsReleased

LEMMA ReleaseAges ==
  ASSUME NEW s \in Services, DoneIsReleased(s), NEW l \in Leases
  PROVE  /\ Ages(s, Claimed(s, l)) /\ Ages(s, Begun(s, l)) /\ Ages(s, Released(s, l))
         /\ Ages(s, Reconciled(s, l)) /\ Ages(s, s)
         /\ Released(s, l).lease[l].state = "released"
         /\ Active(s, l) => Ages(s, Lost(s, l))
<1> DEFINE r == s.lease[l]
<1>1. r \in LeaseRows /\ s.lease \in [Leases -> LeaseRows]
  BY DEF Services
<1>2. r.asked = "done" => r.state = "released"
  BY DEF DoneIsReleased
<1>3. Ages(s, s)
  BY SameLeasesAge
<1>4. Ages(s, Claimed(s, l))
  <2>1. [s EXCEPT !.lease[l].asked = "open"] = [s EXCEPT !.lease[l] = [r EXCEPT !.asked = "open"]]
    BY <1>1 DEF Services
  <2>2. [r EXCEPT !.asked = "open"].state = r.state /\ [r EXCEPT !.asked = "open"].asked = "open"
    BY <1>1 DEF LeaseRows
  <2>3. Ages(s, [s EXCEPT !.lease[l] = [r EXCEPT !.asked = "open"]])
    BY <2>2, RowAges
  <2> QED
    BY <1>3, <2>1, <2>3 DEF Claimed
<1>5. Ages(s, Begun(s, l))
  <2> DEFINE q == [r EXCEPT !.asked = "open", !.state = "release_pending"]
  <2>1. [[s EXCEPT !.lease[l].asked = "open"] EXCEPT !.lease[l].state = "release_pending"]
          = [s EXCEPT !.lease[l] = q]
    BY <1>1 DEF Services, LeaseRows
  <2>2. q.state = "release_pending" /\ q.asked = "open"
    BY <1>1 DEF LeaseRows
  <2> HIDE DEF q
  <2>3. r.state # "released" => Ages(s, [s EXCEPT !.lease[l] = q])
    BY <2>2, RowAges
  <2> QED
    BY <1>3, <2>1, <2>3 DEF Begun, Claimed
<1>6. Ages(s, Released(s, l)) /\ Released(s, l).lease[l].state = "released"
  <2> DEFINE q == [r EXCEPT !.state = "released", !.rooted = FALSE, !.asked = "done"]
  <2>1. [s EXCEPT !.lease[l].state = "released", !.lease[l].rooted = FALSE, !.lease[l].asked = "done"]
          = [s EXCEPT !.lease[l] = q]
    BY <1>1, ZenonT(60) DEF Services, LeaseRows
  <2>2. q.state = "released"
    BY <1>1 DEF LeaseRows
  <2> HIDE DEF q
  <2>3. Ages(s, [s EXCEPT !.lease[l] = q]) /\ [s EXCEPT !.lease[l] = q].lease[l] = q
    BY <1>1, <2>2, RowAges DEF Services
  <2> QED
    BY <1>2, <1>3, <2>1, <2>2, <2>3 DEF Released
<1>7. Ages(s, Reconciled(s, l))
  <2> DEFINE q == [r EXCEPT !.state = "released", !.asked = "done"]
  <2>1. Reconciled(s, l) = [s EXCEPT !.lease[l] = q]
    BY <1>1, ZenonT(60) DEF Services, LeaseRows, Reconciled
  <2>2. q.state = "released"
    BY <1>1 DEF LeaseRows
  <2> HIDE DEF q
  <2> QED
    BY <2>1, <2>2, RowAges
<1>8. Active(s, l) => Ages(s, Lost(s, l))
  <2> DEFINE q == [r EXCEPT !.state = "lost"]
  <2>1. Lost(s, l) = [s EXCEPT !.lease[l] = q]
    BY <1>1 DEF Services, LeaseRows, Lost
  <2>2. q.state = "lost" /\ q.asked = r.asked
    BY <1>1 DEF LeaseRows
  <2> HIDE DEF q
  <2>3. Active(s, l) => r.asked # "done" /\ r.state = "active"
    BY <1>2 DEF Active
  <2> QED
    BY <2>1, <2>2, <2>3, RowAges
<1> QED
  BY <1>3, <1>4, <1>5, <1>6, <1>7, <1>8

LEMMA CheckpointAges ==
  ASSUME NEW s \in Services, DoneIsReleased(s), NEW l \in Leases
  PROVE  Ages(s, Checkpointed(s, l)) /\ Ages(s, CompletionOf(s, l))
<1> DEFINE r == s.lease[l]
           more == [r EXCEPT !.n = @ + 1]
           last == [r EXCEPT !.n = @ + 1, !.final = <<l, r.n + 1>>]
<1>1. r \in LeaseRows /\ s.lease \in [Leases -> LeaseRows]
  BY DEF Services
<1>2. /\ more.state = r.state /\ more.asked = r.asked
      /\ last.state = r.state /\ last.asked = r.asked
  BY <1>1 DEF LeaseRows
<1>3. r.asked = "done" => r.state = "released"
  BY DEF DoneIsReleased
<1>4. Checkpointed(s, l) = [s EXCEPT !.lease[l] = more]
  BY <1>1 DEF Checkpointed, Services
<1>5. CompletionOf(s, l) = IF r.final # None THEN s ELSE [s EXCEPT !.lease[l] = last]
  BY <1>1 DEF Checkpointed, CompletionOf, Services, LeaseRows
<1> HIDE DEF more, last
<1>6. Ages(s, [s EXCEPT !.lease[l] = more]) /\ Ages(s, [s EXCEPT !.lease[l] = last])
  BY <1>2, <1>3, RowAges
<1> QED
  BY <1>4, <1>5, <1>6, SameLeasesAge

LEMMA ProvisionAges ==
  DoneIsReleased(NewService) /\ Ages(NewService, Provisioned(NewService))
<1>1. \A l \in Leases : NewService.lease[l] = NoLease
  BY DEF NewService
<1>2. DoneIsReleased(NewService)
  BY <1>1, NewLeaseFacts DEF DoneIsReleased
<1>3. NewLease.state = "active" /\ NewLease.asked = "no"
  BY NewLeaseFacts DEF NewLease, NoLease
<1>4. Ages(NewService, [NewService EXCEPT !.lease[1] = NewLease])
  BY <1>1, <1>2, <1>3, FirstLease, NewLeaseFacts, NewServiceFacts, RowAges
<1> QED
  BY <1>2, <1>4, SameLeasesAge DEF Provisioned

LEMMA RestoreAges ==
  ASSUME NEW s \in Services, DoneIsReleased(s), NEW p \in Snapshots \ {None}, CanRestore(s, p)
  PROVE  Ages(s, Restored(s, p))
<1> DEFINE h == Heir(s, p)
           made == IF s.lease[p[1]].heir # 0 THEN s ELSE [s EXCEPT !.lease[h] = NewLease]
<1>1. p[1] \in Leases /\ s.lease \in [Leases -> LeaseRows]
  BY DEF Snapshots, Services
<1>2. s.lease[p[1]].heir = 0 => h \in Leases /\ s.lease[h].state = "none"
  <2>1. s.lease[p[1]].heir = 0 => Fresh(s) # {}
    BY DEF CanRestore
  <2> QED
    BY <2>1 DEF Heir, Fresh
<1>3. NewLease.state = "active" /\ NewLease.asked = "no"
  BY NewLeaseFacts DEF NewLease, NoLease
<1>4. Restored(s, p) = [made EXCEPT !.lease[p[1]].heir = h, !.lease[p[1]].state = "released"]
  BY DEF Restored
<1> HIDE DEF h
<1>5. Ages(s, made)
  BY <1>2, <1>3, RowAges, SameLeasesAge
<1>6. made.lease \in [Leases -> LeaseRows] /\ DOMAIN made = {"lease", "refs", "exported"}
  BY <1>1, <1>2, NewLeaseFacts DEF Services
<1> HIDE DEF made
<1>7. /\ Restored(s, p).lease[p[1]].state = "released"
      /\ \A l \in Leases \ {p[1]} : Restored(s, p).lease[l] = made.lease[l]
  BY <1>1, <1>4, <1>6 DEF LeaseRows
<1> QED
  BY <1>1, <1>5, <1>7 DEF Ages

(* The service after a call that was answered or was not. *)
LEMMA CallAges ==
  ASSUME DoneIsReleased(svc), NEW k, NEW pc, NEW can, NEW s, NEW v, NEW next,
         CallStep(k, pc, can, s, v, next), can => Ages(svc, s)
  PROVE  Ages(svc, svc')
  BY SameLeasesAge DEF CallStep, Replies, Errs

LEMMA RetainAges ==
  ASSUME NEW s \in Services, DoneIsReleased(s), NEW v
  PROVE  Ages(s, AfterRetain(s, v)) /\ Ages(s, Exported(s, v)) /\ Exported(s, v).refs = s.refs
<1>1. AfterRetain(s, v).lease = s.lease
  BY DEF AfterRetain, Services
<1>2. Exported(s, v).lease = s.lease /\ Exported(s, v).refs = s.refs
  BY DEF Exported, Services
<1> QED
  BY <1>1, <1>2, SameLeasesAge

LEMMA ReleaseCallAges ==
  ASSUME RuntimeInvariant, DoneIsReleased(svc), NEW l \in Leases,
         Replies(CanRelease(svc, l), Released(svc, l)) \/ ReleaseErrs(l)
  PROVE  Ages(svc, svc')
<1>1. svc \in Services
  BY DEF RuntimeInvariant, Typed
<1>2. svc' \in {svc, Claimed(svc, l), Begun(svc, l), Released(svc, l)}
  BY DEF Replies, ReleaseErrs
<1> QED
  BY <1>1, <1>2, ReleaseAges

LEMMA ServiceAges ==
  ASSUME RuntimeInvariant, DoneIsReleased(svc), [Next]_vars
  PROVE  Ages(svc, svc')
<1>1. svc \in Services /\ Ages(svc, svc)
  BY SameLeasesAge DEF RuntimeInvariant, Typed
<1>2. ASSUME NEW k \in Tasks, Finalize(k) PROVE Ages(svc, svc')
  <2>1. CASE UNCHANGED svc
    BY <1>1, <2>1 DEF Ages
  <2>2. CASE CompletionCheckpoint(k)
    <3>1. task[k].pc \in LockedPcs
      BY <2>2 DEF CompletionCheckpoint, CallStep, At, LockedPcs
    <3>2. task[k].val.lease \in Leases
      BY <3>1, LockedFacts DEF Locking
    <3> QED
      BY <1>1, <2>2, <3>2, CallAges, CheckpointAges DEF CompletionCheckpoint, Val
  <2>3. CASE ExportPatch(k)
    BY <1>1, <2>3, CallAges, RetainAges DEF ExportPatch
  <2>4. CASE RetainPatch(k)
    BY <1>1, <2>4, CallAges, RetainAges DEF RetainPatch
  <2> QED
    BY <1>2, <2>1, <2>2, <2>3, <2>4
       DEF Finalize, FinalizeBegin, MarkPending, SaveCompletion, SavePatch, PersistStep,
           AnnouncePatch, SettleFinalization
<1>3. ASSUME NEW k \in Tasks, CleanupRetain(k) PROVE Ages(svc, svc')
  BY <1>1, <1>3, RetainAges DEF CleanupRetain, Replies, Errs, Val
<1>4. ASSUME NEW k \in Tasks, CleanupRelease(k) PROVE Ages(svc, svc')
  <2>1. task[k].val.lease \in Leases
    BY <1>4, CleanupFacts DEF CleanupRelease, At, CleanupPcs
  <2> QED
    BY <1>4, <2>1, ReleaseCallAges DEF CleanupRelease, Val
<1>5. CASE TurnStep
  <2>1. CASE UNCHANGED svc
    BY <1>1, <2>1 DEF Ages
  <2>2. CASE CheckpointCall
    <3>1. task["turn"].pc \in LockedPcs /\ "turn" \in Tasks
      BY <2>2 DEF CheckpointCall, CallStep, At, LockedPcs, Tasks
    <3>2. task["turn"].val.lease \in Leases
      BY <3>1, LockedFacts DEF Locking
    <3> QED
      BY <1>1, <2>2, <3>2, CallAges, CheckpointAges DEF CheckpointCall, Val
  <2>3. CASE CheckpointRetain
    BY <1>1, <2>3, CallAges, RetainAges DEF CheckpointRetain
  <2> QED
    BY <1>5, <2>1, <2>2, <2>3
       DEF TurnStep, CheckpointBegin, CheckpointSaveSnapshot, CheckpointSaveRevision,
           PersistStep, CheckpointEnd
<1>6. CASE StartupStep
  <2> DEFINE t == task["startup"]
  <2>0. t.val \in Values /\ Sound(svc, t.val) /\ Starts(svc, record, t)
    BY StartupFacts
  <2>1. CASE UNCHANGED svc
    BY <1>1, <2>1 DEF Ages
  <2>2. CASE Provision
    <3>1. svc = NewService
      BY <2>0, <2>2 DEF Provision, CallStep, At, Starts
    <3> QED
      BY <2>2, <3>1, CallAges, ProvisionAges DEF Provision
  <2>3. CASE RejectReconnect
    <3>1. t.val.lease \in Leases
      BY <2>0, <2>3 DEF RejectReconnect, At, Starts, Values, Leases
    <3> QED
      BY <2>3, <3>1, ReleaseCallAges DEF RejectReconnect, Val
  <2>4. CASE Restore
    <3>1. t.val.latest \in Snapshots \ {None}
      BY <2>0, <2>4 DEF Restore, CallStep, At, Starts, Sound, Values
    <3> QED
      BY <1>1, <2>4, <3>1, CallAges, RestoreAges DEF Restore, Val
  <2>5. CASE RetainPending
    BY <1>1, <2>5, RetainAges DEF RetainPending, Replies, Errs
  <2> QED
    BY <1>6, <2>1, <2>2, <2>3, <2>4, <2>5
       DEF StartupStep, ReadRecord, Reconnect, Boot, PersistPending, RolledBack,
           SettleDurable
<1>7. ASSUME NEW l \in Leases, LoseSandbox(l) \/ ReconcileRelease(l) PROVE Ages(svc, svc')
  BY <1>1, <1>7, ReleaseAges DEF LoseSandbox, ReconcileRelease
<1>8. CASE UNCHANGED svc
  BY <1>1, <1>8 DEF Ages
<1> QED
  BY <1>2, <1>3, <1>4, <1>5, <1>6, <1>7, <1>8
     DEF Next, TaskStep, RemovalStep, ReleaseRemoved, ReleaseLocked, SettleRemoval,
         TurnEnds, RemoveThread, RetryCleanup, Take, Start, Stop, Resume, Crash, vars

(* What the first life knows in a state of its own. *)
LEMMA FirstFacts ==
  ASSUME First
  PROVE  /\ RuntimeInvariant /\ DoneIsReleased(svc) /\ svc.refs.want.lease <= 1
         /\ FirstStart(task["startup"]) /\ \A k \in Tasks : FirstTask(svc, task[k])
         /\ IF record.lease = 0 THEN record.state = "active"
            ELSE \E e \in Entries : entry[e].lease # 0
         /\ \A e \in Entries : entry[e].state = "released" => Gone(svc)
         /\ Finalizing(task["cleanup"]) => current = task["cleanup"].e
         /\ ~Gone(svc) =>
              \A e \in Entries : entry[e].lease # 0 => e \in {current, task["cleanup"].e}
         /\ \A e \in Entries : entry[e].lease \in {0, 1}
         /\ \A e, f \in Entries : entry[e].lease # 0 /\ entry[f].lease # 0 => e = f
<1>1. FirstLife /\ history = "first" /\ RuntimeInvariant /\ DoneIsReleased(svc)
  BY DEF First
<1>2. svc.refs.want.lease <= 1
  BY <1>1 DEF FirstLife
<1>3. \A e \in Entries : entry[e].lease \in {0, 1}
  BY <1>1, <1>2, ServiceAssumption DEF RuntimeInvariant, PatchIsKept, Typed, Values
<1>4. \A e, f \in Entries : entry[e].lease # 0 /\ entry[f].lease # 0 => e = f
  BY <1>1, <1>3 DEF RuntimeInvariant, FirstLeaseIsOnce
<1> QED
  BY <1>1, <1>3, <1>4 DEF FirstLife

(* A step of one task.  Only the removal takes the entry out of the map,    *)
(* and it lets go of an entry only with the lease, or by putting it back.   *)
LEMMA LifeFrame ==
  ASSUME First, RuntimeInvariant', Ages(svc, svc'), svc'.refs.want.lease <= 1,
         NEW k \in Tasks, NEW t, task' = [task EXCEPT ![k] = t],
         FirstTask(svc', t), k = "startup" => FirstStart(t),
         record' = record \/ (record.lease # 0 /\ record'.lease # 0),
         \A e \in Entries : entry'[e].lease = entry[e].lease,
         \A e \in Entries : entry'[e].state = "released" =>
           entry[e].state = "released" \/ Gone(svc'),
         k # "cleanup" => current' = current,
         k = "cleanup" /\ Finalizing(t) => current' = t.e,
         k = "cleanup" /\ ~Gone(svc') =>
           \A e \in Entries : entry[e].lease # 0 => e \in {current', t.e}
  PROVE  FirstLife'
<1>1. Gone(svc) => Gone(svc')
  BY AgesFacts
<1>2. task \in [Tasks -> TaskLocals] /\ "startup" \in Tasks /\ "cleanup" \in Tasks
  BY DEF First, RuntimeInvariant, Typed, Tasks
<1>3. task'[k] = t /\ \A j \in Tasks \ {k} : task'[j] = task[j]
  BY <1>2
<1>4. FirstStart(task'["startup"])
  BY <1>2, <1>3, FirstFacts
<1>5. \A j \in Tasks : FirstTask(svc', task'[j])
  BY <1>1, <1>3, FirstFacts DEF FirstTask
<1>6. IF record'.lease = 0 THEN record'.state = "active"
      ELSE \E e \in Entries : entry'[e].lease # 0
  BY FirstFacts
<1>7. \A e \in Entries : entry'[e].state = "released" => Gone(svc')
  BY <1>1, FirstFacts
<1>8. Finalizing(task'["cleanup"]) => current' = task'["cleanup"].e
  BY <1>2, <1>3, FirstFacts
<1>9. ~Gone(svc') =>
        \A e \in Entries : entry'[e].lease # 0 => e \in {current', task'["cleanup"].e}
  BY <1>1, <1>2, <1>3, FirstFacts
<1> QED
  BY <1>4, <1>5, <1>6, <1>7, <1>8, <1>9 DEF FirstLife

LEMMA IdleIsFirst ==
  ASSUME NEW s
  PROVE  FirstTask(s, Idle) /\ FirstStart(Idle) /\ ~Finalizing(Idle)
  BY IdleFacts, NoValueFacts
     DEF FirstTask, FirstStart, Finalizing, Building, LockedPcs, CleanupPcs

(* A finalization in the first life is one of a turn or of a removal, which *)
(* has put its entry back.                                                  *)
LEMMA FinalizerFacts ==
  ASSUME First, NEW k \in Tasks,
         task[k].pc = "finalize" \/ task[k].pc \in LockedPcs
           \/ (task[k].pc \in CleanupPcs /\ task[k].then = "finalized")
  PROVE  /\ k # "startup" /\ task[k].e \in Entries /\ entry[task[k].e].lease # 0
         /\ k = "cleanup" => current = task[k].e
         /\ record.lease # 0 /\ task[k].val \in Values /\ task[k].val.lease <= 1
         /\ task[k].val.state = "released" => Gone(svc)
         /\ task[k] \in TaskLocals /\ svc \in Services
<1>1. RuntimeInvariant /\ task[k] \in TaskLocals /\ task[k].val \in Values /\ svc \in Services
  BY ValueFacts DEF First
<1>2. task[k].e \in Entries /\ entry[task[k].e].lease # 0
  BY <1>1, LockedFacts, EntryThen DEF Locking, WaitingPcs
<1>3. record.lease # 0
  BY <1>1, <1>2 DEF RuntimeInvariant, FirstLeaseIsOnce
<1>4. k # "startup"
  BY <1>2, FirstFacts DEF FirstStart, Entries
<1> QED
  BY <1>1, <1>2, <1>3, <1>4, FirstFacts DEF Finalizing, FirstTask

(* It ends, by itself or because something failed. *)
LEMMA ReturnLives ==
  ASSUME First, RuntimeInvariant', Ages(svc, svc'), svc'.refs.want.lease <= 1, NEW k \in Tasks,
         task[k].pc = "finalize" \/ task[k].pc \in LockedPcs
           \/ (task[k].pc \in CleanupPcs /\ task[k].then = "finalized"),
         task' = [task EXCEPT ![k] = Idle], Dropped(k),
         record' = record \/ record'.lease # 0,
         \A e \in Entries : entry'[e].lease = entry[e].lease,
         \A e \in Entries : entry'[e].state = "released" =>
           entry[e].state = "released" \/ Gone(svc')
  PROVE  FirstLife'
<1>1. /\ k # "startup" /\ task[k].e \in Entries /\ (k = "cleanup" => current = task[k].e)
      /\ record.lease # 0
  BY FinalizerFacts
<1>2. Gone(svc) => Gone(svc')
  BY AgesFacts
<1>3. entry'[task[k].e].state = "released" => Gone(svc')
  BY <1>1, <1>2, FirstFacts
<1>4. current' = current \/ (k = "cleanup" /\ Gone(svc'))
  BY <1>1, <1>3 DEF Dropped, Tasks
<1>5. k = "cleanup" /\ ~Gone(svc') =>
        \A e \in Entries : entry[e].lease # 0 => e \in {current', Idle.e}
  BY <1>1, <1>2, <1>4, FirstFacts
<1> QED
  BY <1>1, <1>4, <1>5, IdleIsFirst, LifeFrame

LEMMA PersistLives ==
  ASSUME First, RuntimeInvariant', NEW k \in Tasks, NEW pc \in LockedPcs, NEW v \in Values,
         NEW next \in LockedPcs, PersistStep(k, pc, v, next), v.lease = task[k].val.lease,
         v.state = "released" => task[k].val.state = "released"
  PROVE  FirstLife'
<1> DEFINE t == Moved(task[k], next, v)
<1>1. task[k].pc \in LockedPcs /\ svc' = svc
  BY DEF PersistStep, At
<1>2. /\ k # "startup" /\ task[k].e \in Entries /\ (k = "cleanup" => current = task[k].e)
      /\ record.lease # 0 /\ v.lease <= 1 /\ (v.state = "released" => Gone(svc))
      /\ task[k] \in TaskLocals
  BY <1>1, FinalizerFacts
<1>3. Ages(svc, svc') /\ svc'.refs.want.lease <= 1 /\ RuntimeInvariant
  BY <1>1, FirstFacts, SameLeasesAge
<1>4. v.lease = entry[task[k].e].lease /\ v.lease # 0 /\ entry \in [Entries -> Values]
  BY <1>1, <1>3, LockedFacts DEF Locking, RuntimeInvariant, Typed
<1>5. CASE /\ Persisted(v) /\ entry' = [entry EXCEPT ![task[k].e] = v]
           /\ With(k, next, v) /\ UNCHANGED <<lock, current>>
  <2>0. next \in AllPcs /\ With(k, next, v) /\ v \in Values
    BY <1>5 DEF AllPcs
  <2>1. /\ task' = [task EXCEPT ![k] = t] /\ t.pc = next /\ t.val = v /\ t.e = task[k].e
        /\ t.then = task[k].then
    BY <1>2, <1>3, <2>0, WithFacts, MovedFacts
  <2> HIDE DEF t
  <2>2. FirstTask(svc', t)
    BY <1>1, <1>2, <2>1 DEF FirstTask, LockedPcs
  <2>3. /\ \A e \in Entries : entry'[e].lease = entry[e].lease
        /\ \A e \in Entries : entry'[e].state = "released" =>
             entry[e].state = "released" \/ Gone(svc')
    BY <1>1, <1>2, <1>4, <1>5
  <2>4. /\ k = "cleanup" => current' = t.e
        /\ k = "cleanup" /\ ~Gone(svc') =>
             \A e \in Entries : entry[e].lease # 0 => e \in {current', t.e}
    BY <1>1, <1>2, <1>5, <2>1, FirstFacts
  <2>5. record' = v
    BY <1>5 DEF Persisted
  <2> QED
    BY <1>2, <1>3, <1>4, <1>5, <2>1, <2>2, <2>3, <2>4, <2>5, LifeFrame
<1>6. CASE PersistFails /\ UNCHANGED entry /\ Return(k)
  BY <1>1, <1>3, <1>6, ReturnLives DEF PersistFails, Return, End
<1> QED
  BY <1>5, <1>6 DEF PersistStep

LEMMA CallLives ==
  ASSUME First, RuntimeInvariant', Ages(svc, svc'), NEW k \in Tasks, NEW pc \in LockedPcs,
         NEW can, NEW s, NEW v, can => v \in Values, NEW next \in LockedPcs,
         CallStep(k, pc, can, s, v, next), can => s.refs.want.lease <= 1,
         can => v.lease = task[k].val.lease,
         can => (v.state = "released" => task[k].val.state = "released")
  PROVE  FirstLife'
<1> DEFINE t == Moved(task[k], next, v)
<1>1. task[k].pc \in LockedPcs /\ record' = record
  BY DEF CallStep, At
<1>2. /\ k # "startup" /\ task[k].e \in Entries /\ (k = "cleanup" => current = task[k].e)
      /\ task[k].val.lease <= 1 /\ (task[k].val.state = "released" => Gone(svc))
      /\ task[k] \in TaskLocals
  BY <1>1, FinalizerFacts
<1>3. svc'.refs.want.lease <= 1 /\ RuntimeInvariant /\ (Gone(svc) => Gone(svc'))
  BY FirstFacts, AgesFacts DEF CallStep, Replies, Errs
<1>4. CASE Replies(can, s) /\ With(k, next, v) /\ UNCHANGED <<entry, lock, current>>
  <2>0. next \in AllPcs /\ With(k, next, v) /\ v \in Values
    BY <1>4 DEF AllPcs, Replies
  <2>1. /\ task' = [task EXCEPT ![k] = t] /\ t.pc = next /\ t.val = v /\ t.e = task[k].e
        /\ t.then = task[k].then
    BY <1>2, <1>3, <2>0, WithFacts, MovedFacts
  <2> HIDE DEF t
  <2>2. FirstTask(svc', t)
    BY <1>2, <1>3, <1>4, <2>1 DEF FirstTask, LockedPcs, Replies
  <2>3. /\ k = "cleanup" => current' = t.e
        /\ k = "cleanup" /\ ~Gone(svc') =>
             \A e \in Entries : entry[e].lease # 0 => e \in {current', t.e}
    BY <1>2, <1>3, <1>4, <2>1, FirstFacts
  <2> QED
    BY <1>1, <1>2, <1>3, <1>4, <2>1, <2>2, <2>3, LifeFrame
<1>5. CASE Errs(can, s) /\ UNCHANGED entry /\ Return(k)
  BY <1>1, <1>3, <1>5, ReturnLives DEF Return, End
<1> QED
  BY <1>4, <1>5 DEF CallStep

LEMMA SavesLive ==
  ASSUME First, RuntimeInvariant', NEW k \in Tasks,
         MarkPending(k) \/ SaveCompletion(k) \/ SavePatch(k)
           \/ (k = "turn" /\ (CheckpointSaveSnapshot \/ CheckpointSaveRevision))
  PROVE  FirstLife'
<1>1. /\ Val(k) \in Values /\ Val(k) = task[k].val
      /\ {"mark", "complete", "saveCheckpoint", "export", "savePatch", "retain",
          "saveSnapshot", "retainSnapshot", "saveRetained", "unlock"} \subseteq LockedPcs
  BY ValueFacts DEF First, Val, LockedPcs
<1>2. CASE MarkPending(k)
  <2> DEFINE v == [Val(k) EXCEPT !.state = "finalizing"]
  <2>1. v \in Values /\ v.lease = task[k].val.lease /\ v.state = "finalizing"
    BY <1>1 DEF Values, States
  <2>2. PersistStep(k, "mark", v, "complete")
    BY <1>2 DEF MarkPending
  <2> QED
    BY <1>1, <2>1, <2>2, PersistLives
<1>3. CASE ~MarkPending(k)
  <2>1. \E pc, next \in LockedPcs : PersistStep(k, pc, Val(k), next)
    BY <1>1, <1>3
       DEF SaveCompletion, SavePatch, CheckpointSaveSnapshot, CheckpointSaveRevision
  <2> QED
    BY <1>1, <2>1, PersistLives
<1> QED
  BY <1>2, <1>3

(* A retain wants the lease of the value, here the first one. *)
LEMMA RetainWants ==
  ASSUME First, NEW k \in Tasks, NEW s, s = AfterRetain(svc, task[k].val)
  PROVE  s.refs.want.lease <= 1 /\ s.refs.rev \in Nat
<1>1. svc \in Services /\ task[k].val \in Values /\ task[k].val.lease <= 1
  BY ValueFacts, FirstFacts DEF First, FirstTask
<1> DEFINE W == [lease : 0..MaxLease, base : Snapshots, latest : Snapshots, art : Snapshots]
<1>2. /\ svc.refs \in [rev : Nat, want : W, cleared : BOOLEAN, rooted : BOOLEAN]
      /\ Want(task[k].val) \in W /\ Want(task[k].val).lease = task[k].val.lease
  BY <1>1 DEF Services, Values, Want
<1>3. s.refs = Retained(svc.refs, Want(task[k].val))
  BY <1>1 DEF AfterRetain, Services
<1> HIDE DEF W
<1> QED
  BY <1>1, <1>2, <1>3, RetainedRow

LEMMA CallsLive ==
  ASSUME First, RuntimeInvariant', Ages(svc, svc'), NEW k \in Tasks,
         CompletionCheckpoint(k) \/ ExportPatch(k) \/ RetainPatch(k)
           \/ (k = "turn" /\ (CheckpointCall \/ CheckpointRetain))
  PROVE  FirstLife'
<1> DEFINE x == task[k].val
           l == x.lease
<1>1. /\ {"complete", "saveCheckpoint", "export", "savePatch", "retain", "saveRevision",
          "snapshot", "saveSnapshot", "retainSnapshot", "saveRetained"} \subseteq LockedPcs
      /\ task[k].pc \in LockedPcs
  BY DEF LockedPcs, CompletionCheckpoint, ExportPatch, RetainPatch, CheckpointCall,
         CheckpointRetain, CallStep, At
<1>2. /\ x \in Values /\ l \in Leases /\ svc \in Services /\ SoundService(svc)
      /\ svc.refs.want.lease <= 1 /\ RuntimeInvariant
  BY <1>1, ValueFacts, LockedFacts, FirstFacts DEF First, Locking
<1>3. CASE CompletionCheckpoint(k)
  <2> DEFINE s == CompletionOf(svc, l)
             v == [x EXCEPT !.latest = s.lease[l].final]
  <2>1. CanComplete(svc, l) => s.refs = svc.refs /\ s.lease[l].final \in Snapshots
    BY <1>2, CheckpointMoves DEF Quiet
  <2>2. CanComplete(svc, l) => v \in Values /\ v.lease = l /\ v.state = x.state
    BY <1>2, <2>1 DEF Values
  <2>3. CallStep(k, "complete", CanComplete(svc, l) /\ CompletionKey(l) \notin refused, s, v,
                 "saveCheckpoint")
    BY <1>3 DEF CompletionCheckpoint, Val
  <2> HIDE DEF s, v
  <2> QED
    BY <1>1, <1>2, <2>1, <2>2, <2>3, CallLives
<1>4. CASE ExportPatch(k)
  <2> DEFINE s == Exported(svc, x.latest)
             v == [x EXCEPT !.art = x.latest, !.state = "completed"]
  <2>1. s.refs = svc.refs
    BY <1>2 DEF Exported, Services
  <2>2. v \in Values /\ v.lease = l /\ v.state = "completed"
    BY <1>2 DEF Values, States
  <2>3. CallStep(k, "export", CanExport(svc, l, x.base, x.latest) /\ ExportKey(x.latest) \notin refused, s, v,
                 "savePatch")
    BY <1>4 DEF ExportPatch, Val
  <2> HIDE DEF s, v
  <2> QED
    BY <1>1, <1>2, <2>1, <2>2, <2>3, CallLives
<1>5. CASE RetainPatch(k) \/ (k = "turn" /\ CheckpointRetain)
  <2> DEFINE s == AfterRetain(svc, x)
             v == [x EXCEPT !.rev = s.refs.rev]
  <2>1. s.refs.want.lease <= 1 /\ s.refs.rev \in Nat
    BY RetainWants
  <2>2. v \in Values /\ v.lease = l /\ v.state = x.state
    BY <1>2, <2>1 DEF Values
  <2>3. \/ CallStep(k, "retain", CanRetain(svc, x), s, v, "saveRevision")
        \/ CallStep(k, "retainSnapshot", CanRetain(svc, x), s, v, "saveRetained")
    BY <1>5 DEF RetainPatch, CheckpointRetain, Val
  <2> HIDE DEF s, v
  <2> QED
    BY <1>1, <2>1, <2>2, <2>3, CallLives
<1>6. CASE k = "turn" /\ CheckpointCall
  <2> DEFINE s == Checkpointed(svc, l)
             v == [x EXCEPT !.latest = Latest(s, l)]
  <2>1. CanCheckpoint(svc, l) => s.refs = svc.refs /\ Latest(s, l) \in Snapshots
    BY <1>2, CheckpointMoves DEF Quiet
  <2>2. CanCheckpoint(svc, l) => v \in Values /\ v.lease = l /\ v.state = x.state
    BY <1>2, <2>1 DEF Values
  <2>3. CallStep(k, "snapshot", CanCheckpoint(svc, l), s, v, "saveSnapshot")
    BY <1>6 DEF CheckpointCall, Val
  <2> HIDE DEF s, v
  <2> QED
    BY <1>1, <1>2, <2>1, <2>2, <2>3, CallLives
<1> QED
  BY <1>3, <1>4, <1>5, <1>6

LEMMA FinalizeBeginLives ==
  ASSUME First, RuntimeInvariant', NEW k \in Tasks, FinalizeBegin(k)
  PROVE  FirstLife'
<1> DEFINE v == entry[task[k].e]
           pc == CASE v.state = "active" -> "mark"
                   [] v.state = "finalizing" -> "complete"
                   [] OTHER -> "retain"
           t == Moved(task[k], pc, v)
<1>1. task[k].pc = "finalize" /\ UNCHANGED <<svc, record, entry>>
  BY DEF FinalizeBegin, At
<1>2. /\ k # "startup" /\ task[k].e \in Entries /\ (k = "cleanup" => current = task[k].e)
      /\ task[k] \in TaskLocals
  BY <1>1, FinalizerFacts
<1>3. /\ Ages(svc, svc') /\ svc'.refs.want.lease <= 1 /\ RuntimeInvariant
      /\ v \in Values /\ v.lease <= 1 /\ (v.state = "released" => Gone(svc))
  <2>1. RuntimeInvariant /\ entry \in [Entries -> Values]
    BY DEF First, RuntimeInvariant, Typed
  <2> QED
    BY <1>1, <1>2, <2>1, FirstFacts, SameLeasesAge
<1>4. CASE Over(v)
  BY <1>1, <1>3, <1>4, ReturnLives DEF FinalizeBegin, Value
<1>5. CASE ~Over(v)
  <2>1. With(k, pc, v) /\ current' = current
    BY <1>5 DEF FinalizeBegin, Value
  <2>2. pc \in LockedPcs /\ pc \in AllPcs
    BY DEF LockedPcs, AllPcs
  <2> HIDE DEF pc
  <2>3. /\ task' = [task EXCEPT ![k] = t] /\ t.pc = pc /\ t.val = v /\ t.e = task[k].e
    BY <1>2, <1>3, <2>1, <2>2, WithFacts, MovedFacts
  <2> HIDE DEF t
  <2>4. FirstTask(svc', t)
    BY <1>1, <1>3, <2>2, <2>3 DEF FirstTask, LockedPcs
  <2>5. k = "cleanup" /\ ~Gone(svc') =>
          \A e \in Entries : entry[e].lease # 0 => e \in {current', t.e}
    BY <1>1, <1>2, <2>1, <2>3, FirstFacts
  <2> QED
    BY <1>1, <1>2, <1>3, <2>1, <2>3, <2>4, <2>5, LifeFrame
<1> QED
  BY <1>4, <1>5

LEMMA AnnouncePatchLives ==
  ASSUME First, RuntimeInvariant', NEW k \in Tasks, AnnouncePatch(k)
  PROVE  FirstLife'
<1> DEFINE v == task[k].val
           t == Cleaning(task[k], "finalized", v)
<1>1. task[k].pc = "saveRevision" /\ task[k].pc \in LockedPcs /\ svc' = svc
  BY DEF AnnouncePatch, At, LockedPcs
<1>2. /\ k # "startup" /\ task[k].e \in Entries /\ (k = "cleanup" => current = task[k].e)
      /\ record.lease # 0 /\ v \in Values /\ v.lease <= 1 /\ (v.state = "released" => Gone(svc))
      /\ task[k] \in TaskLocals
  BY <1>1, FinalizerFacts
<1>3. /\ Ages(svc, svc') /\ svc'.refs.want.lease <= 1 /\ RuntimeInvariant
      /\ v.lease = entry[task[k].e].lease /\ v.lease # 0 /\ entry \in [Entries -> Values]
  <2>1. RuntimeInvariant /\ entry \in [Entries -> Values]
    BY DEF First, RuntimeInvariant, Typed
  <2> QED
    BY <1>1, <2>1, FirstFacts, SameLeasesAge, LockedFacts DEF Locking
<1>4. CASE Return(k) /\ UNCHANGED <<record, entry>>
  BY <1>1, <1>3, <1>4, ReturnLives DEF Return, End
<1>5. CASE /\ (UNCHANGED <<record, entry>> \/ (record' = v /\ entry' = [entry EXCEPT ![task[k].e] = v]))
           /\ Cleanup(k, "finalized", v) /\ current' = current
  <2>0. "finalized" \in Callers
    BY DEF Callers
  <2>1. /\ task' = [task EXCEPT ![k] = t] /\ t.pc = "cleanupRetain" /\ t.val = v
        /\ t.e = task[k].e
    <3>1. t.pc = "cleanupRetain" /\ t.val = v /\ t.e = task[k].e
      BY <1>2, <2>0, CleaningFacts
    <3> QED
      BY <1>3, <1>5, <3>1, TaskUpdates
  <2> HIDE DEF t
  <2>2. FirstTask(svc', t)
    BY <1>1, <1>2, <2>1 DEF FirstTask
  <2>3. k = "cleanup" /\ ~Gone(svc') =>
          \A e \in Entries : entry[e].lease # 0 => e \in {current', t.e}
    BY <1>1, <1>2, <1>5, <2>1, FirstFacts
  <2>4. /\ \A e \in Entries : entry'[e].lease = entry[e].lease
        /\ \A e \in Entries : entry'[e].state = "released" =>
             entry[e].state = "released" \/ Gone(svc')
    BY <1>1, <1>2, <1>3, <1>5
  <2> QED
    BY <1>2, <1>3, <1>5, <2>1, <2>2, <2>3, <2>4, LifeFrame
<1> QED
  BY <1>4, <1>5 DEF AnnouncePatch, PersistFails, Persisted, Val

LEMMA SettleFinalizationLives ==
  ASSUME First, RuntimeInvariant', NEW k \in Tasks, SettleFinalization(k)
  PROVE  FirstLife'
<1>1. /\ task[k].pc \in CleanupPcs /\ task[k].then = "finalized" /\ svc' = svc
      /\ task[k].pc \in {"settled", "unsettled"}
  BY DEF SettleFinalization, CleanupPcs
<1>2. PICK v : /\ entry' = [entry EXCEPT ![task[k].e] = v] /\ record' \in {record, v}
               /\ \/ v = [task[k].val EXCEPT !.state = "releasing"]
                  \/ /\ task[k].pc = "settled"
                     /\ v = [task[k].val EXCEPT !.state = "released", !.rev = task[k].got]
  BY <1>1 DEF SettleFinalization, Persisted, PersistFails, Val, At
<1>3. /\ task[k].e \in Entries /\ task[k].val \in Values
  BY <1>1, FinalizerFacts
<1>4. v.lease = task[k].val.lease /\ (v.state = "released" => Gone(svc))
  <2>1. task[k].pc = "settled" => Gone(svc)
    BY FirstFacts DEF FirstTask
  <2> QED
    BY <1>2, <1>3, <2>1 DEF Values
<1>5. /\ Ages(svc, svc') /\ svc'.refs.want.lease <= 1 /\ v.lease # 0
      /\ v.lease = entry[task[k].e].lease /\ entry \in [Entries -> Values]
  <2>1. RuntimeInvariant /\ entry \in [Entries -> Values] /\ Locking(task[k])
    BY <1>1 DEF First, RuntimeInvariant, Typed, Locking
  <2> QED
    BY <1>1, <1>4, <2>1, FirstFacts, SameLeasesAge, LockedFacts
<1>6. /\ \A e \in Entries : entry'[e].lease = entry[e].lease
      /\ \A e \in Entries : entry'[e].state = "released" =>
           entry[e].state = "released" \/ Gone(svc')
  BY <1>1, <1>2, <1>3, <1>4, <1>5
<1>7. task' = [task EXCEPT ![k] = Idle] /\ Dropped(k)
  BY DEF SettleFinalization, Return, End
<1> QED
  BY <1>1, <1>2, <1>5, <1>6, <1>7, ReturnLives

(* The cleanup keeps its task and entry, and knows when the lease is gone. *)
LEMMA PassLives ==
  ASSUME First, RuntimeInvariant', Ages(svc, svc'), svc'.refs.want.lease <= 1,
         NEW k \in Tasks, NEW t, task' = [task EXCEPT ![k] = t], task[k].pc \in CleanupPcs,
         t.pc \in CleanupPcs, t.e = task[k].e, t.val = task[k].val, t.then = task[k].then,
         t.pc = "settled" => Gone(svc'), UNCHANGED <<record, entry, current>>
  PROVE  FirstLife'
<1>1. Gone(svc) => Gone(svc')
  BY AgesFacts
<1>2. FirstTask(svc', t)
  BY <1>1, FirstFacts DEF FirstTask
<1>3. k = "startup" => FirstStart(t)
  BY FirstFacts DEF FirstStart, Building, CleanupPcs
<1>4. k = "cleanup" /\ Finalizing(t) => current' = t.e
  BY FirstFacts DEF Finalizing, CleanupPcs, LockedPcs
<1>5. k = "cleanup" /\ ~Gone(svc') =>
        \A e \in Entries : entry[e].lease # 0 => e \in {current', t.e}
  BY <1>1, FirstFacts
<1> QED
  BY <1>2, <1>3, <1>4, <1>5, LifeFrame

LEMMA CleanupRetainLives ==
  ASSUME First, RuntimeInvariant', Ages(svc, svc'), NEW k \in Tasks, CleanupRetain(k)
  PROVE  FirstLife'
<1> DEFINE s == AfterRetain(svc, task[k].val)
<1>1. /\ task[k].pc = "cleanupRetain" /\ task[k].pc \in CleanupPcs
      /\ UNCHANGED <<record, entry, current>>
  BY DEF CleanupRetain, At, CleanupPcs, memory
<1>2. RuntimeInvariant /\ task[k] \in TaskLocals
  BY ValueFacts DEF First
<1>3. s.refs.want.lease <= 1 /\ s.refs.rev \in Nat
  BY RetainWants
<1> HIDE DEF s
<1>4. svc'.refs.want.lease <= 1
  BY <1>3, FirstFacts DEF CleanupRetain, Replies, Errs, Val, s
<1>5. CASE svc' = s /\ task' = [task EXCEPT ![k].pc = "cleanupRelease", ![k].got = svc'.refs.rev]
  <2> DEFINE t == Answered(task[k], s.refs.rev)
  <2>1. /\ task' = [task EXCEPT ![k] = t] /\ t.pc = "cleanupRelease" /\ t.e = task[k].e
        /\ t.val = task[k].val /\ t.then = task[k].then
    BY <1>2, <1>3, <1>5, TaskUpdates, AnsweredFacts, ZenonT(60)
  <2> HIDE DEF t
  <2> QED
    BY <1>1, <1>4, <2>1, PassLives DEF CleanupPcs
<1>6. CASE Go(k, "unsettled")
  <2> DEFINE t == Went(task[k], "unsettled")
  <2>1. "unsettled" \in AllPcs
    BY DEF AllPcs, CleanupPcs
  <2>2. /\ task' = [task EXCEPT ![k] = t] /\ t.pc = "unsettled" /\ t.e = task[k].e
        /\ t.val = task[k].val /\ t.then = task[k].then
    BY <1>2, <1>6, <2>1, TaskUpdates, WentFacts
  <2> HIDE DEF t
  <2> QED
    BY <1>1, <1>4, <2>2, PassLives DEF CleanupPcs
<1> QED
  BY <1>5, <1>6 DEF CleanupRetain, Replies, Val, s

LEMMA CleanupReleaseLives ==
  ASSUME First, RuntimeInvariant', Ages(svc, svc'), NEW k \in Tasks, CleanupRelease(k)
  PROVE  FirstLife'
<1> DEFINE l == task[k].val.lease
<1>1. /\ task[k].pc = "cleanupRelease" /\ task[k].pc \in CleanupPcs
      /\ UNCHANGED <<record, entry, current>>
  BY DEF CleanupRelease, At, CleanupPcs, memory
<1>2. RuntimeInvariant /\ task[k] \in TaskLocals /\ svc \in Services /\ DoneIsReleased(svc)
  BY ValueFacts DEF First
<1>3. l = 1 /\ l \in Leases
  BY <1>1, <1>2, CleanupFacts, FirstFacts, FirstLease DEF FirstTask, Leases
<1>4. svc'.refs.want.lease <= 1
  <2>1. Replies(CanRelease(svc, l), Released(svc, l)) \/ ReleaseErrs(l)
    BY DEF CleanupRelease, Val
  <2> QED
    BY <1>2, <1>3, <2>1, ReleaseIsQuiet, FirstFacts
<1>5. PICK pc \in {"settled", "unsettled"} : Go(k, pc) /\ (pc = "settled" => svc' = Released(svc, l))
  BY DEF CleanupRelease, Val, Replies
<1>6. pc = "settled" => Gone(svc')
  BY <1>2, <1>3, <1>5, ReleaseAges DEF Gone
<1> DEFINE t == Went(task[k], pc)
<1>7. pc \in AllPcs /\ pc \in CleanupPcs
  BY DEF AllPcs, CleanupPcs
<1>8. /\ task' = [task EXCEPT ![k] = t] /\ t.pc = pc /\ t.e = task[k].e
      /\ t.val = task[k].val /\ t.then = task[k].then
  BY <1>2, <1>5, <1>7, TaskUpdates, WentFacts
<1> HIDE DEF t
<1> QED
  BY <1>1, <1>4, <1>6, <1>7, <1>8, PassLives

(* The turn takes up the current entry, and its lock. *)
LEMMA TurnLives ==
  ASSUME First, RuntimeInvariant',
         CheckpointBegin \/ CheckpointEnd \/ \E goal \in {"finalize", "checkpoint"} : TurnEnds(goal)
  PROVE  FirstLife'
<1>1. /\ "turn" \in Tasks /\ UNCHANGED <<svc, record, entry, current>> /\ RuntimeInvariant
      /\ task["turn"] \in TaskLocals /\ entry \in [Entries -> Values]
  BY ValueFacts
     DEF First, CheckpointBegin, CheckpointEnd, TurnEnds, memory, Tasks, RuntimeInvariant,
         Typed
<1>2. Ages(svc, svc') /\ svc'.refs.want.lease <= 1
  BY <1>1, FirstFacts, SameLeasesAge
<1>3. PICK t : task' = [task EXCEPT !["turn"] = t] /\ FirstTask(svc, t)
  <2>1. CASE CheckpointEnd
    BY <2>1, IdleIsFirst DEF CheckpointEnd, End
  <2>2. ASSUME NEW e \in Entries, NEW t, t.val = entry[e], t.pc # "settled"
        PROVE  FirstTask(svc, t)
    BY <2>2, FirstFacts DEF FirstTask
  <2>3. CASE CheckpointBegin
    <3> DEFINE e == task["turn"].e
               t == Moved(task["turn"], "snapshot", entry[e])
    <3>1. task["turn"].pc \in WaitingPcs /\ With("turn", "snapshot", entry[e])
      BY <2>3 DEF CheckpointBegin, At, WaitingPcs, Value
    <3>2. e \in Entries /\ entry[e] \in Values /\ "snapshot" \in AllPcs
      BY <1>1, <3>1, EntryThen DEF AllPcs, LockedPcs
    <3>3. task' = [task EXCEPT !["turn"] = t] /\ t.val = entry[e] /\ t.pc = "snapshot"
      BY <1>1, <3>1, <3>2, WithFacts, MovedFacts
    <3> HIDE DEF t
    <3> QED
      BY <2>2, <3>2, <3>3
  <2>4. ASSUME NEW goal \in {"finalize", "checkpoint"}, TurnEnds(goal)
        PROVE  \E t : task' = [task EXCEPT !["turn"] = t] /\ FirstTask(svc, t)
    <3> DEFINE t == [Idle EXCEPT !.pc = goal, !.e = current, !.val = entry[current]]
    <3>1. task' = [task EXCEPT !["turn"] = t] /\ current # 0
      BY <2>4 DEF TurnEnds
    <3>2. t.val = entry[current] /\ t.pc # "settled" /\ current \in Entries
      BY <1>1, <3>1, CurrentFacts DEF Idle
    <3> HIDE DEF t
    <3> QED
      BY <2>2, <3>1, <3>2
  <2> QED
    BY <2>1, <2>3, <2>4
<1> QED
  BY <1>1, <1>2, <1>3, LifeFrame

----------
(* The removal. *)
LEMMA TakeLives ==
  ASSUME First, RuntimeInvariant', NEW scheduled, NEW permit, Take(scheduled, permit)
  PROVE  FirstLife'
<1> DEFINE t == IF current = 0 THEN Idle
                ELSE [Idle EXCEPT !.pc = "taken", !.e = current, !.val = entry[current],
                                  !.permit = permit]
<1>1. /\ "cleanup" \in Tasks /\ UNCHANGED <<svc, record, entry>> /\ RuntimeInvariant
      /\ task["cleanup"].pc = "idle" /\ task' = [task EXCEPT !["cleanup"] = t] /\ current' = 0
      /\ current \in 0..MaxEntry /\ (current # 0 => current \in Entries)
  BY CurrentFacts DEF First, Take, At, Tasks
<1>2. Ages(svc, svc') /\ svc'.refs.want.lease <= 1
  BY <1>1, FirstFacts, SameLeasesAge
<1>3. task["cleanup"].e = 0
  BY <1>1, ValueFacts DEF Advances
<1>4. /\ t.e = current /\ ~Finalizing(t) /\ t.pc # "settled"
      /\ t.val = IF current = 0 THEN NoValue ELSE entry[current]
  BY <1>1, IdleFacts, IdleIsFirst DEF Idle, Finalizing, LockedPcs
<1> HIDE DEF t
<1>5. FirstTask(svc', t)
  BY <1>1, <1>4, NoValueFacts, FirstFacts DEF FirstTask
<1>6. ~Gone(svc') => \A e \in Entries : entry[e].lease # 0 => e \in {current', t.e}
  BY <1>1, <1>3, <1>4, FirstFacts DEF Entries
<1> QED
  BY <1>1, <1>2, <1>4, <1>5, <1>6, LifeFrame

(* Where a removal leaves its entry, in the map or out of hand. *)
LEMMA LetGoLives ==
  ASSUME First, RuntimeInvariant', UNCHANGED svc, task' = [task EXCEPT !["cleanup"] = Idle],
         record' = record \/ (record.lease # 0 /\ record'.lease # 0),
         \A e \in Entries : entry'[e].lease = entry[e].lease,
         \A e \in Entries : entry'[e].state = "released" => entry[e].state = "released",
         task["cleanup"].e \in Entries, entry[task["cleanup"].e].lease # 0,
         Gone(svc) \/ current' = Reinserted(task["cleanup"].e)
  PROVE  FirstLife'
<1>1. Ages(svc, svc') /\ svc'.refs.want.lease <= 1 /\ "cleanup" \in Tasks
  BY FirstFacts, SameLeasesAge DEF Tasks
<1>2. current # 0 => current \in Entries /\ entry[current].lease # 0
  BY CurrentFacts DEF First
<1>3. Reinserted(task["cleanup"].e) = task["cleanup"].e
  BY <1>2, FirstFacts DEF Reinserted
<1>4. ~Gone(svc') => \A e \in Entries : entry[e].lease # 0 => e \in {current', Idle.e}
  BY <1>3, FirstFacts
<1> QED
  BY <1>1, <1>4, IdleIsFirst, LifeFrame

LEMMA ReleaseRemovedLives ==
  ASSUME First, RuntimeInvariant', ReleaseRemoved
  PROVE  FirstLife'
<1> DEFINE e == task["cleanup"].e
<1>1. /\ "cleanup" \in Tasks /\ UNCHANGED <<svc, record, entry>> /\ RuntimeInvariant
      /\ task["cleanup"].pc = "taken" /\ task["cleanup"].pc \in WaitingPcs
      /\ task["cleanup"] \in TaskLocals /\ entry \in [Entries -> Values]
  BY ValueFacts DEF First, ReleaseRemoved, At, Tasks, WaitingPcs, RuntimeInvariant, Typed
<1>2. Ages(svc, svc') /\ svc'.refs.want.lease <= 1
  BY <1>1, FirstFacts, SameLeasesAge
<1>3. e \in Entries /\ entry[e] \in Values /\ entry[e].lease # 0
  BY <1>1, EntryThen
<1>4. CASE current' = e /\ Go("cleanup", "finalize")
  <2> DEFINE t == Went(task["cleanup"], "finalize")
  <2>0. "finalize" \in AllPcs
    BY DEF AllPcs, WaitingPcs
  <2>1. /\ task' = [task EXCEPT !["cleanup"] = t] /\ t.e = e /\ t.pc = "finalize"
        /\ t.val = task["cleanup"].val
    BY <1>1, <1>4, <2>0, TaskUpdates, WentFacts
  <2> HIDE DEF t
  <2>2. FirstTask(svc', t)
    BY <1>1, <2>1, FirstFacts DEF FirstTask
  <2>3. \A f \in Entries : entry[f].lease # 0 => f \in {current', t.e}
    BY <1>3, <2>1, FirstFacts
  <2> QED
    BY <1>1, <1>2, <1>4, <2>1, <2>2, <2>3, LifeFrame
<1>5. CASE With("cleanup", "await", entry[e]) /\ UNCHANGED current
  <2> DEFINE t == Moved(task["cleanup"], "await", entry[e])
  <2>0. "await" \in AllPcs
    BY DEF AllPcs, WaitingPcs
  <2>1. /\ task' = [task EXCEPT !["cleanup"] = t] /\ t.e = e /\ t.pc = "await"
        /\ t.val = entry[e] /\ t.then = task["cleanup"].then
    BY <1>1, <1>3, <1>5, <2>0, WithFacts, MovedFacts
  <2> HIDE DEF t
  <2>2. FirstTask(svc', t)
    BY <1>1, <1>3, <2>1, FirstFacts DEF FirstTask
  <2>3. Finalizing(t) => current' = t.e
    BY <1>5, <2>1, FirstFacts DEF Finalizing, LockedPcs
  <2>4. ~Gone(svc') => \A f \in Entries : entry[f].lease # 0 => f \in {current', t.e}
    BY <1>1, <1>5, <2>1, FirstFacts
  <2> QED
    BY <1>1, <1>2, <1>5, <2>1, <2>2, <2>3, <2>4, LifeFrame
<1> QED
  BY <1>4, <1>5 DEF ReleaseRemoved

LEMMA ReleaseLockedLives ==
  ASSUME First, RuntimeInvariant', ReleaseLocked
  PROVE  FirstLife'
<1> DEFINE e == task["cleanup"].e
<1>1. /\ "cleanup" \in Tasks /\ UNCHANGED <<svc, record, entry>> /\ RuntimeInvariant
      /\ task["cleanup"].pc = "await" /\ task["cleanup"].pc \in WaitingPcs
      /\ task["cleanup"] \in TaskLocals /\ entry \in [Entries -> Values]
  BY ValueFacts DEF First, ReleaseLocked, At, Tasks, WaitingPcs, RuntimeInvariant, Typed
<1>2. Ages(svc, svc') /\ svc'.refs.want.lease <= 1
  BY <1>1, FirstFacts, SameLeasesAge
<1>3. e \in Entries /\ entry[e] \in Values /\ entry[e].lease # 0
  BY <1>1, EntryThen
<1>4. CASE entry[e].state \in {"finalizing", "released"}
  <2>1. /\ task' = [task EXCEPT !["cleanup"] = Idle]
        /\ entry[e].state = "released" \/ current' = Reinserted(e)
    BY <1>4 DEF ReleaseLocked, Value
  <2> QED
    BY <1>1, <1>3, <2>1, FirstFacts, LetGoLives
<1>5. CASE entry[e].state \notin {"finalizing", "released"}
  <2> DEFINE t == Cleaning(task["cleanup"], "removed", entry[e])
  <2>0. "removed" \in Callers /\ Cleanup("cleanup", "removed", entry[e]) /\ UNCHANGED current
    BY <1>5 DEF Callers, ReleaseLocked, Value
  <2>1. /\ task' = [task EXCEPT !["cleanup"] = t] /\ t.e = e /\ t.pc = "cleanupRetain"
        /\ t.val = entry[e] /\ t.then = "removed"
    <3>1. t.e = e /\ t.pc = "cleanupRetain" /\ t.val = entry[e] /\ t.then = "removed"
      BY <1>1, <1>3, <2>0, CleaningFacts
    <3> QED
      BY <1>1, <2>0, <3>1, TaskUpdates
  <2> HIDE DEF t
  <2>2. FirstTask(svc', t) /\ ~Finalizing(t)
    BY <1>1, <1>3, <2>1, FirstFacts DEF FirstTask, Finalizing, LockedPcs
  <2>3. ~Gone(svc') => \A f \in Entries : entry[f].lease # 0 => f \in {current', t.e}
    BY <1>1, <2>0, <2>1, FirstFacts
  <2> QED
    BY <1>1, <1>2, <2>0, <2>1, <2>2, <2>3, LifeFrame
<1> QED
  BY <1>4, <1>5

LEMMA SettleRemovalLives ==
  ASSUME First, RuntimeInvariant', SettleRemoval
  PROVE  FirstLife'
<1> DEFINE e == task["cleanup"].e
           x == task["cleanup"].val
           released == [x EXCEPT !.state = "released", !.rev = task["cleanup"].got]
           kept == [released EXCEPT !.state = "releasing"]
           failed == [x EXCEPT !.state = "releasing"]
<1>1. /\ "cleanup" \in Tasks /\ svc' = svc /\ task["cleanup"].pc \in {"settled", "unsettled"}
      /\ task["cleanup"].then = "removed" /\ task' = [task EXCEPT !["cleanup"] = Idle]
  BY DEF SettleRemoval, At, Tasks, End
<1>2. RuntimeInvariant /\ entry \in [Entries -> Values] /\ Locking(task["cleanup"])
  BY <1>1 DEF First, RuntimeInvariant, Typed, Locking, CleanupPcs
<1>3. /\ e \in Entries /\ entry[e].lease # 0 /\ x.lease = entry[e].lease /\ x \in Values
      /\ record.lease # 0
  BY <1>1, <1>2, LockedFacts
<1>4. /\ released.lease = x.lease /\ kept.lease = x.lease /\ kept.state = "releasing"
      /\ failed.lease = x.lease /\ failed.state = "releasing"
  BY <1>3 DEF Values
<1> HIDE DEF released, kept, failed
<1>5. \/ task["cleanup"].pc = "settled" /\ record' = released /\ UNCHANGED entry
      \/ record' = record /\ entry' = [entry EXCEPT ![e] = kept] /\ current' = Reinserted(e)
      \/ /\ record' \in {record, failed} /\ entry' = [entry EXCEPT ![e] = failed]
         /\ current' = Reinserted(e)
  BY DEF SettleRemoval, At, Val, Persisted, PersistFails, released, kept, failed
<1>6. task["cleanup"].pc = "settled" => Gone(svc)
  BY <1>1, FirstFacts DEF FirstTask
<1>7. /\ record' = record \/ (record.lease # 0 /\ record'.lease # 0)
      /\ Gone(svc) \/ current' = Reinserted(e)
  BY <1>3, <1>4, <1>5, <1>6
<1>8. /\ \A f \in Entries : entry'[f].lease = entry[f].lease
      /\ \A f \in Entries : entry'[f].state = "released" => entry[f].state = "released"
  BY <1>2, <1>3, <1>4, <1>5
<1> QED
  BY <1>1, <1>3, <1>7, <1>8, LetGoLives

----------
(* The start of the thread, and what is not part of its first life. *)
LEMMA StartupLives ==
  ASSUME First, RuntimeInvariant', Ages(svc, svc'), svc'.refs.want.lease <= 1,
         NEW t, task' = [task EXCEPT !["startup"] = t], FirstTask(svc', t), FirstStart(t),
         UNCHANGED <<record, entry, current>>
  PROVE  FirstLife'
  BY LifeFrame DEF Tasks

LEMMA FirstStartFacts ==
  ASSUME First
  PROVE  LET t == task["startup"] IN
         /\ RuntimeInvariant /\ "startup" \in Tasks /\ t \in TaskLocals /\ t.val \in Values
         /\ t.e = 0 /\ t.pc \notin {"read", "reconnect", "restore"} /\ t.then # "durable"
         /\ Building(t) => t.val.lease = 1 /\ t.val.state = "active"
         /\ t.val.lease <= 1 /\ (t.val.state = "released" => Gone(svc))
         /\ Starts(svc, record, t) /\ svc.refs.want.lease <= 1
         /\ t.pc \in {"idle"} \cup StartupPcs => t.then = "none"
  BY StartupFacts, FirstFacts DEF First, FirstStart, FirstTask

LEMMA ProvisionLives ==
  ASSUME First, RuntimeInvariant', Ages(svc, svc'), Provision
  PROVE  FirstLife'
<1> DEFINE v == [NoValue EXCEPT !.lease = 1, !.base = <<1, 0>>, !.latest = <<1, 0>>]
           t == Moved(task["startup"], "boot", v)
<1>1. /\ task["startup"].pc = "provision" /\ record' = record /\ entry' = entry
      /\ task["startup"] \in TaskLocals /\ task["startup"].e = 0 /\ svc = NewService
      /\ RuntimeInvariant /\ "startup" \in Tasks /\ task["startup"].then = "none"
  BY FirstStartFacts DEF Provision, CallStep, At, Starts, StartupPcs
<1>2. svc'.refs.want.lease <= 1
  BY <1>1, ProvisionMoves, FirstFacts DEF Provision, CallStep, Replies, Errs, Quiet
<1>3. CASE With("startup", "boot", v) /\ current' = current
  <2>1. v \in Values /\ v.lease = 1 /\ v.state = "active" /\ "boot" \in AllPcs
    <3>1. <<1, 0>> \in Snapshots /\ 1 \in 0..MaxLease
      BY ServiceAssumption DEF Snapshots, Leases
    <3> QED
      BY <3>1, NoValueFacts DEF Values, AllPcs, StartupPcs
  <2> HIDE DEF v
  <2>2. /\ task' = [task EXCEPT !["startup"] = t] /\ t.pc = "boot" /\ t.val = v /\ t.e = 0
        /\ t.then = "none"
    BY <1>1, <1>3, <2>1, WithFacts, MovedFacts
  <2> HIDE DEF t
  <2>3. FirstTask(svc', t) /\ FirstStart(t)
    BY <2>1, <2>2 DEF FirstTask, FirstStart
  <2> QED
    BY <1>1, <1>2, <1>3, <2>2, <2>3, StartupLives
<1>4. CASE Return("startup")
  BY <1>1, <1>2, <1>4, StartupLives, IdleIsFirst DEF Return, End, Dropped
<1> QED
  BY <1>3, <1>4 DEF Provision, CallStep

LEMMA RejectReconnectLives ==
  ASSUME First, RuntimeInvariant', Ages(svc, svc'), RejectReconnect
  PROVE  FirstLife'
<1> DEFINE l == task["startup"].val.lease
<1>1. /\ task' = [task EXCEPT !["startup"] = Idle] /\ UNCHANGED <<record, entry, current>>
      /\ Replies(CanRelease(svc, l), Released(svc, l)) \/ ReleaseErrs(l)
      /\ task["startup"].pc = "reject"
  BY DEF RejectReconnect, memory, Val, At
<1>2. l \in Leases /\ RuntimeInvariant
  BY <1>1, FirstStartFacts DEF Starts, Values, Leases
<1>3. svc'.refs.want.lease <= 1
  BY <1>1, <1>2, ReleaseIsQuiet, FirstFacts
<1> QED
  BY <1>1, <1>3, IdleIsFirst, StartupLives

(* A startup that goes on with the value it has, or rolls it back. *)
LEMMA BuildLives ==
  ASSUME First, RuntimeInvariant', Ages(svc, svc'), svc'.refs.want.lease <= 1,
         task["startup"].pc \in {"boot", "commit", "persist"}, NEW n \in Nat,
         UNCHANGED <<record, entry, current>>,
         \/ \E pc \in {"commit", "reject"} : Go("startup", pc)
         \/ With("startup", "persist", [task["startup"].val EXCEPT !.rev = n])
         \/ Cleanup("startup", "rolledback", task["startup"].val)
  PROVE  FirstLife'
<1> DEFINE x == task["startup"].val
<1>1. /\ RuntimeInvariant /\ "startup" \in Tasks /\ task["startup"] \in TaskLocals
      /\ x \in Values /\ task["startup"].e = 0 /\ x.lease = 1 /\ x.state = "active"
      /\ task["startup"].then = "none" /\ "rolledback" \in Callers
      /\ {"commit", "reject", "persist"} \subseteq AllPcs
  BY FirstStartFacts DEF Building, StartupPcs, Callers, AllPcs
<1>2. PICK t : /\ task' = [task EXCEPT !["startup"] = t] /\ t.e = 0
               /\ t.val.lease = 1 /\ t.val.state = "active"
               /\ t.pc \in {"commit", "reject", "persist", "cleanupRetain"}
               /\ t.then \in {"none", "rolledback"}
  <2>1. ASSUME NEW pc \in {"commit", "reject"}, Go("startup", pc)
        PROVE  \E t : /\ task' = [task EXCEPT !["startup"] = t] /\ t.e = 0
                      /\ t.val.lease = 1 /\ t.val.state = "active"
                      /\ t.pc \in {"commit", "reject", "persist", "cleanupRetain"}
                      /\ t.then \in {"none", "rolledback"}
    <3>1. task' = [task EXCEPT !["startup"] = Went(task["startup"], pc)]
      BY <1>1, <2>1, TaskUpdates
    <3>2. /\ Went(task["startup"], pc).e = 0 /\ Went(task["startup"], pc).val = x
          /\ Went(task["startup"], pc).pc = pc /\ Went(task["startup"], pc).then = "none"
      BY <1>1, WentFacts
    <3> QED
      BY <1>1, <3>1, <3>2
  <2>2. CASE With("startup", "persist", [x EXCEPT !.rev = n])
    <3> DEFINE v == [x EXCEPT !.rev = n]
    <3>1. v \in Values /\ v.lease = 1 /\ v.state = "active"
      BY <1>1 DEF Values
    <3> HIDE DEF v
    <3>0. With("startup", "persist", v) /\ "persist" \in AllPcs
      BY <1>1, <2>2 DEF v
    <3>2. task' = [task EXCEPT !["startup"] = Moved(task["startup"], "persist", v)]
      BY <1>1, <3>0, <3>1, WithFacts
    <3>3. task["startup"] \in TaskLocals /\ "persist" \in AllPcs /\ v \in Values
      BY <1>1, <3>0, <3>1
    <3> DEFINE u == Moved(task["startup"], "persist", v)
    <3>4. /\ u.e = task["startup"].e /\ u.val = v /\ u.pc = "persist"
          /\ u.then = task["startup"].then
      BY <3>3, MovedFacts
    <3> HIDE DEF u
    <3> QED
      BY <1>1, <3>1, <3>2, <3>4 DEF u
  <2>3. CASE Cleanup("startup", "rolledback", x)
    <3>1. task' = [task EXCEPT !["startup"] = Cleaning(task["startup"], "rolledback", x)]
      BY <1>1, <2>3, TaskUpdates
    <3>2. /\ Cleaning(task["startup"], "rolledback", x).e = 0
          /\ Cleaning(task["startup"], "rolledback", x).val = x
          /\ Cleaning(task["startup"], "rolledback", x).pc = "cleanupRetain"
          /\ Cleaning(task["startup"], "rolledback", x).then = "rolledback"
      BY <1>1, CleaningFacts
    <3> QED
      BY <1>1, <3>1, <3>2
  <2> QED
    BY <2>1, <2>2, <2>3
<1>3. FirstTask(svc', t) /\ FirstStart(t)
  BY <1>2 DEF FirstTask, FirstStart
<1> QED
  BY <1>2, <1>3, StartupLives

LEMMA BootLives ==
  ASSUME First, RuntimeInvariant', Ages(svc, svc'), Boot \/ RetainPending
  PROVE  FirstLife'
<1> DEFINE x == task["startup"].val
           s == AfterRetain(svc, x)
<1>1. /\ task["startup"].pc \in {"boot", "commit", "persist"}
      /\ UNCHANGED <<record, entry, current>> /\ "startup" \in Tasks
  BY DEF Boot, RetainPending, At, memory, Tasks
<1>2. s.refs.want.lease <= 1 /\ s.refs.rev \in Nat /\ svc.refs.want.lease <= 1
  BY <1>1, RetainWants, FirstFacts
<1> HIDE DEF s
<1>3. svc'.refs.want.lease <= 1
  BY <1>2 DEF Boot, RetainPending, Replies, Errs, Val, s
<1>4. CASE Boot
  BY <1>1, <1>3, <1>4, BuildLives DEF Boot, Val
<1>5. CASE RetainPending
  <2>1. \/ With("startup", "persist", [x EXCEPT !.rev = s.refs.rev])
        \/ Cleanup("startup", "rolledback", x)
    BY <1>5 DEF RetainPending, Replies, Val, s
  <2> QED
    BY <1>1, <1>2, <1>3, <2>1, BuildLives
<1> QED
  BY <1>4, <1>5

(* The first entry is published when there is none. *)
LEMMA PersistPendingLives ==
  ASSUME First, RuntimeInvariant', PersistPending
  PROVE  FirstLife'
<1> DEFINE v == task["startup"].val
<1>1. /\ task["startup"].pc = "persist" /\ svc' = svc /\ "startup" \in Tasks
      /\ "cleanup" \in Tasks /\ task \in [Tasks -> TaskLocals] /\ entry \in [Entries -> Values]
  BY DEF PersistPending, At, Tasks, First, RuntimeInvariant, Typed
<1>2. Ages(svc, svc') /\ svc'.refs.want.lease <= 1 /\ Building(task["startup"])
  BY <1>1, FirstFacts, SameLeasesAge DEF Building
<1>3. v.lease = 1 /\ v.state = "active" /\ record.lease = 0
  BY <1>2, FirstStartFacts DEF Starts
<1>4. CASE PersistFails /\ Cleanup("startup", "rolledback", v) /\ UNCHANGED <<entry, current>>
  BY <1>1, <1>2, <1>4, BuildLives DEF PersistFails
<1>5. ASSUME record' = v, NEW e \in NewEntry, entry' = [entry EXCEPT ![e] = v], current' = e,
             task' = [task EXCEPT !["startup"] = Idle]
      PROVE  FirstLife'
  <2>1. /\ e \in Entries /\ entry'[e] = v /\ \A f \in Entries \ {e} : entry'[f] = entry[f]
    BY <1>1, <1>5 DEF NewEntry
  <2>2. \A f \in Entries : entry[f].lease = 0
    BY <1>3 DEF First, RuntimeInvariant, FirstLeaseIsOnce
  <2>3. /\ task'["startup"] = Idle /\ \A k \in Tasks \ {"startup"} : task'[k] = task[k]
    BY <1>1, <1>5
  <2>4. ~Finalizing(task["cleanup"])
    <3>1. RuntimeInvariant /\ Advances(svc, "cleanup", task["cleanup"])
          /\ task["cleanup"].e \in 0..MaxEntry /\ HoldsEntry(entry, lock, "cleanup", task["cleanup"])
      BY <1>1, ValueFacts DEF First, TaskLocals
    <3>2. task["cleanup"].e = 0
      BY <2>2, <3>1, RuntimeAssumption DEF HoldsEntry, Entries
    <3>3. task["cleanup"].pc \notin WaitingPcs /\ ~Locking(task["cleanup"])
      BY <3>1, <3>2 DEF HoldsEntry
    <3>4. task["cleanup"].pc \in {"idle"} \cup CleanupPcs \cup StartupPcs
      BY <1>1, <3>3 DEF TaskLocals, Locking
    <3>5. task["cleanup"].then # "finalized"
      BY <3>1, <3>3, <3>4 DEF Advances, Locking
    <3> QED
      BY <3>3, <3>5 DEF Finalizing, Locking, WaitingPcs
  <2>5. \A k \in Tasks : FirstTask(svc', task'[k])
    BY <1>1, <2>3, IdleIsFirst, FirstFacts
  <2>6. \A f \in Entries : entry'[f].state = "released" => Gone(svc')
    BY <1>1, <1>3, <2>1, FirstFacts
  <2>7. FirstStart(task'["startup"]) /\ ~Finalizing(task'["cleanup"])
    BY <1>1, <2>3, <2>4, IdleIsFirst
  <2>8. \A f \in Entries : entry'[f].lease # 0 => f \in {current', task'["cleanup"].e}
    BY <1>5, <2>1, <2>2
  <2>9. \E f \in Entries : entry'[f].lease # 0
    BY <1>3, <2>1
  <2> QED
    BY <1>2, <1>3, <1>5, <2>5, <2>6, <2>7, <2>8, <2>9 DEF FirstLife
<1> QED
  BY <1>3, <1>4, <1>5 DEF PersistPending, Persisted, Val

LEMMA LifeStep ==
  ASSUME First, RuntimeInvariant', Ages(svc, svc'), [Next]_vars
  PROVE  FirstLife'
<1>1. ASSUME NEW k \in Tasks, TaskStep(k) PROVE FirstLife'
  BY <1>1, FinalizeBeginLives, SavesLive, CallsLive, AnnouncePatchLives,
     SettleFinalizationLives, CleanupRetainLives, CleanupReleaseLives
     DEF TaskStep, Finalize
<1>2. CASE TurnStep
  BY <1>2, TurnLives, SavesLive, CallsLive DEF TurnStep, Tasks
<1>3. CASE RemovalStep
  BY <1>3, ReleaseRemovedLives, ReleaseLockedLives, SettleRemovalLives DEF RemovalStep
<1>4. CASE StartupStep
  <2>1. ~ReadRecord /\ ~Reconnect /\ ~Restore /\ ~SettleDurable
    BY FirstStartFacts DEF ReadRecord, Reconnect, Restore, CallStep, SettleDurable, At
  <2>2. CASE RolledBack
    <3>1. task' = [task EXCEPT !["startup"] = Idle] /\ UNCHANGED <<svc, record, entry, current>>
      BY <2>2 DEF RolledBack, memory
    <3> QED
      BY <3>1, FirstFacts, IdleIsFirst, StartupLives
  <2> QED
    BY <1>4, <2>1, <2>2, ProvisionLives, RejectReconnectLives, BootLives,
       PersistPendingLives
       DEF StartupStep
<1>5. ASSUME NEW goal \in {"finalize", "checkpoint"}, TurnEnds(goal) PROVE FirstLife'
  BY <1>5, TurnLives
<1>6. CASE RemoveThread \/ RetryCleanup
  BY <1>6, TakeLives DEF RemoveThread, RetryCleanup
<1>7. CASE Start
  <2> DEFINE t == Went(task["startup"], "provision")
  <2>1. /\ task["startup"].pc = "idle" /\ UNCHANGED <<svc, record, entry, current>>
        /\ Go("startup", "provision") /\ "provision" \in AllPcs
    BY <1>7 DEF Start, At, memory, AllPcs, StartupPcs
  <2>2. /\ task' = [task EXCEPT !["startup"] = t] /\ t.pc = "provision" /\ t.e = 0
        /\ t.then = "none" /\ t.val = task["startup"].val
    BY <2>1, FirstStartFacts, TaskUpdates, WentFacts
  <2> HIDE DEF t
  <2>3. FirstTask(svc', t) /\ FirstStart(t)
    BY <2>1, <2>2, FirstStartFacts DEF FirstTask, FirstStart, Building, CleanupPcs
  <2> QED
    BY <2>1, <2>2, <2>3, FirstFacts, StartupLives
<1>8. CASE Resume \/ Crash
  <2>1. history' # "first"
    BY <1>8 DEF Resume, Crash, First
  <2> QED
    BY <2>1 DEF FirstLife
<1>9. CASE UNCHANGED <<record, entry, current, task>> /\ svc'.refs = svc.refs
  <2>1. Gone(svc) => Gone(svc')
    BY AgesFacts
  <2> QED
    BY <1>9, <2>1, FirstFacts DEF FirstLife, FirstTask
<1>10. ASSUME NEW l \in Leases, LoseSandbox(l) \/ ReconcileRelease(l) PROVE FirstLife'
  <2>1. svc \in Services /\ UNCHANGED <<record, entry, current, task>>
    BY <1>10 DEF First, RuntimeInvariant, Typed, LoseSandbox, ReconcileRelease, memory
  <2>2. svc'.refs = svc.refs
    BY <1>10, <2>1 DEF LoseSandbox, ReconcileRelease, Lost, Reconciled, Services
  <2> QED
    BY <1>9, <2>1, <2>2
<1>11. CASE Stop \/ UNCHANGED vars
  BY <1>9, <1>11 DEF Stop, vars
<1> QED
  BY <1>1, <1>2, <1>3, <1>4, <1>5, <1>6, <1>7, <1>8, <1>10, <1>11 DEF Next

LEMMA FirstLifeHolds == Spec => [](DoneIsReleased(svc) /\ FirstLife)
<1>1. Init => DoneIsReleased(svc) /\ FirstLife
  <2> SUFFICES ASSUME Init PROVE DoneIsReleased(svc) /\ FirstLife
    OBVIOUS
  <2>1. DoneIsReleased(svc) /\ svc.refs.want.lease <= 1
    BY ProvisionAges, NewServiceFacts DEF Init
  <2>2. \A k \in Tasks : FirstTask(svc, task[k]) /\ FirstStart(task[k]) /\ ~Finalizing(task[k])
    BY IdleIsFirst DEF Init
  <2>3. record.lease = 0 /\ record.state = "active"
    BY NoValueFacts DEF Init
  <2>4. \A e \in Entries : entry[e].lease = 0 /\ entry[e].state # "released"
    BY NoValueFacts DEF Init
  <2> QED
    BY <2>1, <2>2, <2>3, <2>4 DEF FirstLife, Tasks
<1>2. /\ RuntimeInvariant /\ RuntimeInvariant' /\ [Next]_vars /\ DoneIsReleased(svc) /\ FirstLife
      => (DoneIsReleased(svc) /\ FirstLife)'
  <2> SUFFICES ASSUME RuntimeInvariant, RuntimeInvariant', [Next]_vars, DoneIsReleased(svc), FirstLife
               PROVE  (DoneIsReleased(svc) /\ FirstLife)'
    OBVIOUS
  <2>1. Ages(svc, svc')
    BY ServiceAges
  <2>2. history' = "first" => history = "first"
    BY DEF Next, TaskStep, Finalize, FinalizeBegin, MarkPending, CompletionCheckpoint,
           SaveCompletion, ExportPatch, SavePatch, RetainPatch, AnnouncePatch,
           SettleFinalization, PersistStep, CallStep, CleanupRetain, CleanupRelease,
           TurnStep, CheckpointBegin, CheckpointCall, CheckpointSaveSnapshot,
           CheckpointRetain, CheckpointSaveRevision, CheckpointEnd, RemovalStep,
           ReleaseRemoved, ReleaseLocked, SettleRemoval, StartupStep, Provision,
           ReadRecord, Reconnect, RejectReconnect, Restore, Boot, RetainPending,
           PersistPending, RolledBack, SettleDurable, TurnEnds, RemoveThread,
           RetryCleanup, Take, Start, Stop, Resume, LoseSandbox, ReconcileRelease, Crash,
           others, vars
  <2>3. history' = "first" => FirstLife'
    BY <2>1, <2>2, LifeStep DEF First
  <2> QED
    BY <2>1, <2>3, AgesFacts DEF FirstLife
<1> QED
  BY <1>1, <1>2, RuntimeInvariantHolds, PTL DEF Spec

(* HeldLeaseIsNotDropped: until a crash or a resume, a pending runtime whose *)
(* lease is not released is in the runtime map or in the hands of a task,    *)
(* through every failing call, failing write, removal and retry.  In the     *)
(* second case hosted_runtime_cleanup_pending does not see it.               *)
THEOREM PendingRuntimeIsHeld == Spec => []HeldLeaseIsNotDropped
<1>1. RuntimeInvariant /\ DoneIsReleased(svc) /\ FirstLife => HeldLeaseIsNotDropped
  <2> SUFFICES ASSUME First, Pending(record), svc.lease[record.lease].state # "released"
               PROVE  \/ current # 0 /\ entry[current].lease = record.lease
                      \/ \E k \in Tasks : task[k].e # 0 /\ entry[task[k].e].lease = record.lease
    BY DEF HeldLeaseIsNotDropped, First
  <2>1. record.lease # 0
    BY FirstFacts DEF Pending
  <2>2. record.lease = 1
    BY <2>1, FirstFacts, ServiceAssumption
       DEF First, RuntimeInvariant, PatchIsKept, Typed, Values
  <2>3. PICK e \in Entries : entry[e].lease = 1
    BY <2>1, FirstFacts
  <2>4. e \in {current, task["cleanup"].e}
    BY <2>2, <2>3, FirstFacts DEF Gone
  <2> QED
    BY <2>2, <2>3, <2>4 DEF Entries, Tasks
<1> QED
  BY <1>1, RuntimeInvariantHolds, FirstLifeHolds, PTL
----------
(* One life of the thread after the other: who resumes a thread that        *)
(* nothing else still works on replaces a runtime without a patch.          *)
CheckpointPcs == {"snapshot", "saveSnapshot", "retainSnapshot", "saveRetained", "unlock"}

(* What holds in every history: a runtime in the map without its thread is  *)
(* not active, a checkpoint does not change the state it found, the record  *)
(* knows of a pending finalization, and a later lease comes after a record. *)
ThreadStates == {"absent", "running", "stopped"}

Orderly ==
  /\ thread \in ThreadStates
  /\ thread = "absent" /\ current # 0 => entry[current].state # "active"
  /\ \A k \in Tasks : task[k].pc \in CheckpointPcs => task[k].val.state = entry[task[k].e].state
  /\ svc.refs.want.lease <= 1 /\ record.state = "active" =>
       \A e \in Entries : entry[e].lease # 0 => entry[e].state # "finalizing"
  /\ record.lease = 0 => svc.refs.want.lease <= 1
  /\ Building(task["startup"]) /\ task["startup"].val.lease # 1 => record.lease # 0

LEMMA CheckpointPcFacts ==
  CheckpointPcs \subseteq LockedPcs /\ {"startup", "cleanup", "turn"} = Tasks
  BY DEF CheckpointPcs, LockedPcs, Tasks

LEMMA OrderlyFrame ==
  ASSUME RuntimeInvariant, RuntimeInvariant', Orderly, NEW k \in Tasks, NEW t,
         task' = [task EXCEPT ![k] = t], thread' \in ThreadStates,
         thread' = "absent" /\ current' # 0 => entry'[current'].state # "active",
         t.pc \in CheckpointPcs => t.val.state = entry'[t.e].state,
         \A e \in Entries : lock[e] # k /\ entry[e].lease # 0 => entry'[e] = entry[e],
         svc'.refs.want.lease <= 1 /\ record'.state = "active" =>
           \A e \in Entries : entry'[e].lease # 0 => entry'[e].state # "finalizing",
         record'.lease = 0 => svc'.refs.want.lease <= 1,
         record.lease # 0 => record'.lease # 0,
         k = "startup" /\ Building(t) /\ t.val.lease # 1 => record'.lease # 0
  PROVE  Orderly'
<1>1. task \in [Tasks -> TaskLocals] /\ "startup" \in Tasks
  BY DEF RuntimeInvariant, Typed, Tasks
<1>2. task'[k] = t /\ \A j \in Tasks \ {k} : task'[j] = task[j]
  BY <1>1
<1>3. ASSUME NEW j \in Tasks, task'[j].pc \in CheckpointPcs
      PROVE  task'[j].val.state = entry'[task'[j].e].state
  <2>1. CASE j = k
    BY <1>2, <1>3, <2>1
  <2>2. CASE j # k
    <3>1. Locking(task[j]) /\ task[j].pc \in CheckpointPcs /\ task'[j] = task[j]
      BY <1>2, <1>3, <2>2, CheckpointPcFacts DEF Locking
    <3>2. task[j].e \in Entries /\ lock[task[j].e] = j /\ entry[task[j].e].lease # 0
      BY <3>1, LockedFacts
    <3> QED
      BY <2>2, <3>1, <3>2 DEF Orderly
  <2> QED
    BY <2>1, <2>2
<1>4. Building(task'["startup"]) /\ task'["startup"].val.lease # 1 => record'.lease # 0
  BY <1>1, <1>2 DEF Orderly
<1> QED
  BY <1>3, <1>4 DEF Orderly

(* A step that saves nothing. *)
LEMMA OrderlyStill ==
  ASSUME RuntimeInvariant, RuntimeInvariant', Orderly, NEW k \in Tasks, NEW t,
         task' = [task EXCEPT ![k] = t], UNCHANGED <<record, entry>>,
         thread' \in ThreadStates,
         thread' = "absent" /\ current' # 0 =>
           (thread = "absent" /\ current' = current) \/ entry[current'].state # "active",
         t.pc \in CheckpointPcs => t.val.state = entry[t.e].state,
         svc.refs.want.lease > 1 => svc'.refs.want.lease > 1,
         record.lease = 0 => svc'.refs.want.lease <= 1,
         k = "startup" /\ Building(t) /\ t.val.lease # 1 => record.lease # 0
  PROVE  Orderly'
<1>1. thread' = "absent" /\ current' # 0 => entry'[current'].state # "active"
  BY DEF Orderly
<1>2. svc.refs.want.lease \in Nat
  BY DEF RuntimeInvariant, Typed, Services
<1>3. svc'.refs.want.lease <= 1 /\ record'.state = "active" =>
        \A e \in Entries : entry'[e].lease # 0 => entry'[e].state # "finalizing"
  <2>1. svc'.refs.want.lease \in Nat
    BY DEF RuntimeInvariant, Typed, Services
  <2> QED
    BY <1>2, <2>1 DEF Orderly
<1> QED
  BY <1>1, <1>3, OrderlyFrame

(* A task saves v for its entry, in the record, in the entry or in both. *)
LEMMA OrderlySave ==
  ASSUME RuntimeInvariant, RuntimeInvariant', Orderly, NEW k \in Tasks, NEW t, NEW v \in Values,
         Locking(task[k]), task' = [task EXCEPT ![k] = t], svc' = svc,
         v.lease = task[k].val.lease,
         \/ record' = v /\ entry' = [entry EXCEPT ![task[k].e] = v]
         \/ /\ v.state \notin {"active", "finalizing"}
            /\ record' \in {record, v} /\ entry' \in {entry, [entry EXCEPT ![task[k].e] = v]},
         v.state = "active" => entry[task[k].e].state = "active",
         thread' = thread,
         \/ current' \in {0, current}
         \/ /\ current' = task[k].e /\ v.state # "active"
            /\ entry' = [entry EXCEPT ![task[k].e] = v],
         t.pc \in CheckpointPcs => t.val = v /\ t.e = task[k].e /\ entry'[t.e] = v,
         k = "startup" => ~Building(t)
  PROVE  Orderly'
<1> DEFINE e == task[k].e
<1>1. /\ e \in Entries /\ lock[e] = k /\ v.lease = entry[e].lease /\ v.lease # 0
      /\ record.lease # 0 /\ entry \in [Entries -> Values] /\ current \in 0..MaxEntry
  BY LockedFacts DEF RuntimeInvariant, Typed
<1>2. \A f \in Entries \ {e} : entry'[f] = entry[f]
  BY <1>1
<1>3. entry'[e] \in {entry[e], v}
  BY <1>1
<1>4. record'.lease # 0
  BY <1>1
<1>5. thread' = "absent" /\ current' # 0 => entry'[current'].state # "active"
  <2>1. entry'[e].state = "active" => entry[e].state = "active"
    BY <1>3
  <2>2. current' # 0 => current' \in Entries
    BY <1>1, RuntimeAssumption DEF Entries
  <2>3. CASE current' \in {0, current}
    BY <1>2, <2>1, <2>2, <2>3 DEF Orderly
  <2>4. CASE current' = e /\ v.state # "active" /\ entry' = [entry EXCEPT ![e] = v]
    BY <1>1, <2>4
  <2> QED
    BY <2>3, <2>4
<1>6. svc'.refs.want.lease <= 1 /\ record'.state = "active" =>
        \A f \in Entries : entry'[f].lease # 0 => entry'[f].state # "finalizing"
  <2> SUFFICES ASSUME svc.refs.want.lease <= 1, record'.state = "active", NEW f \in Entries,
                      entry'[f].lease # 0
               PROVE  entry'[f].state # "finalizing"
    OBVIOUS
  <2>1. CASE record' = v /\ entry' = [entry EXCEPT ![e] = v]
    <3>1. entry'[e] = v /\ entry' \in [Entries -> Values]
      BY <1>1, <2>1 DEF RuntimeInvariant, Typed
    <3>2. \A g \in Entries : entry'[g].lease # 0 => entry'[g].lease = 1
      BY <3>1, ServiceAssumption DEF RuntimeInvariant, PatchIsKept, Values
    <3>3. f = e
      BY <1>1, <3>1, <3>2 DEF RuntimeInvariant, FirstLeaseIsOnce
    <3> QED
      BY <2>1, <3>1, <3>3
  <2>2. CASE v.state \notin {"active", "finalizing"} /\ record' \in {record, v}
    BY <1>2, <1>3, <2>2 DEF Orderly
  <2> QED
    BY <2>1, <2>2
<1>7. \A f \in Entries : lock[f] # k /\ entry[f].lease # 0 => entry'[f] = entry[f]
  BY <1>1, <1>2
<1>8. t.pc \in CheckpointPcs => t.val.state = entry'[t.e].state
  OBVIOUS
<1>9. thread' \in ThreadStates
  BY DEF Orderly
<1> QED
  BY <1>4, <1>5, <1>6, <1>7, <1>8, <1>9, OrderlyFrame

(* A step of a task, by what it does to the task. *)
LEMMA WithMoves ==
  ASSUME RuntimeInvariant, NEW k \in Tasks, NEW pc, NEW v, With(k, pc, v)
  PROVE  \E t : /\ task' = [task EXCEPT ![k] = t] /\ t.pc = pc /\ t.val = v
                /\ t.e = task[k].e /\ t.then = task[k].then
<1>1. task[k] \in TaskLocals /\ task \in [Tasks -> TaskLocals]
  BY DEF RuntimeInvariant, Typed
<1> DEFINE t == [task[k] EXCEPT !.pc = pc, !.val = v]
<1>2. t.pc = pc /\ t.val = v /\ t.e = task[k].e /\ t.then = task[k].then
  BY <1>1 DEF TaskLocals
<1>3. task' = [task EXCEPT ![k] = t]
  BY <1>1 DEF With
<1> QED
  BY <1>2, <1>3

LEMMA GoMoves ==
  ASSUME RuntimeInvariant, NEW k \in Tasks, NEW pc, Go(k, pc)
  PROVE  \E t : /\ task' = [task EXCEPT ![k] = t] /\ t.pc = pc /\ t.val = task[k].val
                /\ t.e = task[k].e /\ t.then = task[k].then
<1>1. task[k] \in TaskLocals /\ task \in [Tasks -> TaskLocals]
  BY DEF RuntimeInvariant, Typed
<1> DEFINE t == [task[k] EXCEPT !.pc = pc]
<1>2. t.pc = pc /\ t.val = task[k].val /\ t.e = task[k].e /\ t.then = task[k].then
  BY <1>1 DEF TaskLocals
<1>3. task' = [task EXCEPT ![k] = t]
  BY <1>1 DEF Go
<1> QED
  BY <1>2, <1>3

LEMMA CleanupMoves ==
  ASSUME RuntimeInvariant, NEW k \in Tasks, NEW then, NEW v, Cleanup(k, then, v)
  PROVE  \E t : /\ task' = [task EXCEPT ![k] = t] /\ t.pc = "cleanupRetain" /\ t.val = v
                /\ t.e = task[k].e /\ t.then = then
<1>1. task[k] \in TaskLocals /\ task \in [Tasks -> TaskLocals]
  BY DEF RuntimeInvariant, Typed
<1> DEFINE t == [task[k] EXCEPT !.pc = "cleanupRetain", !.val = v, !.then = then]
<1>2. t.pc = "cleanupRetain" /\ t.val = v /\ t.e = task[k].e /\ t.then = then
  BY <1>1 DEF TaskLocals
<1>3. task' = [task EXCEPT ![k] = t]
  BY <1>1 DEF Cleanup
<1> QED
  BY <1>2, <1>3

(* Both steps of cleanup_runtime leave the rest of the task alone. *)
LEMMA CleanupStepTask ==
  ASSUME RuntimeInvariant, NEW k \in Tasks, CleanupRetain(k) \/ CleanupRelease(k)
  PROVE  /\ task[k].pc \in CleanupPcs /\ UNCHANGED <<record, entry, current, thread, history>>
         /\ \E t : /\ task' = [task EXCEPT ![k] = t] /\ t.pc \in CleanupPcs
                   /\ t.val = task[k].val /\ t.e = task[k].e /\ t.then = task[k].then
<1>1. /\ task[k].pc \in CleanupPcs /\ UNCHANGED <<record, entry, current, thread, history>>
      /\ task[k] \in TaskLocals
  BY ValueFacts DEF CleanupRetain, CleanupRelease, At, CleanupPcs, memory, others
<1>2. CASE \E pc \in CleanupPcs : Go(k, pc)
  BY <1>1, <1>2, GoMoves
<1>3. CASE /\ task[k].pc = "cleanupRetain" /\ CanRetain(svc, task[k].val)
           /\ svc' = AfterRetain(svc, task[k].val)
           /\ task' = [task EXCEPT ![k].pc = "cleanupRelease", ![k].got = svc'.refs.rev]
  <2> DEFINE t == Answered(task[k], svc'.refs.rev)
  <2>1. svc'.refs.rev \in Nat
    BY <1>3, CleanupRetainMoves
  <2>2. /\ t \in TaskLocals /\ t.pc = "cleanupRelease" /\ t.val = task[k].val /\ t.e = task[k].e
        /\ t.then = task[k].then
    BY <1>1, <2>1, AnsweredFacts
  <2>3. task' = [task EXCEPT ![k] = t]
    BY <1>3, TaskUpdates
  <2> QED
    BY <1>1, <2>2, <2>3 DEF CleanupPcs
<1> QED
  BY <1>1, <1>2, <1>3 DEF CleanupRetain, CleanupRelease, Replies, Val, CleanupPcs, At

(* What the references want after a step: as before, or the value of a task. *)
LEMMA RetainWantsValue ==
  ASSUME RuntimeInvariant, NEW k \in Tasks, task[k].val.lease \in Leases,
         CanRetain(svc, task[k].val)
  PROVE  /\ AfterRetain(svc, task[k].val).refs.want.lease = task[k].val.lease
         /\ task[k].val.lease = 1 => svc.refs.want.lease <= 1
<1>1. task[k].val \in Values /\ Sound(svc, task[k].val) /\ svc \in Services /\ SoundService(svc)
  BY ValueFacts
<1>2. /\ AfterRetain(svc, task[k].val).refs.want = Want(task[k].val)
      /\ task[k].val.lease = 1 => svc.refs.want.lease <= 1
  <2>1. task[k].val.lease # 0
    BY FirstLease, ServiceAssumption DEF Leases
  <2> QED
    BY <1>1, <2>1, RetainMoves
<1> QED
  BY <1>2 DEF Want

Retainer(k, t) == Locking(t) \/ (k = "startup" /\ (Building(t) \/ t.then = "durable"))

WantsAs(k) ==
  /\ svc'.refs.want.lease = task[k].val.lease /\ task[k].val.lease \in Leases
  /\ task[k].val.lease = 1 => svc.refs.want.lease <= 1
  /\ Retainer(k, task[k])

LEMMA CallWants ==
  ASSUME RuntimeInvariant, NEW k \in Tasks, Retainer(k, task[k]), task[k].val.lease \in Leases,
         svc' = svc \/ (CanRetain(svc, task[k].val) /\ svc' = AfterRetain(svc, task[k].val))
  PROVE  svc'.refs.want = svc.refs.want \/ WantsAs(k)
  BY RetainWantsValue DEF WantsAs

LEMMA WantSteps ==
  ASSUME RuntimeInvariant, [Next]_vars
  PROVE  svc'.refs.want = svc.refs.want \/ \E k \in Tasks : WantsAs(k)
<1>1. svc \in Services /\ SoundService(svc)
  BY DEF RuntimeInvariant, Typed, ValuesAreSound
<1>2. ASSUME NEW k \in Tasks, Finalize(k)
      PROVE  svc'.refs.want = svc.refs.want \/ WantsAs(k)
  <2>1. CASE UNCHANGED svc
    BY <2>1
  <2>2. CASE CompletionCheckpoint(k)
    <3>1. task[k].pc \in LockedPcs
      BY <2>2 DEF CompletionCheckpoint, CallStep, At, LockedPcs
    <3>2. task[k].val.lease \in Leases
      BY <3>1, LockedFacts DEF Locking
    <3>3. CanComplete(svc, task[k].val.lease) =>
            CompletionOf(svc, task[k].val.lease).refs = svc.refs
      BY <1>1, <3>2, CheckpointMoves DEF Quiet
    <3> QED
      BY <2>2, <3>3 DEF CompletionCheckpoint, CallStep, Replies, Errs, Val
  <2>3. CASE ExportPatch(k)
    <3>1. Exported(svc, task[k].val.latest).refs = svc.refs
      BY <1>1 DEF Exported, Services
    <3> QED
      BY <2>3, <3>1 DEF ExportPatch, CallStep, Replies, Errs, Val
  <2>4. CASE RetainPatch(k)
    <3>1. task[k].pc \in LockedPcs
      BY <2>4 DEF RetainPatch, CallStep, At, LockedPcs
    <3>2. Retainer(k, task[k]) /\ task[k].val.lease \in Leases
      BY <3>1, LockedFacts DEF Locking, Retainer
    <3> QED
      BY <2>4, <3>2, CallWants DEF RetainPatch, CallStep, Replies, Errs, Val
  <2> QED
    BY <1>2, <2>1, <2>2, <2>3, <2>4
       DEF Finalize, FinalizeBegin, MarkPending, SaveCompletion, SavePatch, PersistStep,
           AnnouncePatch, SettleFinalization
<1>3. ASSUME NEW k \in Tasks, CleanupRetain(k)
      PROVE  svc'.refs.want = svc.refs.want \/ WantsAs(k)
  <2>1. task[k].pc \in CleanupPcs
    BY <1>3, CleanupStepTask
  <2>2. Retainer(k, task[k]) /\ task[k].val.lease \in Leases
    BY <2>1, CleanupFacts DEF Retainer, Building
  <2> QED
    BY <1>3, <2>2, CallWants DEF CleanupRetain, Replies, Errs, Val
<1>4. ASSUME NEW k \in Tasks, CleanupRelease(k) PROVE svc'.refs.want = svc.refs.want
  <2>1. task[k].val.lease \in Leases
    BY <1>4, CleanupStepTask, CleanupFacts
  <2> QED
    BY <1>4, <2>1, ReleaseIsQuiet DEF CleanupRelease, Val
<1>5. ASSUME TurnStep PROVE svc'.refs.want = svc.refs.want \/ WantsAs("turn")
  <2>0. "turn" \in Tasks
    BY DEF Tasks
  <2>1. CASE UNCHANGED svc
    BY <2>1
  <2>2. CASE CheckpointCall
    <3>1. task["turn"].pc \in LockedPcs
      BY <2>2 DEF CheckpointCall, CallStep, At, LockedPcs
    <3>2. task["turn"].val.lease \in Leases
      BY <2>0, <3>1, LockedFacts DEF Locking
    <3>3. CanCheckpoint(svc, task["turn"].val.lease) =>
            Checkpointed(svc, task["turn"].val.lease).refs = svc.refs
      BY <1>1, <3>2, CheckpointMoves DEF Quiet
    <3> QED
      BY <2>2, <3>3 DEF CheckpointCall, CallStep, Replies, Errs, Val
  <2>3. CASE CheckpointRetain
    <3>1. task["turn"].pc \in LockedPcs
      BY <2>3 DEF CheckpointRetain, CallStep, At, LockedPcs
    <3>2. Retainer("turn", task["turn"]) /\ task["turn"].val.lease \in Leases
      BY <2>0, <3>1, LockedFacts DEF Locking, Retainer
    <3> QED
      BY <2>0, <2>3, <3>2, CallWants DEF CheckpointRetain, CallStep, Replies, Errs, Val
  <2> QED
    BY <1>5, <2>1, <2>2, <2>3
       DEF TurnStep, CheckpointBegin, CheckpointSaveSnapshot, CheckpointSaveRevision,
           PersistStep, CheckpointEnd
<1>6. ASSUME StartupStep PROVE svc'.refs.want = svc.refs.want \/ WantsAs("startup")
  <2> DEFINE t == task["startup"]
  <2>0. /\ t.val \in Values /\ Sound(svc, t.val) /\ Starts(svc, record, t) /\ "startup" \in Tasks
        /\ record.lease # 0 => svc.lease[1].state # "none"
    BY StartupFacts DEF RuntimeInvariant, FirstLeaseIsOnce
  <2>1. CASE UNCHANGED svc
    BY <2>1
  <2>2. CASE Provision
    <3>1. svc = NewService
      BY <2>0, <2>2 DEF Provision, CallStep, At, Starts
    <3> QED
      BY <2>2, <3>1, ProvisionMoves DEF Provision, CallStep, Replies, Errs, Quiet
  <2>3. CASE RejectReconnect
    <3>1. t.val.lease \in Leases
      BY <2>0, <2>3 DEF RejectReconnect, At, Starts, Values, Leases
    <3> QED
      BY <2>3, <3>1, ReleaseIsQuiet DEF RejectReconnect, Val
  <2>4. CASE Restore
    <3>1. t.val.latest \in Snapshots \ {None} /\ svc.lease[1].state # "none"
      BY <2>0, <2>4 DEF Restore, CallStep, At, Starts, Sound, Values
    <3>2. CanRestore(svc, t.val.latest) => Restored(svc, t.val.latest).refs = svc.refs
      BY <1>1, <3>1, RestoreMoves DEF Quiet
    <3> QED
      BY <2>4, <3>2 DEF Restore, CallStep, Replies, Errs, Val
  <2>5. CASE RetainPending
    <3>1. Building(t)
      BY <2>5 DEF RetainPending, At, Building
    <3>2. Retainer("startup", t) /\ t.val.lease \in Leases
      BY <2>0, <3>1 DEF Retainer, Starts, Values, Leases
    <3> QED
      BY <2>0, <2>5, <3>2, CallWants DEF RetainPending, Replies, Errs, Val
  <2> QED
    BY <1>6, <2>1, <2>2, <2>3, <2>4, <2>5
       DEF StartupStep, ReadRecord, Reconnect, Boot, PersistPending, RolledBack,
           SettleDurable
<1>7. ASSUME NEW l \in Leases, LoseSandbox(l) \/ ReconcileRelease(l)
      PROVE  svc'.refs.want = svc.refs.want
  BY <1>1, <1>7 DEF LoseSandbox, ReconcileRelease, Lost, Reconciled, Services
<1>8. CASE UNCHANGED svc
  BY <1>8
<1>9. "turn" \in Tasks /\ "startup" \in Tasks
  BY DEF Tasks
<1> QED
  BY <1>2, <1>3, <1>4, <1>5, <1>6, <1>7, <1>8, <1>9
     DEF Next, TaskStep, RemovalStep, ReleaseRemoved, ReleaseLocked, SettleRemoval,
         TurnEnds, RemoveThread, RetryCleanup, Take, Start, Stop, Resume, Crash, vars

(* A later lease is wanted for good, and only of a thread with a record. *)
Wants ==
  /\ svc.refs.want.lease > 1 => svc'.refs.want.lease > 1
  /\ record.lease = 0 => svc'.refs.want.lease <= 1

LEMMA WantsKeep ==
  ASSUME RuntimeInvariant, Orderly, [Next]_vars
  PROVE  Wants
<1>1. CASE svc'.refs.want = svc.refs.want
  BY <1>1 DEF Wants, Orderly
<1>2. ASSUME NEW k \in Tasks, WantsAs(k) PROVE Wants
  <2>1. Locking(task[k]) => record.lease # 0
    BY LockedFacts
  <2>2. k = "startup" /\ Building(task[k]) /\ task[k].val.lease # 1 => record.lease # 0
    BY DEF Orderly
  <2>3. k = "startup" /\ task[k].then = "durable" => task[k].val.lease = 1
    BY ValueFacts DEF Advances, Sound
  <2>4. /\ svc.refs.want.lease \in Nat /\ task[k].val.lease \in Nat \ {0}
        /\ svc'.refs.want.lease = task[k].val.lease
    BY <1>2, ServiceAssumption DEF RuntimeInvariant, Typed, Services, WantsAs, Leases
  <2>5. task[k].val.lease # 1 => record.lease # 0
    BY <1>2, <2>1, <2>2, <2>3 DEF WantsAs, Retainer
  <2>6. task[k].val.lease = 1 => svc.refs.want.lease <= 1
    BY <1>2 DEF WantsAs
  <2> QED
    BY <2>4, <2>5, <2>6 DEF Wants
<1> QED
  BY <1>1, <1>2, WantSteps

----------
(* A runtime whose patch was given up: nobody finalizes it any more. *)
Retired(v) == v.state \notin {"active", "finalizing"} /\ v.art = None

Renewing(t) == t.pc \in {"reconnect", "restore"} \/ Building(t)
Removing(t) == t.pc \in CleanupPcs /\ t.then = "removed"

(* A resume that began while nothing else ran stays alone. *)
Alone ==
  task["startup"].pc # "idle" =>
    task["turn"].pc = "idle" /\ task["cleanup"].pc = "idle" /\ thread = "absent"

(* It replaces a runtime that has no patch and that nobody will finalize. *)
Renews ==
  Renewing(task["startup"]) =>
    /\ record.art = None
    /\ current # 0 /\ entry[current].lease = 1 => Retired(entry[current])

(* Once a later lease is retained, whoever still has the first one's entry  *)
(* can only release it.                                                     *)
Replaced ==
  svc.refs.want.lease > 1 =>
    /\ record.art = None
    /\ \A e \in Entries : entry[e].lease = 1 =>
         /\ e = current => Retired(entry[e])
         /\ \A k \in Tasks : task[k].e = e =>
              /\ k # "turn" /\ Retired(entry[e])
              /\ Locking(task[k]) => Removing(task[k])

OneLife ==
  history # "overlapped" =>
    /\ Alone /\ Renews /\ Replaced
    /\ task["startup"].then = "durable" => svc.refs.want.lease <= 1

LEMMA IdleWaits ==
  ASSUME RuntimeInvariant, NEW k \in Tasks, task[k].pc = "idle"
  PROVE  /\ task[k].e = 0 /\ task[k].then = "none" /\ ~Locking(task[k]) /\ ~Building(task[k])
         /\ ~Renewing(task[k]) /\ ~Retainer(k, task[k])
<1>1. task[k].e = 0 /\ task[k].then = "none"
  BY ValueFacts DEF Advances
<1> QED
  BY <1>1 DEF Locking, Building, Renewing, Retainer, LockedPcs, CleanupPcs

LEMMA WantIsNat ==
  ASSUME RuntimeInvariant
  PROVE  svc.refs.want.lease \in Nat /\ \A e \in Entries : entry[e].lease \in Nat
  BY ServiceAssumption DEF RuntimeInvariant, Typed, Services, Values

(* Only a startup with a runtime of a later lease makes the service want it. *)
LEMMA WantGrows ==
  ASSUME RuntimeInvariant, [Next]_vars, svc.refs.want.lease <= 1, svc'.refs.want.lease > 1
  PROVE  Building(task["startup"])
<1>1. svc'.refs.want # svc.refs.want
  BY WantIsNat
<1>2. PICK k \in Tasks : WantsAs(k)
  BY <1>1, WantSteps
<1>3. task[k].val.lease # 1
  BY <1>2 DEF WantsAs
<1>4. CASE Locking(task[k])
  <2>1. task[k].e \in Entries /\ task[k].val.lease = entry[task[k].e].lease
    BY <1>4, LockedFacts
  <2>2. entry[task[k].e].lease <= 1
    BY <2>1 DEF RuntimeInvariant, PatchIsKept
  <2> QED
    BY <1>2, <2>1, <2>2, WantIsNat DEF WantsAs
<1>5. CASE k = "startup" /\ task[k].then = "durable"
  BY <1>3, <1>5, ValueFacts DEF Advances, Sound
<1> QED
  BY <1>2, <1>4, <1>5 DEF WantsAs, Retainer

(* A step that saves nothing keeps what was replaced. *)
LEMMA ReplacedStill ==
  ASSUME RuntimeInvariant, RuntimeInvariant', Replaced, svc.refs.want.lease > 1,
         NEW k \in Tasks, NEW t, task' = [task EXCEPT ![k] = t], UNCHANGED <<record, entry>>,
         current' \in {0, current, task[k].e},
         t.e \in {0, task[k].e} \/ (t.e = current /\ (k = "turn" => ~Retired(entry[t.e]))),
         Locking(t) => /\ t.e = task[k].e
                       /\ \/ Removing(t) \/ k = "turn" \/ ~Retired(entry[t.e])
                          \/ (Locking(task[k]) /\ ~Removing(task[k]))
  PROVE  Replaced'
<1>1. task'[k] = t /\ \A j \in Tasks \ {k} : task'[j] = task[j]
  BY DEF RuntimeInvariant, Typed
<1>2. 0 \notin Entries
  BY RuntimeAssumption DEF Entries
<1>3. ASSUME NEW e \in Entries, entry[e].lease = 1, e = current' PROVE Retired(entry[e])
  BY <1>2, <1>3 DEF Replaced
<1>4. ASSUME NEW e \in Entries, entry[e].lease = 1, t.e = e
      PROVE  k # "turn" /\ Retired(entry[e]) /\ (Locking(t) => Removing(t))
  BY <1>2, <1>4 DEF Replaced
<1>5. ASSUME NEW e \in Entries, entry[e].lease = 1, NEW j \in Tasks, task'[j].e = e
      PROVE  j # "turn" /\ Retired(entry[e]) /\ (Locking(task'[j]) => Removing(task'[j]))
  <2>1. CASE j = k
    BY <1>1, <1>4, <1>5, <2>1
  <2>2. CASE j # k
    BY <1>1, <1>5, <2>2 DEF Replaced
  <2> QED
    BY <2>1, <2>2
<1> QED
  BY <1>3, <1>5 DEF Replaced

LEMMA ReplacedSave ==
  ASSUME RuntimeInvariant, RuntimeInvariant', Replaced, svc.refs.want.lease > 1,
         NEW k \in Tasks, NEW t, task' = [task EXCEPT ![k] = t], NEW v \in Values, Sound(svc, v),
         Locking(task[k]), v.lease = task[k].val.lease,
         record' \in {record, v}, entry' \in {entry, [entry EXCEPT ![task[k].e] = v]},
         current' \in {0, current, task[k].e}, t.e \in {0, task[k].e},
         Removing(task[k]) => /\ t = Idle /\ v.art = task[k].val.art
                              /\ v.state \notin {"active", "finalizing"}
  PROVE  Replaced'
<1> DEFINE e == task[k].e
<1>1. /\ e \in Entries /\ v.lease = entry[e].lease /\ 0 \notin Entries
      /\ entry \in [Entries -> Values]
  BY LockedFacts, RuntimeAssumption DEF RuntimeInvariant, Typed, Entries
<1>2. task'[k] = t /\ \A j \in Tasks \ {k} : task'[j] = task[j]
  BY DEF RuntimeInvariant, Typed
<1>3. entry'[e] \in {entry[e], v} /\ \A f \in Entries \ {e} : entry'[f] = entry[f]
  BY <1>1
<1>4. v.lease = 1 => k # "turn" /\ Retired(v) /\ Retired(entry[e]) /\ t = Idle
  <2> SUFFICES ASSUME v.lease = 1 PROVE k # "turn" /\ Retired(v) /\ Retired(entry[e]) /\ t = Idle
    OBVIOUS
  <2>1. Removing(task[k]) /\ k # "turn" /\ Retired(entry[e])
    BY <1>1 DEF Replaced
  <2>2. task[k].val.art = entry[e].art
    BY <2>1, ValueFacts, LockedPcFacts DEF HoldsEntry, Removing, CleanupPcs
  <2> QED
    BY <2>1, <2>2 DEF Retired
<1>5. v.art = None
  BY <1>4 DEF Sound, Retired
<1>6. record'.art = None
  BY <1>5 DEF Replaced
<1>7. ASSUME NEW f \in Entries, entry'[f].lease = 1
      PROVE  /\ f = current' => Retired(entry'[f])
             /\ \A j \in Tasks : task'[j].e = f =>
                  j # "turn" /\ Retired(entry'[f]) /\ (Locking(task'[j]) => Removing(task'[j]))
  <2>1. CASE f = e
    <3>1. Retired(entry'[f]) /\ t = Idle /\ v.lease = 1
      BY <1>1, <1>3, <1>4, <1>7, <2>1
    <3>2. t.e = 0
      BY <3>1, IdleFacts
    <3>3. ASSUME NEW j \in Tasks, task'[j].e = f
          PROVE  j # "turn" /\ (Locking(task'[j]) => Removing(task'[j]))
      <4>1. j # k /\ task'[j] = task[j]
        BY <1>1, <1>2, <2>1, <3>2, <3>3
      <4> QED
        BY <1>1, <2>1, <3>1, <3>3, <4>1 DEF Replaced
    <3> QED
      BY <3>1, <3>3
  <2>2. CASE f # e
    <3>1. entry'[f] = entry[f] /\ entry[f].lease = 1
      BY <1>3, <1>7, <2>2
    <3>2. f = current' => f = current
      BY <1>1, <2>2
    <3>3. \A j \in Tasks : task'[j].e = f => task[j].e = f /\ task'[j] = task[j]
      BY <1>1, <1>2, <2>2
    <3> QED
      BY <3>1, <3>2, <3>3 DEF Replaced
  <2> QED
    BY <2>1, <2>2
<1> QED
  BY <1>6, <1>7 DEF Replaced

Lives == RuntimeInvariant /\ Orderly /\ OneLife

(* Who works on the runtime while nothing overlaps. *)
LEMMA WhoIsAlone ==
  ASSUME Lives, history # "overlapped", NEW k \in Tasks, task[k].pc # "idle"
  PROVE  IF k = "startup"
         THEN task["turn"].pc = "idle" /\ task["cleanup"].pc = "idle" /\ thread = "absent"
         ELSE task["startup"].pc = "idle"
  BY DEF Lives, OneLife, Alone, Tasks

(* A step of a task that is no startup of its own: the startup is idle, or  *)
(* it finalizes and the others are.                                         *)
LEMMA LifeFrameOf ==
  ASSUME Lives, RuntimeInvariant', [Next]_vars, NEW k \in Tasks, NEW t,
         task' = [task EXCEPT ![k] = t], history' # "overlapped" => history # "overlapped",
         history' # "overlapped" =>
           IF k = "startup" THEN task[k].pc # "idle" /\ thread' = thread /\ ~Building(task[k])
                                 /\ ~Renewing(t) /\ t.then # "durable"
           ELSE task["startup"].pc = "idle",
         history # "overlapped" /\ Replaced /\ svc.refs.want.lease > 1 => Replaced'
  PROVE  OneLife'
<1> SUFFICES ASSUME history' # "overlapped"
             PROVE  /\ Alone' /\ Renews' /\ Replaced'
                    /\ task'["startup"].then = "durable" => svc'.refs.want.lease <= 1
  BY DEF OneLife
<1>1. /\ RuntimeInvariant /\ history # "overlapped" /\ Alone /\ Replaced
      /\ Tasks = {"startup", "cleanup", "turn"}
  BY DEF Lives, OneLife, Tasks
<1>2. task'[k] = t /\ \A j \in Tasks \ {k} : task'[j] = task[j]
  BY <1>1 DEF RuntimeInvariant, Typed
<1>3. ~Building(task["startup"])
  BY <1>1, IdleWaits
<1>4. Replaced'
  <2> SUFFICES ASSUME svc'.refs.want.lease > 1 PROVE Replaced'
    BY DEF Replaced
  <2>1. svc.refs.want.lease > 1
    BY <1>1, <1>3, WantGrows, WantIsNat
  <2> QED
    BY <1>1, <2>1
<1>5. CASE k = "startup"
  <2>1. task'["turn"].pc = "idle" /\ task'["cleanup"].pc = "idle" /\ thread' = "absent"
    BY <1>1, <1>2, <1>5 DEF Alone
  <2>2. ~Renewing(task'["startup"]) /\ task'["startup"].then # "durable"
    BY <1>2, <1>5
  <2> QED
    BY <1>4, <2>1, <2>2 DEF Alone, Renews
<1>6. CASE k # "startup"
  <2>1. task'["startup"] = task["startup"] /\ task["startup"].pc = "idle"
    BY <1>1, <1>2, <1>6
  <2>2. ~Renewing(task'["startup"]) /\ task'["startup"].then # "durable"
    BY <1>1, <2>1, IdleWaits
  <2> QED
    BY <1>4, <2>1, <2>2 DEF Alone, Renews
<1> QED
  BY <1>5, <1>6

(* A task moves on and saves nothing. *)
LEMMA StillLives ==
  ASSUME Lives, RuntimeInvariant', [Next]_vars, NEW k \in Tasks, task[k].pc # "idle", NEW t,
         task' = [task EXCEPT ![k] = t], UNCHANGED <<record, entry, thread, history>>,
         current' \in {0, current} \/ (current' = task[k].e /\ entry[current'].state # "active"),
         t.e \in {0, task[k].e} \/ (t.e = current /\ k # "turn"),
         t.pc \in CheckpointPcs => t.val.state = entry[t.e].state,
         Locking(t) => /\ t.e = task[k].e
                       /\ \/ Removing(t) \/ k = "turn" \/ ~Retired(entry[t.e])
                          \/ (Locking(task[k]) /\ ~Removing(task[k])),
         k = "startup" => ~Building(task[k]) /\ ~Renewing(t) /\ t.then # "durable"
  PROVE  Orderly' /\ OneLife'
<1>1. RuntimeInvariant /\ Orderly /\ OneLife
  BY DEF Lives
<1>2. Orderly'
  <2>1. Wants /\ thread \in ThreadStates
    BY <1>1, WantsKeep DEF Orderly
  <2>2. k = "startup" => ~Building(t)
    BY DEF Renewing
  <2> QED
    BY <1>1, <2>1, <2>2, OrderlyStill DEF Wants
<1>3. Replaced /\ svc.refs.want.lease > 1 => Replaced'
  BY <1>1, ReplacedStill
<1>4. history # "overlapped" =>
        IF k = "startup" THEN task[k].pc # "idle" /\ thread' = thread /\ ~Building(task[k])
                              /\ ~Renewing(t) /\ t.then # "durable"
        ELSE task["startup"].pc = "idle"
  BY WhoIsAlone
<1> QED
  BY <1>2, <1>3, <1>4, LifeFrameOf

(* A task saves v for its entry. *)
LEMMA SaveLives ==
  ASSUME Lives, RuntimeInvariant', [Next]_vars, NEW k \in Tasks, NEW t, NEW v \in Values,
         Sound(svc, v), Locking(task[k]), task' = [task EXCEPT ![k] = t], svc' = svc,
         v.lease = task[k].val.lease, UNCHANGED <<thread, history>>,
         \/ record' = v /\ entry' = [entry EXCEPT ![task[k].e] = v]
         \/ /\ v.state \notin {"active", "finalizing"}
            /\ record' \in {record, v} /\ entry' \in {entry, [entry EXCEPT ![task[k].e] = v]},
         v.state = "active" => entry[task[k].e].state = "active",
         \/ current' \in {0, current}
         \/ /\ current' = task[k].e /\ v.state # "active"
            /\ entry' = [entry EXCEPT ![task[k].e] = v],
         t.pc \in CheckpointPcs => t.val = v /\ t.e = task[k].e /\ entry'[t.e] = v,
         t.e \in {0, task[k].e},
         Removing(task[k]) => /\ t = Idle /\ v.art = task[k].val.art
                              /\ v.state \notin {"active", "finalizing"},
         k = "startup" => ~Renewing(t) /\ t.then # "durable"
  PROVE  Orderly' /\ OneLife'
<1>1. RuntimeInvariant /\ Orderly /\ OneLife
  BY DEF Lives
<1>2. Orderly'
  <2>1. k = "startup" => ~Building(t)
    BY DEF Renewing
  <2> QED
    BY <1>1, <2>1, OrderlySave
<1>3. Replaced /\ svc.refs.want.lease > 1 => Replaced'
  BY <1>1, ReplacedSave
<1>4. task[k].pc # "idle" /\ ~Building(task[k])
  <2>1. task[k].pc # "idle"
    BY <1>1, IdleWaits
  <2> QED
    BY <1>1, <2>1, LockedPcFacts DEF Locking, Building, LockedPcs, CleanupPcs
<1>5. history # "overlapped" =>
        IF k = "startup" THEN task[k].pc # "idle" /\ thread' = thread /\ ~Building(task[k])
                              /\ ~Renewing(t) /\ t.then # "durable"
        ELSE task["startup"].pc = "idle"
  BY <1>4, WhoIsAlone
<1> QED
  BY <1>2, <1>3, <1>5, LifeFrameOf

LEMMA CriticalFacts ==
  ASSUME RuntimeInvariant, NEW k \in Tasks, task[k].pc \in LockedPcs
  PROVE  /\ Locking(task[k]) /\ ~Removing(task[k]) /\ ~Building(task[k]) /\ task[k].pc # "idle"
         /\ task[k].then # "durable" /\ task[k].e \in Entries
<1>1. Locking(task[k])
  BY DEF Locking
<1>2. task[k].then # "durable" /\ task[k].e \in Entries
  BY <1>1, LockedThen, LockedFacts
<1> QED
  BY <1>1, <1>2 DEF Removing, Building, LockedPcs, CleanupPcs

(* The task gives up: it ends and saves nothing. *)
LEMMA ReturnSettles ==
  ASSUME Lives, RuntimeInvariant', [Next]_vars, NEW k \in Tasks, task[k].pc # "idle",
         ~Building(task[k]), task' = [task EXCEPT ![k] = Idle],
         UNCHANGED <<record, entry, thread, history>>, current' \in {0, current}
  PROVE  Orderly' /\ OneLife'
<1>1. /\ Idle.e = 0 /\ Idle.pc \notin CheckpointPcs /\ ~Locking(Idle) /\ ~Renewing(Idle)
      /\ Idle.then # "durable"
  BY IdleFacts DEF CheckpointPcs, Locking, Renewing, Building, LockedPcs, CleanupPcs
<1> QED
  BY <1>1, StillLives

LEMMA PersistSettles ==
  ASSUME Lives, RuntimeInvariant', [Next]_vars, NEW k \in Tasks, NEW pc \in LockedPcs,
         NEW v \in Values, NEW next \in LockedPcs, PersistStep(k, pc, v, next), Sound(svc, v),
         v.lease = task[k].val.lease, v.state = "active" => entry[task[k].e].state = "active"
  PROVE  Orderly' /\ OneLife'
<1>1. /\ RuntimeInvariant /\ task[k].pc \in LockedPcs
      /\ UNCHANGED <<svc, thread, history>>
  BY DEF Lives, PersistStep, At, others
<1>2. /\ Locking(task[k]) /\ ~Removing(task[k]) /\ ~Building(task[k]) /\ task[k].pc # "idle"
      /\ task[k].then # "durable" /\ task[k].e \in Entries
  BY <1>1, CriticalFacts
<1>3. CASE /\ record' = v /\ entry' = [entry EXCEPT ![task[k].e] = v] /\ With(k, next, v)
           /\ current' = current
  <2>1. PICK t : /\ task' = [task EXCEPT ![k] = t] /\ t.pc = next /\ t.val = v
                 /\ t.e = task[k].e /\ t.then = task[k].then
    BY <1>1, <1>3, WithMoves
  <2>2. ~Renewing(t)
    BY <2>1 DEF Renewing, Building, LockedPcs, CleanupPcs
  <2>3. entry'[t.e] = v
    BY <1>1, <1>2, <1>3, <2>1 DEF RuntimeInvariant, Typed
  <2> QED
    BY <1>1, <1>2, <1>3, <2>1, <2>2, <2>3, SaveLives
<1>4. CASE UNCHANGED <<record, entry>> /\ Return(k)
  BY <1>1, <1>2, <1>4, ReturnSettles DEF Return, End, Dropped
<1> QED
  BY <1>3, <1>4 DEF PersistStep, Persisted, PersistFails

LEMMA CallSettles ==
  ASSUME Lives, RuntimeInvariant', [Next]_vars, NEW k \in Tasks, NEW pc \in LockedPcs,
         NEW can, NEW s, NEW v, NEW next \in LockedPcs, CallStep(k, pc, can, s, v, next),
         next \in CheckpointPcs => v.state = entry[task[k].e].state
  PROVE  Orderly' /\ OneLife'
<1>1. /\ RuntimeInvariant /\ task[k].pc \in LockedPcs
      /\ UNCHANGED <<record, entry, thread, history>>
  BY DEF Lives, CallStep, At
<1>2. /\ Locking(task[k]) /\ ~Removing(task[k]) /\ ~Building(task[k]) /\ task[k].pc # "idle"
      /\ task[k].then # "durable" /\ task[k].e \in Entries
  BY <1>1, CriticalFacts
<1>3. CASE With(k, next, v) /\ current' = current
  <2>1. PICK t : /\ task' = [task EXCEPT ![k] = t] /\ t.pc = next /\ t.val = v
                 /\ t.e = task[k].e /\ t.then = task[k].then
    BY <1>1, <1>3, WithMoves
  <2>2. ~Renewing(t)
    BY <2>1 DEF Renewing, Building, LockedPcs, CleanupPcs
  <2> QED
    BY <1>1, <1>2, <1>3, <2>1, <2>2, StillLives
<1>4. CASE Return(k)
  BY <1>1, <1>2, <1>4, ReturnSettles DEF Return, End, Dropped
<1> QED
  BY <1>3, <1>4 DEF CallStep

LEMMA SavesSettle ==
  ASSUME Lives, RuntimeInvariant', [Next]_vars, NEW k \in Tasks,
         MarkPending(k) \/ SaveCompletion(k) \/ SavePatch(k)
           \/ (k = "turn" /\ (CheckpointSaveSnapshot \/ CheckpointSaveRevision))
  PROVE  Orderly' /\ OneLife'
<1>1. /\ RuntimeInvariant /\ Orderly /\ Val(k) \in Values /\ Val(k) = task[k].val
      /\ Sound(svc, Val(k)) /\ Advances(svc, k, task[k]) /\ HoldsEntry(entry, lock, k, task[k])
      /\ {"mark", "complete", "saveCheckpoint", "export", "savePatch", "retain",
          "saveSnapshot", "retainSnapshot", "saveRetained", "unlock"} \subseteq LockedPcs
  BY ValueFacts DEF Lives, Val, LockedPcs
<1>2. CASE MarkPending(k)
  <2> DEFINE v == [Val(k) EXCEPT !.state = "finalizing"]
  <2>1. PersistStep(k, "mark", v, "complete") /\ Val(k).state = "active"
    BY <1>1, <1>2 DEF MarkPending, PersistStep, At, Advances
  <2>2. /\ v \in Values /\ v.lease = task[k].val.lease /\ v.state = "finalizing"
        /\ v.art = Val(k).art /\ v.rev = Val(k).rev /\ v.base = Val(k).base /\ v.latest = Val(k).latest
    BY <1>1 DEF Values, States
  <2> HIDE DEF v
  <2>3. Sound(svc, v)
    BY <1>1, <2>1, <2>2 DEF Sound, Finished
  <2> QED
    BY <1>1, <2>1, <2>2, <2>3, PersistSettles
<1>3. CASE SaveCompletion(k)
  <2>1. PersistStep(k, "saveCheckpoint", Val(k), "export") /\ Val(k).state = "finalizing"
    BY <1>1, <1>3 DEF SaveCompletion, PersistStep, At, Advances
  <2> QED
    BY <1>1, <2>1, PersistSettles
<1>4. CASE SavePatch(k)
  <2>1. PersistStep(k, "savePatch", Val(k), "retain") /\ task[k].pc = "savePatch"
    BY <1>4 DEF SavePatch, PersistStep, At
  <2>2. Val(k).state # "active"
    BY <1>1, <2>1 DEF HoldsEntry, Locking, LockedPcs, Sound, Finished
  <2> QED
    BY <1>1, <2>1, <2>2, PersistSettles
<1>5. CASE k = "turn" /\ (CheckpointSaveSnapshot \/ CheckpointSaveRevision)
  <2>1. PICK pc \in {"saveSnapshot", "saveRetained"}, next \in {"retainSnapshot", "unlock"} :
          PersistStep(k, pc, Val(k), next)
    BY <1>5 DEF CheckpointSaveSnapshot, CheckpointSaveRevision
  <2>2. Val(k).state = entry[task[k].e].state
    BY <1>1, <2>1 DEF PersistStep, At, Orderly, CheckpointPcs
  <2> QED
    BY <1>1, <2>1, <2>2, PersistSettles
<1> QED
  BY <1>2, <1>3, <1>4, <1>5

LEMMA CallsSettle ==
  ASSUME Lives, RuntimeInvariant', [Next]_vars, NEW k \in Tasks,
         CompletionCheckpoint(k) \/ ExportPatch(k) \/ RetainPatch(k)
           \/ (k = "turn" /\ (CheckpointCall \/ CheckpointRetain))
  PROVE  Orderly' /\ OneLife'
<1>1. /\ {"complete", "saveCheckpoint", "export", "savePatch", "retain", "saveRevision",
          "snapshot", "saveSnapshot", "retainSnapshot", "saveRetained"} \subseteq LockedPcs
      /\ {"saveCheckpoint", "savePatch", "saveRevision"} \cap CheckpointPcs = {}
      /\ RuntimeInvariant /\ Orderly /\ task[k].val \in Values
  BY ValueFacts DEF LockedPcs, CheckpointPcs, Lives
<1>2. CASE CompletionCheckpoint(k)
  BY <1>1, <1>2, CallSettles DEF CompletionCheckpoint
<1>3. CASE ExportPatch(k)
  BY <1>1, <1>3, CallSettles DEF ExportPatch
<1>4. CASE RetainPatch(k)
  BY <1>1, <1>4, CallSettles DEF RetainPatch
<1>5. CASE k = "turn" /\ (CheckpointCall \/ CheckpointRetain)
  <2>1. task[k].val.state = entry[task[k].e].state
    BY <1>1, <1>5
       DEF CheckpointCall, CheckpointRetain, CallStep, At, Orderly, CheckpointPcs
  <2>2. CASE CheckpointCall
    <3> DEFINE v == [Val(k) EXCEPT !.latest = Latest(Checkpointed(svc, Val(k).lease), Val(k).lease)]
    <3>1. v.state = task[k].val.state
      BY <1>1 DEF Values, Val
    <3>2. CallStep(k, "snapshot", CanCheckpoint(svc, Val(k).lease), Checkpointed(svc, Val(k).lease),
                   v, "saveSnapshot")
      BY <1>5, <2>2 DEF CheckpointCall
    <3> HIDE DEF v
    <3> QED
      BY <1>1, <2>1, <3>1, <3>2, CallSettles
  <2>3. CASE CheckpointRetain
    <3> DEFINE v == [Val(k) EXCEPT !.rev = AfterRetain(svc, Val(k)).refs.rev]
    <3>1. v.state = task[k].val.state
      BY <1>1 DEF Values, Val
    <3>2. CallStep(k, "retainSnapshot", CanRetain(svc, Val(k)), AfterRetain(svc, Val(k)),
                   v, "saveRetained")
      BY <1>5, <2>3 DEF CheckpointRetain
    <3> HIDE DEF v
    <3> QED
      BY <1>1, <2>1, <3>1, <3>2, CallSettles
  <2> QED
    BY <1>5, <2>2, <2>3
<1> QED
  BY <1>2, <1>3, <1>4, <1>5

LEMMA WaitingFacts ==
  ASSUME RuntimeInvariant, NEW k \in Tasks, task[k].pc \in WaitingPcs
  PROVE  /\ task[k].pc # "idle" /\ ~Building(task[k]) /\ ~Locking(task[k])
         /\ task[k].e \in Entries /\ task[k].then \notin {"rolledback", "durable"}
<1>1. task[k].e \in Entries /\ task[k].then \notin {"rolledback", "durable"}
  BY EntryThen
<1> QED
  BY <1>1 DEF WaitingPcs, Building, Locking, LockedPcs, CleanupPcs

LEMMA FinalizeBeginSettles ==
  ASSUME Lives, RuntimeInvariant', [Next]_vars, NEW k \in Tasks, FinalizeBegin(k)
  PROVE  Orderly' /\ OneLife'
<1> DEFINE v == entry[task[k].e]
<1>1. /\ RuntimeInvariant /\ task[k].pc \in WaitingPcs
      /\ UNCHANGED <<record, entry, thread, history>>
  BY DEF Lives, FinalizeBegin, At, WaitingPcs, others
<1>2. /\ task[k].pc # "idle" /\ ~Building(task[k])
      /\ task[k].e \in Entries /\ task[k].then \notin {"rolledback", "durable"}
  BY <1>1, WaitingFacts
<1>3. CASE Over(v)
  BY <1>1, <1>2, <1>3, ReturnSettles DEF FinalizeBegin, Value, Dropped
<1>4. CASE ~Over(v)
  <2>1. (\E pc \in {"mark", "complete", "retain"} : With(k, pc, v)) /\ current' = current
    BY <1>4 DEF FinalizeBegin, Value
  <2>2. PICK pc \in {"mark", "complete", "retain"} : With(k, pc, v)
    BY <2>1
  <2>3. PICK t : /\ task' = [task EXCEPT ![k] = t] /\ t.pc = pc /\ t.val = v
                 /\ t.e = task[k].e /\ t.then = task[k].then
    BY <1>1, <2>2, WithMoves
  <2>4. t.pc \notin CheckpointPcs /\ ~Renewing(t)
    BY <1>2, <2>3 DEF CheckpointPcs, Renewing, Building
  <2>5. ~Retired(v)
    BY <1>4 DEF Over, Retired
  <2> QED
    BY <1>1, <1>2, <2>1, <2>3, <2>4, <2>5, StillLives
<1> QED
  BY <1>3, <1>4

LEMMA AnnouncePatchSettles ==
  ASSUME Lives, RuntimeInvariant', [Next]_vars, NEW k \in Tasks, AnnouncePatch(k)
  PROVE  Orderly' /\ OneLife'
<1> DEFINE v == task[k].val
<1>1. /\ RuntimeInvariant /\ task[k].pc = "saveRevision" /\ task[k].pc \in LockedPcs
      /\ UNCHANGED <<svc, thread, history>>
  BY DEF Lives, AnnouncePatch, At, LockedPcs
<1>2. /\ Locking(task[k]) /\ ~Removing(task[k]) /\ ~Building(task[k]) /\ task[k].pc # "idle"
      /\ task[k].e \in Entries
  BY <1>1, CriticalFacts
<1>3. v \in Values /\ Sound(svc, v) /\ v.state \in Finished
  BY <1>1, ValueFacts DEF Advances, Sound
<1>4. CASE Cleanup(k, "finalized", v) /\ current' = current
  <2>1. PICK t : /\ task' = [task EXCEPT ![k] = t] /\ t.pc = "cleanupRetain" /\ t.val = v
                 /\ t.e = task[k].e /\ t.then = "finalized"
    BY <1>1, <1>4, CleanupMoves
  <2>2. t.pc \notin CheckpointPcs /\ ~Renewing(t)
    BY <2>1 DEF CheckpointPcs, Renewing, Building
  <2>3. CASE UNCHANGED <<record, entry>>
    BY <1>1, <1>2, <1>4, <2>1, <2>2, <2>3, StillLives
  <2>4. CASE record' = v /\ entry' = [entry EXCEPT ![task[k].e] = v]
    BY <1>1, <1>2, <1>3, <1>4, <2>1, <2>2, <2>4, SaveLives DEF Finished
  <2> QED
    BY <2>3, <2>4 DEF AnnouncePatch, Persisted, Val, PersistFails
<1>5. CASE UNCHANGED <<record, entry>> /\ Return(k)
  BY <1>1, <1>2, <1>5, ReturnSettles DEF Return, End, Dropped
<1> QED
  BY <1>4, <1>5 DEF AnnouncePatch, PersistFails, Val

(* A cleanup ends: its outcome is saved in the record, in the entry or in both. *)
LEMMA OutcomeSettles ==
  ASSUME Lives, RuntimeInvariant', [Next]_vars, NEW k \in Tasks, Locking(task[k]),
         task[k].pc \in CleanupPcs, NEW v \in Values, Sound(svc, v), v.lease = task[k].val.lease,
         v.art = task[k].val.art, v.state \in {"releasing", "released"},
         task' = [task EXCEPT ![k] = Idle], UNCHANGED <<svc, thread, history>>,
         record' \in {record, v}, entry' \in {entry, [entry EXCEPT ![task[k].e] = v]},
         \/ current' \in {0, current}
         \/ current' = task[k].e /\ entry' = [entry EXCEPT ![task[k].e] = v]
  PROVE  Orderly' /\ OneLife'
<1>1. /\ Idle.e = 0 /\ Idle.pc \notin CheckpointPcs /\ ~Renewing(Idle) /\ Idle.then # "durable"
  BY IdleFacts DEF CheckpointPcs, Renewing, Building, CleanupPcs
<1> QED
  BY <1>1, SaveLives

LEMMA SettleFinalizationSettles ==
  ASSUME Lives, RuntimeInvariant', [Next]_vars, NEW k \in Tasks, SettleFinalization(k)
  PROVE  Orderly' /\ OneLife'
<1> DEFINE v == IF At(k, "settled") THEN [Val(k) EXCEPT !.state = "released", !.rev = task[k].got]
                ELSE [Val(k) EXCEPT !.state = "releasing"]
<1>1. /\ RuntimeInvariant /\ task[k].pc \in CleanupPcs /\ Locking(task[k])
      /\ UNCHANGED <<svc, thread, history>> /\ task[k].val \in Values
  BY ValueFacts DEF Lives, SettleFinalization, Locking, CleanupPcs, others
<1>2. v \in Values /\ Sound(svc, v) /\ v.lease = task[k].val.lease /\ v.art = task[k].val.art
  BY <1>1, Outcomes DEF Val, At
<1>3. v.state \in {"releasing", "released"}
  BY <1>1 DEF Val, Values
<1>4. /\ record' \in {record, v} /\ entry' = [entry EXCEPT ![task[k].e] = v]
      /\ task' = [task EXCEPT ![k] = Idle] /\ current' \in {0, current}
  BY DEF SettleFinalization, Persisted, PersistFails, Return, End, Dropped
<1> HIDE DEF v
<1> QED
  BY <1>1, <1>2, <1>3, <1>4, OutcomeSettles

(* cleanup_runtime of a task in its critical section. *)
LEMMA CleanupStepSettles ==
  ASSUME Lives, RuntimeInvariant', [Next]_vars, NEW k \in Tasks, Locking(task[k]),
         CleanupRetain(k) \/ CleanupRelease(k)
  PROVE  Orderly' /\ OneLife'
<1>1. RuntimeInvariant
  BY DEF Lives
<1>2. /\ task[k].pc \in CleanupPcs /\ UNCHANGED <<record, entry, current, thread, history>>
  BY <1>1, CleanupStepTask
<1>3. PICK t : /\ task' = [task EXCEPT ![k] = t] /\ t.pc \in CleanupPcs
               /\ t.val = task[k].val /\ t.e = task[k].e /\ t.then = task[k].then
  BY <1>1, CleanupStepTask
<1>4. task[k].pc # "idle" /\ task[k].then \in {"finalized", "removed"}
  BY <1>2 DEF Locking, CleanupPcs, LockedPcs
<1>5. /\ ~Building(task[k]) /\ ~Renewing(t) /\ t.pc \notin CheckpointPcs
      /\ Removing(t) <=> Removing(task[k])
  BY <1>2, <1>3, <1>4 DEF Building, Renewing, Removing, CleanupPcs, CheckpointPcs
<1> QED
  BY <1>2, <1>3, <1>4, <1>5, StillLives

LEMMA CheckpointEndsSettle ==
  ASSUME Lives, RuntimeInvariant', [Next]_vars, CheckpointBegin \/ CheckpointEnd
  PROVE  Orderly' /\ OneLife'
<1>1. /\ RuntimeInvariant /\ "turn" \in Tasks
      /\ UNCHANGED <<record, entry, current, thread, history>>
  BY DEF Lives, CheckpointBegin, CheckpointEnd, Tasks, others
<1>2. CASE CheckpointBegin
  <2>1. task["turn"].pc \in WaitingPcs /\ With("turn", "snapshot", entry[task["turn"].e])
    BY <1>2 DEF CheckpointBegin, At, WaitingPcs, Value
  <2>2. PICK t : /\ task' = [task EXCEPT !["turn"] = t] /\ t.val = entry[task["turn"].e]
                 /\ t.e = task["turn"].e
    BY <1>1, <2>1, WithMoves
  <2>3. task["turn"].pc # "idle"
    BY <1>1, <2>1, WaitingFacts
  <2> QED
    BY <1>1, <2>2, <2>3, StillLives
<1>3. CASE CheckpointEnd
  <2>1. task["turn"].pc \in LockedPcs /\ task' = [task EXCEPT !["turn"] = Idle]
    BY <1>3 DEF CheckpointEnd, At, LockedPcs, End
  <2> QED
    BY <1>1, <2>1, CriticalFacts, ReturnSettles
<1> QED
  BY <1>2, <1>3

LEMMA ReleaseRemovedSettles ==
  ASSUME Lives, RuntimeInvariant', [Next]_vars, ReleaseRemoved
  PROVE  Orderly' /\ OneLife'
<1> DEFINE k == "cleanup"
           e == task[k].e
<1>1. /\ RuntimeInvariant /\ k \in Tasks /\ task[k].pc \in WaitingPcs
      /\ UNCHANGED <<record, entry, thread, history>>
  BY DEF Lives, ReleaseRemoved, At, WaitingPcs, Tasks, others
<1>2. task[k].pc # "idle"
  BY <1>1, WaitingFacts
<1>3. /\ \E pc \in {"finalize", "await"} : \E v : With(k, pc, v) \/ Go(k, pc)
      /\ current' = current \/ (current' = e /\ entry[e].state = "finalizing")
  BY DEF ReleaseRemoved
<1>4. PICK t : /\ task' = [task EXCEPT ![k] = t] /\ t.pc \in {"finalize", "await"} /\ t.e = e
  <2>1. PICK pc \in {"finalize", "await"} : \E v : With(k, pc, v) \/ Go(k, pc)
    BY <1>3
  <2>2. CASE Go(k, pc)
    BY <1>1, <2>2, GoMoves
  <2>3. ASSUME NEW v, With(k, pc, v)
        PROVE  \E t : /\ task' = [task EXCEPT ![k] = t] /\ t.pc \in {"finalize", "await"} /\ t.e = e
    BY <1>1, <2>3, WithMoves
  <2> QED
    BY <2>1, <2>2, <2>3
<1>5. t.pc \notin CheckpointPcs /\ ~Locking(t)
  BY <1>4 DEF CheckpointPcs, Locking, LockedPcs, CleanupPcs
<1>6. k # "startup"
  OBVIOUS
<1> HIDE DEF k
<1> QED
  BY <1>1, <1>2, <1>3, <1>4, <1>5, <1>6, StillLives

LEMMA ReleaseLockedSettles ==
  ASSUME Lives, RuntimeInvariant', [Next]_vars, ReleaseLocked
  PROVE  Orderly' /\ OneLife'
<1> DEFINE k == "cleanup"
           e == task[k].e
           v == entry[e]
<1>1. /\ RuntimeInvariant /\ k \in Tasks /\ task[k].pc \in WaitingPcs /\ k # "startup"
      /\ UNCHANGED <<record, entry, thread, history>>
  BY DEF Lives, ReleaseLocked, At, WaitingPcs, Tasks, others
<1>2. task[k].pc # "idle"
  BY <1>1, WaitingFacts
<1>3. CASE v.state \in {"finalizing", "released"}
  <2>1. /\ task' = [task EXCEPT ![k] = Idle]
        /\ current' = current \/ (current' = e /\ v.state # "active")
    BY <1>3 DEF ReleaseLocked, Value, Reinserted
  <2>2. Idle.e = 0 /\ Idle.pc \notin CheckpointPcs /\ ~Locking(Idle)
    BY IdleFacts DEF CheckpointPcs, Locking, LockedPcs, CleanupPcs
  <2> HIDE DEF k
  <2> QED
    BY <1>1, <1>2, <2>1, <2>2, StillLives
<1>4. CASE v.state \notin {"finalizing", "released"}
  <2>1. Cleanup(k, "removed", v) /\ current' = current
    BY <1>4 DEF ReleaseLocked, Value
  <2>2. PICK t : /\ task' = [task EXCEPT ![k] = t] /\ t.pc = "cleanupRetain" /\ t.e = e
                 /\ t.then = "removed"
    BY <1>1, <2>1, CleanupMoves
  <2>3. t.pc \notin CheckpointPcs /\ Removing(t)
    BY <2>2 DEF CheckpointPcs, Removing, CleanupPcs
  <2> HIDE DEF k
  <2> QED
    BY <1>1, <1>2, <2>1, <2>2, <2>3, StillLives
<1> QED
  BY <1>3, <1>4

LEMMA SettleRemovalSettles ==
  ASSUME Lives, RuntimeInvariant', [Next]_vars, SettleRemoval
  PROVE  Orderly' /\ OneLife'
<1> DEFINE k == "cleanup"
           e == task[k].e
           x == task[k].val
           released == [x EXCEPT !.state = "released", !.rev = task[k].got]
           deferred == [x EXCEPT !.state = "releasing", !.rev = task[k].got]
           failed   == [x EXCEPT !.state = "releasing"]
<1>1. /\ RuntimeInvariant /\ k \in Tasks /\ task[k].pc \in CleanupPcs /\ Locking(task[k])
      /\ UNCHANGED <<svc, thread, history>> /\ task' = [task EXCEPT ![k] = Idle]
  BY DEF Lives, SettleRemoval, At, CleanupPcs, Locking, Tasks, End, others
<1>2. x \in Values
  BY <1>1, ValueFacts
<1>3. [released EXCEPT !.state = "releasing"] = deferred
  BY <1>2 DEF Values
<1>4. PICK v : /\ \/ v = failed \/ (task[k].pc = "settled" /\ v \in {released, deferred})
               /\ record' \in {record, v} /\ entry' \in {entry, [entry EXCEPT ![e] = v]}
               /\ \/ current' \in {0, current}
                  \/ current' = e /\ entry' = [entry EXCEPT ![e] = v]
  BY <1>3 DEF SettleRemoval, Persisted, PersistFails, Reinserted, At, Val
<1>5. v.state \in {"releasing", "released"}
  BY <1>2, <1>4 DEF Values
<1>6. v \in Values /\ Sound(svc, v) /\ v.lease = x.lease /\ v.art = x.art
  BY <1>1, <1>4, Outcomes
<1> HIDE DEF k
<1> QED
  BY <1>1, <1>4, <1>5, <1>6, OutcomeSettles

LEMMA TurnEndsSettles ==
  ASSUME Lives, RuntimeInvariant', [Next]_vars, NEW goal \in {"finalize", "checkpoint"},
         TurnEnds(goal)
  PROVE  Orderly' /\ OneLife'
<1> DEFINE k == "turn"
           t == Aimed(goal, current, entry[current])
<1>1. /\ RuntimeInvariant /\ Orderly /\ OneLife /\ k \in Tasks /\ thread = "running"
      /\ UNCHANGED <<svc, record, entry, current, thread, history>> /\ k # "startup"
      /\ entry[current].state = "active" /\ task' = [task EXCEPT ![k] = t]
      /\ current \in Entries /\ entry[current] \in Values /\ current \in 0..MaxEntry
  BY CurrentFacts
     DEF Lives, TurnEnds, Tasks, memory, others, Aimed, RuntimeInvariant, Typed
<1>2. t.pc = goal /\ t.e = current /\ goal \in WaitingPcs
  BY <1>1, AimedFacts DEF AllPcs, WaitingPcs
<1> HIDE DEF t, k
<1>3. t.pc \notin CheckpointPcs /\ ~Locking(t) /\ ~Retired(entry[t.e])
  BY <1>1, <1>2 DEF CheckpointPcs, Locking, LockedPcs, CleanupPcs, Retired
<1>4. Orderly'
  <2>1. Wants /\ thread \in ThreadStates
    BY <1>1, WantsKeep DEF Orderly
  <2> QED
    BY <1>1, <1>3, <2>1, OrderlyStill DEF Wants
<1>5. history # "overlapped" => task["startup"].pc = "idle"
  BY <1>1 DEF OneLife, Alone
<1>6. Replaced /\ svc.refs.want.lease > 1 => Replaced'
  BY <1>1, <1>2, <1>3, ReplacedStill
<1> QED
  BY <1>1, <1>4, <1>5, <1>6, LifeFrameOf

LEMMA TakeSettles ==
  ASSUME Lives, RuntimeInvariant', [Next]_vars, NEW scheduled, NEW permit \in BOOLEAN,
         Take(scheduled, permit), thread' \in {thread, "absent"}
  PROVE  Orderly' /\ OneLife'
<1> DEFINE k == "cleanup"
<1>1. /\ RuntimeInvariant /\ Orderly /\ OneLife /\ k \in Tasks /\ k # "startup" /\ k # "turn"
      /\ UNCHANGED <<svc, record, entry>> /\ current' = 0
      /\ history' # "overlapped" => history # "overlapped" /\ task["startup"].pc = "idle"
  BY DEF Lives, Take, Tasks, Busy
<1>2. PICK t : /\ task' = [task EXCEPT ![k] = t] /\ t.pc \in {"idle", "taken"}
               /\ t.e \in {0, current}
  <2>1. CASE current = 0
    BY <2>1, IdleFacts DEF Take
  <2>2. CASE current # 0
    <3> DEFINE t == Taken("taken", current, entry[current], permit)
    <3>1. current \in 0..MaxEntry /\ entry[current] \in Values /\ "taken" \in AllPcs
      BY <1>1, <2>2, CurrentFacts DEF RuntimeInvariant, Typed, AllPcs, WaitingPcs
    <3>2. t.pc = "taken" /\ t.e = current
      BY <3>1, TakenFacts
    <3>3. task' = [task EXCEPT ![k] = t]
      BY <2>2 DEF Take, Taken
    <3> QED
      BY <3>2, <3>3
  <2> QED
    BY <2>1, <2>2
<1> HIDE DEF k
<1>3. t.pc \notin CheckpointPcs /\ ~Locking(t)
  BY <1>2 DEF CheckpointPcs, Locking, LockedPcs, CleanupPcs
<1>4. Orderly'
  <2>1. Wants /\ thread \in ThreadStates
    BY <1>1, WantsKeep DEF Orderly
  <2> QED
    BY <1>1, <1>2, <1>3, <2>1, OrderlyStill DEF Wants, ThreadStates
<1>5. Replaced /\ svc.refs.want.lease > 1 => Replaced'
  BY <1>1, <1>2, <1>3, ReplacedStill
<1> QED
  BY <1>1, <1>2, <1>4, <1>5, LifeFrameOf

(* A startup moves on with a value of its own. *)
LEMMA StartupSettles ==
  ASSUME Lives, RuntimeInvariant', [Next]_vars, task["startup"].pc # "idle", NEW t,
         task' = [task EXCEPT !["startup"] = t], UNCHANGED <<record, entry, current, thread, history>>,
         t.e = 0, t.pc \notin CheckpointPcs,
         Renewing(t) => \/ Renewing(task["startup"])
                        \/ /\ record.art = None
                           /\ history # "overlapped" /\ current # 0 /\ entry[current].lease = 1 =>
                                Retired(entry[current]),
         Building(t) /\ t.val.lease # 1 => record.lease # 0,
         t.then = "durable" => \/ task["startup"].then = "durable"
                               \/ svc' = svc /\ record.art # None
  PROVE  Orderly' /\ OneLife'
<1>1. RuntimeInvariant /\ Orderly /\ OneLife /\ "startup" \in Tasks
  BY DEF Lives, Tasks
<1>2. Orderly'
  <2>1. Wants /\ thread \in ThreadStates
    BY <1>1, WantsKeep DEF Orderly
  <2> QED
    BY <1>1, <2>1, OrderlyStill DEF Wants
<1>3. task'["startup"] = t /\ \A j \in Tasks \ {"startup"} : task'[j] = task[j]
  BY <1>1 DEF RuntimeInvariant, Typed
<1>4. OneLife'
  <2> SUFFICES ASSUME history # "overlapped"
               PROVE  /\ Alone' /\ Renews' /\ Replaced'
                      /\ t.then = "durable" => svc'.refs.want.lease <= 1
    BY <1>3 DEF OneLife
  <2>4. Alone /\ Renews /\ Replaced /\ (task["startup"].then = "durable" => svc.refs.want.lease <= 1)
    BY <1>1 DEF OneLife
  <2>5. /\ task["turn"].pc = "idle" /\ task["cleanup"].pc = "idle" /\ thread = "absent"
        /\ Tasks = {"startup", "turn", "cleanup"}
    BY <2>4 DEF Alone, Tasks
  <2>6. Alone'
    BY <1>3, <2>5 DEF Alone
  <2>7. Renews'
    BY <1>3, <2>4 DEF Renews
  <2>8. task["turn"].e = 0 /\ task["cleanup"].e = 0
    BY <1>1, <2>5, IdleWaits
  <2>9. \A j \in Tasks : task'[j].e = 0
    BY <1>3, <2>5, <2>8
  <2>10. ~Locking(t) /\ 0 \notin Entries
    <3>1. HoldsEntry(entry', lock', "startup", task'["startup"])
      BY <1>1 DEF RuntimeInvariant, TasksAreSound
    <3> QED
      BY <1>3, <3>1, RuntimeAssumption DEF HoldsEntry, Entries
  <2>11. Replaced'
    <3> SUFFICES ASSUME svc'.refs.want.lease > 1 PROVE Replaced'
      BY DEF Replaced
    <3>1. /\ record.art = None
          /\ \A e \in Entries : entry[e].lease = 1 /\ e = current => Retired(entry[e])
      <4>1. CASE svc.refs.want.lease > 1
        BY <2>4, <4>1 DEF Replaced
      <4>2. CASE svc.refs.want.lease <= 1
        <5>1. Building(task["startup"])
          BY <1>1, <4>2, WantGrows
        <5> QED
          BY <2>4, <2>10, <5>1 DEF Renews, Renewing
      <4> QED
        BY <1>1, <4>1, <4>2, WantIsNat
    <3> QED
      BY <2>9, <2>10, <3>1 DEF Replaced
  <2>12. t.then = "durable" => svc'.refs.want.lease <= 1
    <3> SUFFICES ASSUME t.then = "durable" PROVE svc'.refs.want.lease <= 1
      OBVIOUS
    <3>1. CASE task["startup"].then = "durable"
      <4>1. ~Building(task["startup"])
        BY <1>1, <3>1, ValueFacts DEF Building, Advances, StartupPcs
      <4>2. svc'.refs.want.lease \in Nat
        BY DEF RuntimeInvariant, Typed, Services
      <4> QED
        BY <1>1, <2>4, <3>1, <4>1, <4>2, WantGrows
    <3>2. CASE svc' = svc /\ record.art # None
      BY <1>1, <2>4, <3>2, WantIsNat DEF Replaced
    <3> QED
      BY <3>1, <3>2
  <2> QED
    BY <2>6, <2>7, <2>11, <2>12
<1> QED
  BY <1>2, <1>4

(* A thread starts or is resumed. *)
LEMMA BeginSettles ==
  ASSUME Lives, RuntimeInvariant', [Next]_vars, task["startup"].pc = "idle", NEW t,
         task' = [task EXCEPT !["startup"] = t], t.pc \in {"provision", "read"}, t.e = 0,
         t.then = "none", UNCHANGED <<svc, record, entry>>, thread' = "absent",
         current' = 0 \/ (thread = "absent" /\ current' = current),
         history' # "overlapped" =>
           history # "overlapped" /\ task["turn"].pc = "idle" /\ task["cleanup"].pc = "idle"
  PROVE  Orderly' /\ OneLife'
<1>1. RuntimeInvariant /\ Orderly /\ OneLife /\ Tasks = {"startup", "turn", "cleanup"}
  BY DEF Lives, Tasks
<1>2. task'["startup"] = t /\ \A j \in Tasks \ {"startup"} : task'[j] = task[j]
  BY <1>1 DEF RuntimeInvariant, Typed
<1>3. ~Renewing(t) /\ ~Building(t) /\ ~Locking(t) /\ t.pc \notin CheckpointPcs
  BY DEF Renewing, Building, Locking, LockedPcs, CleanupPcs, CheckpointPcs
<1>4. Orderly'
  <2>1. Wants
    BY <1>1, WantsKeep
  <2> QED
    BY <1>1, <1>3, <2>1, OrderlyStill DEF Wants, ThreadStates
<1>5. ASSUME history' # "overlapped"
      PROVE  /\ Alone' /\ Renews' /\ Replaced'
             /\ task'["startup"].then = "durable" => svc'.refs.want.lease <= 1
  <2>1. Replaced
    BY <1>1, <1>5 DEF OneLife
  <2>2. Alone'
    BY <1>1, <1>2, <1>5 DEF Alone
  <2>3. Renews'
    BY <1>2, <1>3 DEF Renews
  <2>4. Replaced'
    <3>1. CASE svc.refs.want.lease > 1
      BY <1>1, <1>3, <2>1, <3>1, ReplacedStill
    <3>2. CASE ~(svc.refs.want.lease > 1)
      BY <3>2 DEF Replaced
    <3> QED
      BY <3>1, <3>2
  <2> QED
    BY <1>2, <2>2, <2>3, <2>4
<1> QED
  BY <1>4, <1>5 DEF OneLife

(* Nobody has anything to do for a thread without a record but its start. *)
LEMMA NoRecordNoTask ==
  ASSUME RuntimeInvariant, record.lease = 0, NEW k \in Tasks, k # "startup"
  PROVE  task[k].pc = "idle"
<1>1. task[k] \in TaskLocals /\ HoldsEntry(entry, lock, k, task[k]) /\ Advances(svc, k, task[k])
  BY ValueFacts
<1>2. task[k].e = 0
  <2>1. task[k].e \in 0..MaxEntry /\ \A e \in Entries : entry[e].lease = 0
    BY <1>1 DEF TaskLocals, RuntimeInvariant, FirstLeaseIsOnce
  <2> QED
    BY <1>1, <2>1, RuntimeAssumption DEF HoldsEntry, Entries
<1>3. task[k].pc \notin WaitingPcs /\ task[k].pc \notin LockedPcs /\ task[k].pc \notin CleanupPcs
  <2>1. task[k].pc \notin WaitingPcs /\ ~Locking(task[k])
    BY <1>1, <1>2 DEF HoldsEntry
  <2> QED
    BY <2>1, CleanupFacts DEF Locking
<1>4. task[k].pc \notin StartupPcs
  BY <1>1 DEF Advances
<1> QED
  BY <1>1, <1>3, <1>4 DEF TaskLocals

LEMMA StartSettles ==
  ASSUME Lives, RuntimeInvariant', [Next]_vars, Start \/ Resume
  PROVE  Orderly' /\ OneLife'
<1>1. /\ RuntimeInvariant /\ Tasks = {"startup", "turn", "cleanup"}
      /\ task["startup"].pc = "idle" /\ UNCHANGED <<svc, record, entry>>
  BY DEF Lives, Start, Resume, At, memory, Tasks
<1>2. \E pc \in {"provision", "read"} : Go("startup", pc)
  BY DEF Start, Resume
<1>3. PICK t : /\ task' = [task EXCEPT !["startup"] = t] /\ t.pc \in {"provision", "read"}
               /\ t.e = task["startup"].e /\ t.then = task["startup"].then
  BY <1>1, <1>2, GoMoves
<1>4. t.e = 0 /\ t.then = "none"
  BY <1>1, <1>3, IdleWaits
<1>5. /\ thread' = "absent" /\ (current' = 0 \/ (thread = "absent" /\ current' = current))
      /\ history' # "overlapped" =>
           history # "overlapped" /\ task["turn"].pc = "idle" /\ task["cleanup"].pc = "idle"
  <2>1. CASE Start
    <3>1. record.lease = 0 /\ UNCHANGED <<current, thread, history>> /\ thread = "absent"
      BY <2>1 DEF Start, memory, others
    <3> QED
      BY <1>1, <3>1, NoRecordNoTask
  <2>2. CASE Resume
    <3>1. thread' = "absent" /\ (current' = 0 \/ (thread = "absent" /\ current' = current))
      <4>1. CASE thread = "stopped"
        BY <2>2, <4>1 DEF Resume
      <4>2. CASE thread # "stopped"
        BY <2>2, <4>2 DEF Resume, Lives, Orderly, ThreadStates
      <4> QED
        BY <4>1, <4>2
    <3> QED
      BY <2>2, <3>1 DEF Resume, Busy
  <2> QED
    BY <2>1, <2>2
<1> QED
  BY <1>1, <1>3, <1>4, <1>5, BeginSettles

(* The startup ends and saves nothing. *)
LEMMA StartupEndSettles ==
  ASSUME Lives, RuntimeInvariant', [Next]_vars, task["startup"].pc # "idle",
         task' = [task EXCEPT !["startup"] = Idle],
         UNCHANGED <<record, entry, current, thread, history>>
  PROVE  Orderly' /\ OneLife'
<1>1. /\ Idle.e = 0 /\ Idle.pc \notin CheckpointPcs /\ ~Renewing(Idle) /\ Idle.then # "durable"
      /\ ~Building(Idle)
  BY IdleFacts DEF CheckpointPcs, Renewing, Building, CleanupPcs
<1> QED
  BY <1>1, StartupSettles

(* A startup that goes on with the value of its lease. *)
LEMMA StartupGoesSettles ==
  ASSUME Lives, RuntimeInvariant', [Next]_vars, Renewing(task["startup"]), NEW t,
         task["startup"].pc \in StartupPcs,
         task' = [task EXCEPT !["startup"] = t], UNCHANGED <<record, entry, current, thread, history>>,
         t.e = task["startup"].e,
         \/ t.pc \in StartupPcs /\ t.then = task["startup"].then
         \/ t.pc = "cleanupRetain" /\ t.then = "rolledback",
         Building(t) => \/ Building(task["startup"]) /\ t.val.lease = task["startup"].val.lease
                        \/ record.lease # 0
  PROVE  Orderly' /\ OneLife'
<1>1. RuntimeInvariant /\ Orderly
  BY DEF Lives
<1>2. /\ task["startup"].e = 0 /\ task["startup"].then = "none"
  BY <1>1, StartupFacts
<1>3. task["startup"].pc # "idle" /\ t.e = 0 /\ t.then # "durable" /\ t.pc \notin CheckpointPcs
  BY <1>2 DEF StartupPcs, CheckpointPcs
<1>4. Building(t) /\ t.val.lease # 1 => record.lease # 0
  BY <1>1 DEF Orderly
<1> QED
  BY <1>3, <1>4, StartupSettles

LEMMA ProvisionSettles ==
  ASSUME Lives, RuntimeInvariant', [Next]_vars, Provision
  PROVE  Orderly' /\ OneLife'
<1> DEFINE v == [NoValue EXCEPT !.lease = 1, !.base = <<1, 0>>, !.latest = <<1, 0>>]
<1>1. /\ RuntimeInvariant /\ task["startup"].pc = "provision" /\ "startup" \in Tasks
      /\ UNCHANGED <<record, entry, thread, history>>
  BY DEF Lives, Provision, CallStep, At, Tasks
<1>2. v.lease = 1
  BY DEF NoValue
<1> HIDE DEF v
<1>3. /\ record.lease = 0 /\ record.art = None /\ task["startup"].e = 0
      /\ task["startup"].then = "none" /\ \A e \in Entries : entry[e].lease = 0
  <2>1. record.lease = 0 /\ task["startup"].e = 0 /\ task["startup"].then = "none"
    BY <1>1, StartupFacts DEF Starts, StartupPcs
  <2>2. Sound(svc, record) /\ \A e \in Entries : entry[e].lease = 0
    BY <1>1, <2>1 DEF RuntimeInvariant, ValuesAreSound, FirstLeaseIsOnce
  <2> QED
    BY <2>1, <2>2 DEF Sound
<1>4. CASE With("startup", "boot", v) /\ current' = current
  <2>1. PICK t : /\ task' = [task EXCEPT !["startup"] = t] /\ t.pc = "boot" /\ t.val = v
                 /\ t.e = task["startup"].e /\ t.then = task["startup"].then
    BY <1>1, <1>4, WithMoves
  <2>2. current # 0 => entry[current].lease # 1
    BY <1>1, <1>3, CurrentFacts
  <2>3. t.pc \notin CheckpointPcs
    BY <2>1 DEF CheckpointPcs
  <2> QED
    BY <1>1, <1>2, <1>3, <1>4, <2>1, <2>2, <2>3, StartupSettles
<1>5. CASE Return("startup")
  <2>1. current' = current /\ task' = [task EXCEPT !["startup"] = Idle]
    BY <1>3, <1>5 DEF Return, Dropped, End
  <2> QED
    BY <1>1, <2>1, StartupEndSettles
<1> QED
  BY <1>4, <1>5 DEF Provision, CallStep, v

LEMMA ReadRecordSettles ==
  ASSUME Lives, RuntimeInvariant', [Next]_vars, ReadRecord
  PROVE  Orderly' /\ OneLife'
<1> DEFINE x == entry[current]
<1>1. /\ RuntimeInvariant /\ Orderly /\ OneLife /\ task["startup"].pc = "read"
      /\ task["startup"].pc # "idle" /\ "startup" \in Tasks
      /\ UNCHANGED <<svc, record, entry, thread, history>> /\ record \in Values
      /\ Sound(svc, record)
  BY DEF Lives, ReadRecord, At, Tasks, others, RuntimeInvariant, Typed, ValuesAreSound
<1>2. CASE /\ task' = [task EXCEPT !["startup"] = Reading(record)]
           /\ record.state = "active" \/ (record.state = "finalizing" /\ current = 0)
  <2> DEFINE t == Reading(record)
  <2>1. t.e = 0 /\ t.then = "none" /\ t.pc = "reconnect"
    BY <1>1, ReadingFacts
  <2> HIDE DEF t
  <2>2. record.art = None
    BY <1>1, <1>2 DEF Sound, Finished
  <2>3. current' = current
    BY <1>2 DEF ReadRecord
  <2>4. ASSUME history # "overlapped", current # 0, x.lease = 1 PROVE Retired(x)
    <3>1. record.state = "active" /\ current \in Entries /\ thread = "absent"
      BY <1>1, <1>2, <2>4, CurrentFacts DEF OneLife, Alone
    <3>2. CASE svc.refs.want.lease > 1
      BY <1>1, <2>4, <3>1, <3>2 DEF OneLife, Replaced
    <3>3. CASE svc.refs.want.lease <= 1
      <4>1. x.state \notin {"active", "finalizing"}
        BY <1>1, <2>4, <3>1, <3>3 DEF Orderly
      <4>2. x.art = None
        BY <1>1, <2>2, <2>4, <3>1, <3>3 DEF RuntimeInvariant, PatchIsKept
      <4> QED
        BY <4>1, <4>2 DEF Retired
    <3> QED
      BY <1>1, <3>2, <3>3, WantIsNat
  <2>5. ~Building(t) /\ t.pc \notin CheckpointPcs
    BY <2>1 DEF Building, CleanupPcs, CheckpointPcs
  <2> QED
    BY <1>1, <1>2, <2>1, <2>2, <2>3, <2>4, <2>5, StartupSettles DEF t
<1>3. CASE /\ task' = [task EXCEPT !["startup"] = Aimed("finalize", current, x)]
           /\ record.state = "finalizing" /\ current # 0 /\ x.state = "finalizing"
  <2> DEFINE t == Aimed("finalize", current, x)
  <2>1. current \in 0..MaxEntry /\ x \in Values /\ "finalize" \in AllPcs
    BY <1>1, <1>3, CurrentFacts DEF RuntimeInvariant, Typed, AllPcs, WaitingPcs
  <2>2. t.e = current /\ t.then = "none" /\ t.pc = "finalize"
    BY <2>1, AimedFacts
  <2> HIDE DEF t
  <2>3. current' = current
    BY <1>3 DEF ReadRecord
  <2>4. ~Renewing(t) /\ ~Locking(t) /\ t.pc \notin CheckpointPcs /\ ~Building(task["startup"])
    BY <1>1, <2>2 DEF Renewing, Building, Locking, LockedPcs, CleanupPcs, CheckpointPcs
  <2> QED
    BY <1>1, <1>3, <2>2, <2>3, <2>4, StillLives DEF t
<1>4. CASE /\ task' = [task EXCEPT !["startup"] = Settling(record)]
           /\ record.state \in {"completed", "releasing"} /\ record.art # None
  <2> DEFINE t == Settling(record)
  <2>1. t.e = 0 /\ t.then = "durable" /\ t.pc = "cleanupRetain"
    BY <1>1, SettlingFacts
  <2> HIDE DEF t
  <2>2. current' = current
    BY <1>4 DEF ReadRecord
  <2>3. ~Renewing(t) /\ t.pc \notin CheckpointPcs /\ ~Building(t)
    BY <2>1 DEF Renewing, Building, CheckpointPcs
  <2> QED
    BY <1>1, <1>4, <2>1, <2>2, <2>3, StartupSettles DEF t
<1>5. CASE task' = [task EXCEPT !["startup"] = Idle]
  <2>1. current' \in {0, current}
    BY DEF ReadRecord
  <2>2. ~Building(task["startup"])
    BY <1>1 DEF Building, CleanupPcs
  <2> QED
    BY <1>1, <1>5, <2>1, <2>2, ReturnSettles
<1> QED
  BY <1>2, <1>3, <1>4, <1>5 DEF ReadRecord, Reading, Settling, Aimed

LEMMA ReconnectSettles ==
  ASSUME Lives, RuntimeInvariant', [Next]_vars, Reconnect \/ RejectReconnect
  PROVE  Orderly' /\ OneLife'
<1>1. /\ RuntimeInvariant /\ task["startup"].pc \in {"reconnect", "reject"} /\ "startup" \in Tasks
      /\ task["startup"].pc # "idle" /\ UNCHANGED <<record, entry, current, thread, history>>
  BY DEF Lives, Reconnect, RejectReconnect, At, Tasks, memory, others
<1>2. CASE task' = [task EXCEPT !["startup"] = Idle]
  BY <1>1, <1>2, StartupEndSettles
<1>3. CASE task["startup"].pc = "reconnect" /\ \E pc \in {"reject", "restore"} : Go("startup", pc)
  <2>1. PICK t : /\ task' = [task EXCEPT !["startup"] = t] /\ t.pc \in {"reject", "restore"}
                 /\ t.e = task["startup"].e /\ t.then = task["startup"].then
    BY <1>1, <1>3, GoMoves
  <2>2. /\ Renewing(task["startup"]) /\ task["startup"].pc \in StartupPcs
        /\ ~Building(t) /\ t.pc \in StartupPcs
    BY <1>3, <2>1 DEF Renewing, Building, StartupPcs, CleanupPcs
  <2> QED
    BY <1>1, <2>1, <2>2, StartupGoesSettles
<1> QED
  BY <1>2, <1>3 DEF Reconnect, RejectReconnect, At

LEMMA RestoreSettles ==
  ASSUME Lives, RuntimeInvariant', [Next]_vars, Restore
  PROVE  Orderly' /\ OneLife'
<1>1. /\ RuntimeInvariant /\ task["startup"].pc = "restore" /\ "startup" \in Tasks
      /\ task["startup"].pc # "idle" /\ UNCHANGED <<record, entry, thread, history>>
  BY DEF Lives, Restore, CallStep, At, Tasks
<1>2. record.lease # 0 /\ task["startup"].e = 0
  BY <1>1, StartupFacts DEF Starts, StartupPcs
<1>3. CASE (\E v : With("startup", "boot", v)) /\ current' = current
  <2>1. PICK t : /\ task' = [task EXCEPT !["startup"] = t] /\ t.pc = "boot"
                 /\ t.e = task["startup"].e /\ t.then = task["startup"].then
    BY <1>1, <1>3, WithMoves
  <2>2. Renewing(task["startup"]) /\ task["startup"].pc \in StartupPcs /\ t.pc \in StartupPcs
    BY <1>1, <2>1 DEF Renewing, StartupPcs
  <2> QED
    BY <1>1, <1>2, <1>3, <2>1, <2>2, StartupGoesSettles
<1>4. CASE Return("startup")
  <2>1. current' = current /\ task' = [task EXCEPT !["startup"] = Idle]
    BY <1>2, <1>4 DEF Return, Dropped, End
  <2> QED
    BY <1>1, <2>1, StartupEndSettles
<1> QED
  BY <1>3, <1>4 DEF Restore, CallStep

LEMMA BootSettles ==
  ASSUME Lives, RuntimeInvariant', [Next]_vars, Boot \/ RetainPending
  PROVE  Orderly' /\ OneLife'
<1>1. /\ RuntimeInvariant /\ task["startup"].pc \in {"boot", "commit"} /\ "startup" \in Tasks
      /\ UNCHANGED <<record, entry, current, thread, history>> /\ task["startup"].val \in Values
  BY StartupFacts DEF Lives, Boot, RetainPending, At, Tasks, memory, others
<1>2. /\ Building(task["startup"]) /\ Renewing(task["startup"])
      /\ task["startup"].pc \in StartupPcs
  BY <1>1 DEF Renewing, Building, StartupPcs
<1>3. PICK t : /\ task' = [task EXCEPT !["startup"] = t] /\ t.e = task["startup"].e
               /\ t.val.lease = task["startup"].val.lease
               /\ \/ t.pc \in {"commit", "reject", "persist"} /\ t.then = task["startup"].then
                  \/ t.pc = "cleanupRetain" /\ t.then = "rolledback"
  <2>1. CASE \E pc \in {"commit", "reject"} : Go("startup", pc)
    BY <1>1, <2>1, GoMoves
  <2>2. CASE Cleanup("startup", "rolledback", task["startup"].val)
    BY <1>1, <2>2, CleanupMoves
  <2>3. ASSUME NEW v, v = [task["startup"].val EXCEPT !.rev = svc'.refs.rev],
               With("startup", "persist", v)
        PROVE  \E t : /\ task' = [task EXCEPT !["startup"] = t] /\ t.e = task["startup"].e
                      /\ t.val.lease = task["startup"].val.lease
                      /\ t.pc = "persist" /\ t.then = task["startup"].then
    <3>1. v.lease = task["startup"].val.lease
      BY <1>1, <2>3 DEF Values
    <3>2. PICK t : /\ task' = [task EXCEPT !["startup"] = t] /\ t.pc = "persist" /\ t.val = v
                   /\ t.e = task["startup"].e /\ t.then = task["startup"].then
      BY <1>1, <2>3, WithMoves
    <3> QED
      BY <3>1, <3>2
  <2> QED
    BY <2>1, <2>2, <2>3 DEF Boot, RetainPending, Val
<1>4. {"commit", "reject", "persist"} \subseteq StartupPcs
  BY DEF StartupPcs
<1> QED
  BY <1>1, <1>2, <1>3, <1>4, StartupGoesSettles

(* cleanup_runtime of a startup, which holds no operation lock. *)
LEMMA StartupCleanupSettles ==
  ASSUME Lives, RuntimeInvariant', [Next]_vars, ~Locking(task["startup"]),
         CleanupRetain("startup") \/ CleanupRelease("startup")
  PROVE  Orderly' /\ OneLife'
<1>1. RuntimeInvariant /\ Orderly /\ "startup" \in Tasks
  BY DEF Lives, Tasks
<1>2. task["startup"].pc \in CleanupPcs /\ UNCHANGED <<record, entry, current, thread, history>>
  BY <1>1, CleanupStepTask
<1>3. PICK t : /\ task' = [task EXCEPT !["startup"] = t] /\ t.pc \in CleanupPcs
               /\ t.val = task["startup"].val /\ t.e = task["startup"].e
               /\ t.then = task["startup"].then
  BY <1>1, CleanupStepTask
<1>4. task["startup"].then \in {"rolledback", "durable"} /\ task["startup"].pc # "idle"
  BY <1>1, <1>2, CleanupFacts DEF CleanupPcs
<1>5. t.e = 0
  BY <1>1, <1>3, <1>4, ValueFacts DEF Advances
<1>6. /\ Building(t) => Building(task["startup"])
      /\ Renewing(t) => Renewing(task["startup"])
      /\ t.pc \notin CheckpointPcs
  BY <1>2, <1>3 DEF Building, Renewing, CleanupPcs, CheckpointPcs
<1>7. Building(t) /\ t.val.lease # 1 => record.lease # 0
  BY <1>1, <1>3, <1>6 DEF Orderly
<1> QED
  BY <1>2, <1>3, <1>4, <1>5, <1>6, <1>7, StartupSettles

LEMMA RolledBackSettles ==
  ASSUME Lives, RuntimeInvariant', [Next]_vars, RolledBack
  PROVE  Orderly' /\ OneLife'
<1>1. /\ task["startup"].pc # "idle" /\ UNCHANGED <<record, entry, current, thread, history>>
      /\ task' = [task EXCEPT !["startup"] = Idle]
  BY DEF RolledBack, memory, others
<1> QED
  BY <1>1, StartupEndSettles

(* The runtime of a startup is in the record and in an entry of its own. *)
LEMMA PublishSettles ==
  ASSUME Lives, RuntimeInvariant', [Next]_vars, task["startup"].pc = "persist",
         NEW v, v = task["startup"].val, NEW e \in NewEntry, record' = v,
         entry' = [entry EXCEPT ![e] = v], current' = e, UNCHANGED <<svc, history>>,
         NEW t, task' = [task EXCEPT !["startup"] = t],
         IF v.state = "finalizing" THEN t = Aimed("finalize", e, v) /\ thread' = thread
         ELSE t = Idle /\ thread' = "running"
  PROVE  Orderly' /\ OneLife'
<1>1. /\ RuntimeInvariant /\ Orderly /\ OneLife /\ Tasks = {"startup", "turn", "cleanup"}
      /\ v \in Values /\ Sound(svc, v) /\ Starts(svc, record, task["startup"])
      /\ Building(task["startup"]) /\ Renewing(task["startup"])
  BY StartupFacts DEF Lives, Tasks, Building, Renewing
<1>2. /\ e \in Entries /\ entry[e].lease = 0 /\ e \in 0..MaxEntry /\ e # 0
      /\ entry \in [Entries -> Values]
  BY <1>1, RuntimeAssumption DEF NewEntry, Entries, RuntimeInvariant, Typed
<1>3. entry'[e] = v /\ \A f \in Entries \ {e} : entry'[f] = entry[f]
  BY <1>2
<1>4. /\ v.lease # 0 /\ v.state \in {"active", "finalizing"} /\ v.art = None
      /\ v.lease = 1 => record.lease = 0
      /\ v.lease > 1 => svc.refs.want.lease > 1
  BY <1>1 DEF Starts, Sound, Finished
<1>5. v.lease # 1 => svc.refs.want.lease > 1
  BY <1>1, <1>4, ServiceAssumption DEF Values
<1>6. /\ t.pc \in {"finalize", "idle"} /\ t.e \in {0, e} /\ t.then = "none"
      /\ t.pc = "finalize" => v.state = "finalizing"
      /\ t.pc = "idle" <=> v.state # "finalizing"
  <2>1. "finalize" \in AllPcs
    BY DEF AllPcs, WaitingPcs
  <2> QED
    BY <1>1, <1>2, <2>1, AimedFacts, IdleFacts
<1>7. ~Renewing(t) /\ ~Building(t) /\ ~Locking(t) /\ t.pc \notin CheckpointPcs
  BY <1>6 DEF Renewing, Building, Locking, LockedPcs, CleanupPcs, CheckpointPcs
<1>8. Orderly'
  <2>1. thread' \in ThreadStates
    BY <1>1 DEF Orderly, ThreadStates
  <2>2. thread' = "absent" /\ current' # 0 => entry'[current'].state # "active"
    BY <1>3, <1>4
  <2>3. \A f \in Entries : lock[f] # "startup" /\ entry[f].lease # 0 => entry'[f] = entry[f]
    BY <1>2, <1>3
  <2>4. svc'.refs.want.lease <= 1 /\ record'.state = "active" =>
          \A f \in Entries : entry'[f].lease # 0 => entry'[f].state # "finalizing"
    <3> SUFFICES ASSUME svc.refs.want.lease <= 1, v.state = "active", NEW f \in Entries,
                        entry'[f].lease # 0
                 PROVE  entry'[f].state # "finalizing"
      OBVIOUS
    <3>1. record.lease = 0
      BY <1>1, <1>4, <1>5, WantIsNat
    <3>2. \A g \in Entries : entry[g].lease = 0
      BY <1>1, <3>1 DEF RuntimeInvariant, FirstLeaseIsOnce
    <3> QED
      BY <1>3, <3>2
  <2> QED
    BY <1>1, <1>4, <1>7, <2>1, <2>2, <2>3, <2>4, OrderlyFrame
<1>9. task'["startup"] = t /\ \A j \in Tasks \ {"startup"} : task'[j] = task[j]
  BY <1>1 DEF RuntimeInvariant, Typed
<1>10. ASSUME history # "overlapped"
       PROVE  /\ Alone' /\ Renews' /\ Replaced'
              /\ task'["startup"].then = "durable" => svc'.refs.want.lease <= 1
  <2>1. /\ task["turn"].pc = "idle" /\ task["cleanup"].pc = "idle" /\ thread = "absent"
    BY <1>1, <1>10 DEF OneLife, Alone
  <2>2. Alone'
    BY <1>1, <1>6, <1>9, <2>1 DEF Alone
  <2>3. Renews'
    BY <1>7, <1>9 DEF Renews
  <2>4. Replaced'
    <3> SUFFICES ASSUME svc.refs.want.lease > 1 PROVE Replaced'
      BY DEF Replaced
    <3>1. v.lease # 1
      BY <1>1, <1>4, WantIsNat DEF Orderly
    <3>2. task["turn"].e = 0 /\ task["cleanup"].e = 0
      BY <1>1, <2>1, IdleWaits
    <3>3. \A j \in Tasks : task'[j].e \in {0, e}
      BY <1>1, <1>6, <1>9, <3>2
    <3>4. \A f \in Entries : entry'[f].lease = 1 => f # e /\ f # 0
      BY <1>2, <1>3, <3>1, RuntimeAssumption DEF Entries
    <3> QED
      BY <1>4, <3>3, <3>4 DEF Replaced
  <2> QED
    BY <1>6, <1>9, <2>2, <2>3, <2>4
<1> QED
  BY <1>8, <1>10 DEF OneLife

LEMMA PersistPendingSettles ==
  ASSUME Lives, RuntimeInvariant', [Next]_vars, PersistPending
  PROVE  Orderly' /\ OneLife'
<1> DEFINE v == task["startup"].val
<1>1. /\ RuntimeInvariant /\ task["startup"].pc = "persist" /\ "startup" \in Tasks
      /\ UNCHANGED <<svc, history>>
  BY DEF Lives, PersistPending, At, Tasks, others
<1>2. CASE /\ record' = v
           /\ \E e \in NewEntry :
                /\ entry' = [entry EXCEPT ![e] = v]
                /\ current' = e
                /\ task' = [task EXCEPT !["startup"] =
                     IF v.state = "finalizing" THEN Aimed("finalize", e, v) ELSE Idle]
                /\ thread' = IF v.state = "finalizing" THEN thread ELSE "running"
  <2>1. PICK e \in NewEntry :
          /\ entry' = [entry EXCEPT ![e] = v]
          /\ current' = e
          /\ task' = [task EXCEPT !["startup"] =
               IF v.state = "finalizing" THEN Aimed("finalize", e, v) ELSE Idle]
          /\ thread' = IF v.state = "finalizing" THEN thread ELSE "running"
    BY <1>2
  <2> DEFINE t == IF v.state = "finalizing" THEN Aimed("finalize", e, v) ELSE Idle
  <2>2. /\ task' = [task EXCEPT !["startup"] = t]
        /\ IF v.state = "finalizing" THEN t = Aimed("finalize", e, v) /\ thread' = thread
           ELSE t = Idle /\ thread' = "running"
    BY <2>1
  <2> HIDE DEF t
  <2> QED
    BY <1>1, <1>2, <2>1, <2>2, PublishSettles
<1>3. CASE Cleanup("startup", "rolledback", v) /\ UNCHANGED <<record, entry, current, thread>>
  <2>1. PICK t : /\ task' = [task EXCEPT !["startup"] = t] /\ t.pc = "cleanupRetain" /\ t.val = v
                 /\ t.e = task["startup"].e /\ t.then = "rolledback"
    BY <1>1, <1>3, CleanupMoves
  <2>2. /\ Building(task["startup"]) /\ Renewing(task["startup"])
        /\ task["startup"].pc \in StartupPcs
    BY <1>1 DEF Renewing, Building, StartupPcs
  <2> QED
    BY <1>1, <1>3, <2>1, <2>2, StartupGoesSettles
<1> QED
  BY <1>2, <1>3 DEF PersistPending, Persisted, PersistFails, Val, Aimed

LEMMA SettleDurableSettles ==
  ASSUME Lives, RuntimeInvariant', [Next]_vars, SettleDurable
  PROVE  Orderly' /\ OneLife'
<1> DEFINE x == task["startup"].val
<1>1. /\ RuntimeInvariant /\ Orderly /\ OneLife /\ Tasks = {"startup", "turn", "cleanup"}
      /\ task["startup"].then = "durable" /\ task["startup"].pc \in {"settled", "unsettled"}
      /\ task["startup"].pc # "idle" /\ x \in Values
      /\ UNCHANGED <<svc, entry, current, thread, history>>
      /\ task' = [task EXCEPT !["startup"] = Idle]
  BY StartupFacts DEF Lives, SettleDurable, At, Tasks, memory, others
<1>2. x.lease = 1
  BY <1>1, ValueFacts DEF Advances, Sound
<1>3. CASE record' = record
  BY <1>1, <1>3, StartupEndSettles
<1>4. ASSUME NEW v, v \in {[x EXCEPT !.state = "released", !.rev = task["startup"].got],
                           [x EXCEPT !.state = "releasing"]},
             record' = v
      PROVE  Orderly' /\ OneLife'
  <2>1. v.state \in {"released", "releasing"} /\ v.lease = 1
    BY <1>1, <1>2, <1>4 DEF Values
  <2>2. /\ Idle.e = 0 /\ Idle.pc = "idle" /\ Idle.pc \notin CheckpointPcs /\ ~Renewing(Idle)
        /\ Idle.then # "durable" /\ ~Building(Idle)
    BY IdleFacts DEF CheckpointPcs, Renewing, Building, CleanupPcs
  <2>3. Orderly'
    BY <1>1, <1>4, <2>1, <2>2, OrderlyFrame DEF Orderly
  <2>4. task'["startup"] = Idle /\ \A j \in Tasks \ {"startup"} : task'[j] = task[j]
    BY <1>1 DEF RuntimeInvariant, Typed
  <2>5. history # "overlapped" => Alone' /\ Renews' /\ Replaced'
    <3> SUFFICES ASSUME history # "overlapped" PROVE Alone' /\ Renews' /\ Replaced'
      OBVIOUS
    <3>1. svc.refs.want.lease <= 1
      BY <1>1 DEF OneLife
    <3>2. Replaced'
      BY <1>1, <3>1, WantIsNat DEF Replaced
    <3> QED
      BY <2>2, <2>4, <3>2 DEF Alone, Renews
  <2> QED
    BY <1>1, <2>2, <2>3, <2>4, <2>5 DEF OneLife
<1> QED
  BY <1>3, <1>4 DEF SettleDurable, Persisted, PersistFails, Val

LEMMA CrashSettles ==
  ASSUME Lives, RuntimeInvariant', Crash
  PROVE  Orderly' /\ OneLife'
<1>1. /\ RuntimeInvariant /\ Orderly /\ OneLife /\ UNCHANGED <<svc, record>> /\ current' = 0
      /\ thread' = "absent" /\ entry' = [e \in Entries |-> NoValue]
      /\ task' = [k \in Tasks |-> Idle] /\ Tasks = {"startup", "turn", "cleanup"}
      /\ history' # "overlapped" => history # "overlapped"
  BY DEF Lives, Crash, Tasks
<1>2. \A k \in Tasks : task'[k] = Idle
  BY <1>1
<1>3. /\ Idle.e = 0 /\ Idle.pc = "idle" /\ Idle.pc \notin CheckpointPcs /\ ~Renewing(Idle)
      /\ Idle.then # "durable" /\ ~Building(Idle)
  BY IdleFacts DEF CheckpointPcs, Renewing, Building, CleanupPcs
<1>4. \A e \in Entries : entry'[e].lease = 0
  BY <1>1, NoValueFacts
<1>5. Orderly'
  BY <1>1, <1>2, <1>3, <1>4 DEF Orderly, ThreadStates
<1>6. history' # "overlapped" => Alone' /\ Renews' /\ Replaced'
  <2> SUFFICES ASSUME history' # "overlapped" PROVE Alone' /\ Renews' /\ Replaced'
    OBVIOUS
  <2>1. Replaced'
    BY <1>1, <1>4 DEF OneLife, Replaced
  <2> QED
    BY <1>1, <1>2, <1>3, <2>1 DEF Alone, Renews
<1> QED
  BY <1>1, <1>2, <1>3, <1>5, <1>6 DEF OneLife

(* The environment and the session loop. *)
LEMMA OutsideSettles ==
  ASSUME Lives, [Next]_vars, svc'.refs.want = svc.refs.want,
         UNCHANGED <<record, entry, current, task, history>>,
         thread' = thread \/ (thread = "running" /\ thread' = "stopped")
  PROVE  Orderly' /\ OneLife'
<1>1. Orderly /\ OneLife
  BY DEF Lives
<1>2. Orderly'
  BY <1>1 DEF Orderly, ThreadStates
<1>3. Replaced => Replaced'
  BY DEF Replaced
<1>4. Alone /\ Renews => Alone' /\ Renews'
  BY DEF Alone, Renews
<1> QED
  BY <1>1, <1>2, <1>3, <1>4 DEF OneLife

LEMMA LivesStep == Lives /\ [Next]_vars => Lives'
<1> SUFFICES ASSUME Lives, [Next]_vars PROVE Lives'
  OBVIOUS
<1>1. RuntimeInvariant /\ RuntimeInvariant'
  BY StepKeeps DEF Lives
<1> SUFFICES Orderly' /\ OneLife'
  BY <1>1 DEF Lives
<1>2. ASSUME NEW k \in Tasks, TaskStep(k) PROVE Orderly' /\ OneLife'
  <2>1. CASE Finalize(k)
    BY <1>1, <2>1, FinalizeBeginSettles, SavesSettle, CallsSettle, AnnouncePatchSettles,
       SettleFinalizationSettles
       DEF Finalize
  <2>2. CASE CleanupRetain(k) \/ CleanupRelease(k)
    <3>1. Locking(task[k]) \/ k = "startup"
      BY <1>1, <2>2, CleanupStepTask, CleanupFacts
    <3> QED
      BY <1>1, <2>2, <3>1, CleanupStepSettles, StartupCleanupSettles
  <2> QED
    BY <1>2, <2>1, <2>2 DEF TaskStep
<1>3. CASE TurnStep
  BY <1>1, <1>3, CheckpointEndsSettle, SavesSettle, CallsSettle, LockedPcFacts
     DEF TurnStep
<1>4. CASE RemovalStep
  BY <1>1, <1>4, ReleaseRemovedSettles, ReleaseLockedSettles, SettleRemovalSettles
     DEF RemovalStep
<1>5. CASE StartupStep
  BY <1>1, <1>5, ProvisionSettles, ReadRecordSettles, ReconnectSettles, RestoreSettles,
     BootSettles, PersistPendingSettles, RolledBackSettles, SettleDurableSettles
     DEF StartupStep
<1>6. CASE \E goal \in {"finalize", "checkpoint"} : TurnEnds(goal)
  BY <1>1, <1>6, TurnEndsSettles
<1>7. CASE RemoveThread \/ RetryCleanup
  BY <1>1, <1>7, TakeSettles DEF RemoveThread, RetryCleanup
<1>8. CASE Start \/ Resume
  BY <1>1, <1>8, StartSettles
<1>9. CASE Stop \/ UNCHANGED vars
  BY <1>9, OutsideSettles DEF Stop, vars, others
<1>10. ASSUME NEW l \in Leases, LoseSandbox(l) \/ ReconcileRelease(l)
       PROVE  Orderly' /\ OneLife'
  <2>1. svc'.refs.want = svc.refs.want
    BY <1>1, <1>10
       DEF LoseSandbox, ReconcileRelease, Lost, Reconciled, RuntimeInvariant, Typed,
           Services
  <2> QED
    BY <1>10, <2>1, OutsideSettles DEF LoseSandbox, ReconcileRelease, memory, others
<1>11. CASE Crash
  BY <1>1, <1>11, CrashSettles
<1> QED
  BY <1>1, <1>2, <1>3, <1>4, <1>5, <1>6, <1>7, <1>8, <1>9, <1>10, <1>11 DEF Next

LEMMA InitLives == Init => Lives
<1> SUFFICES ASSUME Init PROVE Lives
  OBVIOUS
<1>1. RuntimeInvariant
  BY InitIsSound
<1>2. /\ thread = "absent" /\ current = 0 /\ svc = NewService /\ record = NoValue
      /\ entry = [e \in Entries |-> NoValue] /\ \A k \in Tasks : task[k] = Idle
      /\ "startup" \in Tasks
  BY DEF Init, Tasks
<1>3. /\ Idle.e = 0 /\ Idle.pc = "idle" /\ Idle.pc \notin CheckpointPcs /\ ~Renewing(Idle)
      /\ Idle.then # "durable" /\ ~Building(Idle)
  BY IdleFacts DEF CheckpointPcs, Renewing, Building, CleanupPcs
<1>4. svc.refs.want.lease = 0
  BY <1>2 DEF NewService, References, NoWant
<1>5. \A e \in Entries : entry[e].lease = 0
  BY <1>2, NoValueFacts
<1>6. Orderly
  BY <1>2, <1>3, <1>4, <1>5 DEF Orderly, ThreadStates
<1>7. OneLife
  BY <1>2, <1>3, <1>4 DEF OneLife, Alone, Renews, Replaced
<1> QED
  BY <1>1, <1>6, <1>7 DEF Lives

(* Who writes the record, and which patch. *)
LEMMA RecordSteps ==
  ASSUME RuntimeInvariant, [Next]_vars
  PROVE  \/ record' = record \/ Building(task["startup"])
         \/ \E k \in Tasks : /\ Locking(task[k]) \/ task[k].then = "durable"
                             /\ record'.art = task[k].val.art
<1> DEFINE Writes(k) == /\ Locking(task[k]) \/ task[k].then = "durable"
                        /\ record'.art = task[k].val.art
<1>1. \A k \in Tasks : task[k].val \in Values
  BY ValueFacts
<1>2. ASSUME NEW k \in Tasks, NEW pc \in LockedPcs, NEW v, NEW next, PersistStep(k, pc, v, next),
             v.art = task[k].val.art
      PROVE  record' = record \/ Writes(k)
  BY <1>2 DEF PersistStep, Persisted, PersistFails, At, Locking
<1>3. ASSUME NEW k \in Tasks, TaskStep(k) PROVE record' = record \/ Writes(k)
  <2>1. CASE UNCHANGED record
    BY <2>1
  <2>2. CASE MarkPending(k)
    <3> DEFINE v == [Val(k) EXCEPT !.state = "finalizing"]
    <3>1. v.art = task[k].val.art /\ PersistStep(k, "mark", v, "complete") /\ "mark" \in LockedPcs
      BY <1>1, <2>2 DEF MarkPending, Val, Values, LockedPcs
    <3> HIDE DEF v
    <3> QED
      BY <1>2, <3>1
  <2>3. CASE SaveCompletion(k)
    BY <1>2, <2>3 DEF SaveCompletion, Val, LockedPcs
  <2>4. CASE SavePatch(k)
    BY <1>2, <2>4 DEF SavePatch, Val, LockedPcs
  <2>5. CASE AnnouncePatch(k)
    BY <2>5 DEF AnnouncePatch, Persisted, PersistFails, Val, At, Locking, LockedPcs
  <2>6. CASE SettleFinalization(k)
    <3> DEFINE v == IF At(k, "settled") THEN [Val(k) EXCEPT !.state = "released", !.rev = task[k].got]
                    ELSE [Val(k) EXCEPT !.state = "releasing"]
    <3>1. v.art = task[k].val.art
      BY <1>1 DEF Values, Val
    <3>2. Locking(task[k]) /\ record' \in {record, v}
      BY <2>6 DEF SettleFinalization, Persisted, PersistFails, Locking, CleanupPcs
    <3> HIDE DEF v
    <3> QED
      BY <3>1, <3>2
  <2> QED
    BY <1>3, <2>1, <2>2, <2>3, <2>4, <2>5, <2>6
       DEF TaskStep, Finalize, FinalizeBegin, CompletionCheckpoint, ExportPatch,
           RetainPatch, CallStep, CleanupRetain, CleanupRelease
<1>4. ASSUME TurnStep PROVE record' = record \/ Writes("turn")
  <2>1. CASE UNCHANGED record
    BY <2>1
  <2>2. CASE CheckpointSaveSnapshot \/ CheckpointSaveRevision
    BY <1>2, <2>2, LockedPcFacts
       DEF CheckpointSaveSnapshot, CheckpointSaveRevision, Val, LockedPcs
  <2> QED
    BY <1>4, <2>1, <2>2
       DEF TurnStep, CheckpointBegin, CheckpointCall, CheckpointRetain, CheckpointEnd,
           CallStep
<1>5. ASSUME SettleRemoval PROVE record' = record \/ Writes("cleanup")
  <2> DEFINE x == task["cleanup"].val
             released == [x EXCEPT !.state = "released", !.rev = task["cleanup"].got]
             failed   == [x EXCEPT !.state = "releasing"]
  <2>1. released.art = x.art /\ failed.art = x.art
    BY <1>1, LockedPcFacts DEF Values
  <2>2. record' \in {record, released, failed} /\ Locking(task["cleanup"])
    BY <1>5 DEF SettleRemoval, Persisted, PersistFails, At, Val, Locking, CleanupPcs
  <2> HIDE DEF released, failed
  <2> QED
    BY <2>1, <2>2
<1>6. ASSUME SettleDurable PROVE record' = record \/ Writes("startup")
  <2> DEFINE x == task["startup"].val
             released == [x EXCEPT !.state = "released", !.rev = task["startup"].got]
             failed   == [x EXCEPT !.state = "releasing"]
  <2>1. released.art = x.art /\ failed.art = x.art
    BY <1>1, LockedPcFacts DEF Values
  <2>2. record' \in {record, released, failed} /\ task["startup"].then = "durable"
    BY <1>6 DEF SettleDurable, Persisted, PersistFails, At, Val
  <2> HIDE DEF released, failed
  <2> QED
    BY <2>1, <2>2
<1>7. ASSUME PersistPending PROVE Building(task["startup"])
  BY <1>7 DEF PersistPending, At, Building
<1>8. CASE UNCHANGED record
  BY <1>8
<1>9. CASE \E k \in Tasks : TaskStep(k)
  BY <1>3, <1>9
<1>10. CASE TurnStep \/ RemovalStep \/ StartupStep
  BY <1>4, <1>5, <1>6, <1>7, <1>8, <1>10, LockedPcFacts
     DEF RemovalStep, ReleaseRemoved, ReleaseLocked, StartupStep, Provision, ReadRecord,
         Reconnect, RejectReconnect, Restore, Boot, RetainPending, RolledBack, CallStep
<1> QED
  BY <1>8, <1>9, <1>10
     DEF Next, TurnEnds, RemoveThread, RetryCleanup, Take, Start, Stop, Resume,
         LoseSandbox, ReconcileRelease, Crash, vars

(* While nothing overlaps, a record keeps its patch and stays finished. *)
LEMMA PatchIsNotUndone ==
  ASSUME Lives, [Next]_vars, record.art # None, history # "overlapped"
  PROVE  record'.art = record.art /\ record'.state \in Finished
<1>1. RuntimeInvariant /\ RuntimeInvariant' /\ OneLife
  BY StepKeeps DEF Lives
<1>2. svc.refs.want.lease <= 1 /\ ~Building(task["startup"])
  BY <1>1, WantIsNat DEF OneLife, Replaced, Renews, Renewing
<1>3. record.art = svc.lease[1].final
  BY <1>1 DEF RuntimeInvariant, ValuesAreSound, Sound
<1>4. ASSUME NEW k \in Tasks, Locking(task[k]) \/ task[k].then = "durable"
      PROVE  task[k].val.art = record.art
  <2>1. Sound(svc, task[k].val) /\ HoldsEntry(entry, lock, k, task[k]) /\ Advances(svc, k, task[k])
    BY <1>1, ValueFacts
  <2>2. CASE Locking(task[k])
    <3>1. task[k].e \in Entries /\ entry[task[k].e].lease = 1
      <4>1. task[k].e \in Entries /\ entry[task[k].e].lease # 0
        BY <1>1, <2>2, LockedFacts
      <4> QED
        BY <1>1, <1>2, <4>1, WantIsNat DEF RuntimeInvariant, PatchIsKept
    <3>2. entry[task[k].e].art # None
      BY <1>1, <1>2, <3>1 DEF RuntimeInvariant, PatchIsKept
    <3> QED
      BY <1>3, <2>1, <2>2, <3>2 DEF HoldsEntry, Sound
  <2>3. CASE task[k].then = "durable"
    BY <1>3, <2>1, <2>3 DEF Advances, Sound
  <2> QED
    BY <1>4, <2>2, <2>3
<1>5. record'.art = record.art
  BY <1>1, <1>2, <1>4, RecordSteps
<1>6. Sound(svc, record)'
  BY <1>1 DEF RuntimeInvariant, ValuesAreSound
<1> QED
  BY <1>5, <1>6 DEF Sound

(* The inductive invariant of resumes: as long as no resume runs beside     *)
(* what was before it, a later lease is retained only for a runtime whose   *)
(* record has no patch, and from then on nobody can finalize the first one. *)
THEOREM LivesHold == Spec => [](RuntimeInvariant /\ Orderly /\ OneLife)
<1>1. Init => Lives
  BY InitLives
<1>2. Lives /\ [Next]_vars => Lives'
  BY LivesStep
<1> QED
  BY <1>1, <1>2, PTL DEF Spec, Lives

(* A finalization with a patch is never undone in the record: no task with  *)
(* an older view of the runtime drops the patch or reopens it.              *)
THEOREM FinalizationStands == Spec => FinalizationIsNeverUndone
<1> DEFINE Stands == record.art # None /\ history # "overlapped" =>
                       record'.art = record.art /\ record'.state \in Finished
<1>1. Lives /\ [Next]_vars => [Stands]_vars
  <2> SUFFICES ASSUME Lives, [Next]_vars PROVE Stands
    OBVIOUS
  <2> QED
    BY PatchIsNotUndone
<1>2. Init => Lives
  BY InitLives
<1>3. Lives /\ [Next]_vars => Lives'
  BY LivesStep
<1> QED
  BY <1>1, <1>2, <1>3, PTL DEF Spec, FinalizationIsNeverUndone

----------
(* The snapshots of the record.  A lease that was handed over is released,  *)
(* one released by nobody's request was handed over, and the roots of a     *)
(* lease last until it is released.                                         *)
ServedRow(r) ==
  /\ r.heir # 0 => r.state = "released"
  /\ r.state = "released" /\ r.asked = "no" => r.heir # 0
  /\ r.state \notin {"none", "released"} => r.rooted

Served(s) == \A l \in Leases : ServedRow(s.lease[l])

(* A step of the service that leaves what the snapshots depend on. *)
AlikeRow(q, r) ==
  /\ r.final = q.final /\ r.heir = q.heir /\ r.n = q.n
  /\ q.state # "none" => r.state # "none"
  /\ q.state \notin {"none", "active"} => r.state # "active"

AlikeRows(s, t) ==
  \A l \in Leases : AlikeRow(s.lease[l], t.lease[l]) /\ t.lease[l].rooted = s.lease[l].rooted

Alike(s, t) == t.refs = s.refs /\ AlikeRows(s, t)

(* The same, but that lease l may lose its roots. *)
Loosened(s, t, l) ==
  /\ t.refs = s.refs
  /\ \A k \in Leases : AlikeRow(s.lease[k], t.lease[k])
  /\ \A k \in Leases \ {l} : t.lease[k].rooted = s.lease[k].rooted

LEMMA RowUpdate ==
  ASSUME NEW s \in Services, NEW l \in Leases, NEW r
  PROVE  LET t == [s EXCEPT !.lease[l] = r] IN
         /\ t.refs = s.refs /\ t.lease[l] = r
         /\ \A k \in Leases \ {l} : t.lease[k] = s.lease[k]
  BY DEF Services

LEMMA RowServes ==
  ASSUME NEW s \in Services, Served(s), NEW l \in Leases, NEW r, ServedRow(r)
  PROVE  Served([s EXCEPT !.lease[l] = r])
  BY RowUpdate DEF Served

LEMMA RowIsAlike ==
  ASSUME NEW s \in Services, NEW l \in Leases, NEW r, AlikeRow(s.lease[l], r)
  PROVE  /\ Loosened(s, [s EXCEPT !.lease[l] = r], l)
         /\ r.rooted = s.lease[l].rooted => Alike(s, [s EXCEPT !.lease[l] = r])
<1>1. \A k \in Leases : AlikeRow(s.lease[k], s.lease[k])
  BY DEF AlikeRow
<1> QED
  BY <1>1, RowUpdate DEF Loosened, Alike, AlikeRows

LEMMA AlikeItself ==
  ASSUME NEW s
  PROVE  Alike(s, s)
  BY DEF Alike, AlikeRows, AlikeRow

LEMMA SameLeasesServe ==
  ASSUME NEW s, NEW t, Served(s), t.lease = s.lease
  PROVE  Served(t)
  BY DEF Served

LEMMA ReleaseServes ==
  ASSUME NEW s \in Services, Served(s), NEW l \in Leases
  PROVE  /\ Served(Claimed(s, l)) /\ Alike(s, Claimed(s, l))
         /\ CanRelease(s, l) => Served(Begun(s, l)) /\ Alike(s, Begun(s, l))
         /\ CanRelease(s, l) => Served(Released(s, l))
         /\ Loosened(s, Released(s, l), l)
         /\ s.lease[l].asked = "done" => Released(s, l) = s
         /\ Served(Reconciled(s, l)) /\ Alike(s, Reconciled(s, l))
         /\ Active(s, l) => Served(Lost(s, l)) /\ Alike(s, Lost(s, l))
<1> DEFINE r == s.lease[l]
<1>1. r \in LeaseRows /\ s.lease \in [Leases -> LeaseRows] /\ ServedRow(r)
  BY DEF Services, Served
<1>2. Alike(s, s) /\ Loosened(s, s, l)
  BY AlikeItself DEF Alike, AlikeRows, Loosened
<1>3. Served(Claimed(s, l)) /\ Alike(s, Claimed(s, l))
  <2> DEFINE q == [r EXCEPT !.asked = "open"]
  <2>1. [s EXCEPT !.lease[l].asked = "open"] = [s EXCEPT !.lease[l] = q]
    BY <1>1 DEF Services
  <2>2. /\ q.state = r.state /\ q.asked = "open" /\ q.n = r.n /\ q.final = r.final
        /\ q.heir = r.heir /\ q.rooted = r.rooted
    BY <1>1 DEF LeaseRows
  <2> HIDE DEF q
  <2>3. ServedRow(q) /\ AlikeRow(r, q)
    BY <1>1, <2>2 DEF ServedRow, AlikeRow
  <2>4. Served([s EXCEPT !.lease[l] = q]) /\ Alike(s, [s EXCEPT !.lease[l] = q])
    BY <2>2, <2>3, RowServes, RowIsAlike
  <2> QED
    BY <1>2, <2>1, <2>4 DEF Claimed
<1>4. CanRelease(s, l) => Served(Begun(s, l)) /\ Alike(s, Begun(s, l))
  <2> DEFINE q == [r EXCEPT !.asked = "open", !.state = "release_pending"]
  <2>1. [[s EXCEPT !.lease[l].asked = "open"] EXCEPT !.lease[l].state = "release_pending"]
          = [s EXCEPT !.lease[l] = q]
    BY <1>1 DEF Services, LeaseRows
  <2>2. /\ q.state = "release_pending" /\ q.asked = "open" /\ q.n = r.n /\ q.final = r.final
        /\ q.heir = r.heir /\ q.rooted = r.rooted
    BY <1>1 DEF LeaseRows
  <2>3. Begun(s, l) = IF r.asked = "no" /\ r.state # "released" THEN [s EXCEPT !.lease[l] = q] ELSE s
    BY <2>1 DEF Begun, Claimed
  <2> HIDE DEF q
  <2>4. CASE CanRelease(s, l) /\ r.asked = "no" /\ r.state # "released"
    <3>1. r.state \in {"active", "lost"}
      BY <2>4 DEF CanRelease
    <3>2. ServedRow(q) /\ AlikeRow(r, q)
      BY <1>1, <2>2, <2>4, <3>1 DEF ServedRow, AlikeRow
    <3>3. Served([s EXCEPT !.lease[l] = q]) /\ Alike(s, [s EXCEPT !.lease[l] = q])
      BY <2>2, <3>2, RowServes, RowIsAlike
    <3> QED
      BY <2>3, <2>4, <3>3
  <2> QED
    BY <1>2, <2>3, <2>4
<1>5. /\ Served(Released(s, l))
      /\ Loosened(s, Released(s, l), l)
      /\ s.lease[l].asked = "done" => Released(s, l) = s
  <2> DEFINE q == [r EXCEPT !.state = "released", !.rooted = FALSE, !.asked = "done"]
  <2>1. [s EXCEPT !.lease[l].state = "released", !.lease[l].rooted = FALSE, !.lease[l].asked = "done"]
          = [s EXCEPT !.lease[l] = q]
    BY <1>1, ZenonT(60) DEF Services, LeaseRows
  <2>2. /\ q.state = "released" /\ q.asked = "done" /\ q.n = r.n /\ q.final = r.final
        /\ q.heir = r.heir
    BY <1>1 DEF LeaseRows
  <2> HIDE DEF q
  <2>3. ServedRow(q) /\ AlikeRow(r, q)
    BY <1>1, <2>2 DEF ServedRow, AlikeRow
  <2>4. Served([s EXCEPT !.lease[l] = q]) /\ Loosened(s, [s EXCEPT !.lease[l] = q], l)
    BY <2>3, RowServes, RowIsAlike
  <2> QED
    BY <1>2, <2>1, <2>4 DEF Released
<1>6. Served(Reconciled(s, l)) /\ Alike(s, Reconciled(s, l))
  <2> DEFINE q == [r EXCEPT !.state = "released", !.asked = "done"]
  <2>1. Reconciled(s, l) = [s EXCEPT !.lease[l] = q]
    BY <1>1, ZenonT(60) DEF Services, LeaseRows, Reconciled
  <2>2. /\ q.state = "released" /\ q.asked = "done" /\ q.n = r.n /\ q.final = r.final
        /\ q.heir = r.heir /\ q.rooted = r.rooted
    BY <1>1 DEF LeaseRows
  <2> HIDE DEF q
  <2>3. ServedRow(q) /\ AlikeRow(r, q)
    BY <1>1, <2>2 DEF ServedRow, AlikeRow
  <2> QED
    BY <2>1, <2>2, <2>3, RowServes, RowIsAlike
<1>7. Active(s, l) => Served(Lost(s, l)) /\ Alike(s, Lost(s, l))
  <2> DEFINE q == [r EXCEPT !.state = "lost"]
  <2>1. Lost(s, l) = [s EXCEPT !.lease[l] = q]
    BY <1>1 DEF Services, LeaseRows, Lost
  <2>2. /\ q.state = "lost" /\ q.asked = r.asked /\ q.n = r.n /\ q.final = r.final
        /\ q.heir = r.heir /\ q.rooted = r.rooted
    BY <1>1 DEF LeaseRows
  <2> HIDE DEF q
  <2>3. Active(s, l) => ServedRow(q) /\ AlikeRow(r, q)
    BY <1>1, <2>2 DEF ServedRow, AlikeRow, Active
  <2> QED
    BY <2>1, <2>2, <2>3, RowServes, RowIsAlike
<1> QED
  BY <1>3, <1>4, <1>5, <1>6, <1>7

(* A checkpoint moves the snapshots of its lease, and nothing else. *)
LEMMA CheckpointServes ==
  ASSUME NEW s \in Services, Served(s), NEW l \in Leases, NEW t,
         t = Checkpointed(s, l) \/ t = CompletionOf(s, l)
  PROVE  /\ Served(t) /\ t.refs = s.refs /\ \A k \in Leases \ {l} : t.lease[k] = s.lease[k]
         /\ t.lease[l].state = s.lease[l].state /\ t.lease[l].heir = s.lease[l].heir
         /\ t.lease[l].rooted = s.lease[l].rooted
         /\ t = Checkpointed(s, l) => t.lease[l].final = s.lease[l].final
         /\ t = CompletionOf(s, l) /\ s.lease[l].final # None => t = s
<1> DEFINE r == s.lease[l]
           more == [r EXCEPT !.n = @ + 1]
           last == [r EXCEPT !.n = @ + 1, !.final = <<l, r.n + 1>>]
<1>1. r \in LeaseRows /\ s.lease \in [Leases -> LeaseRows] /\ ServedRow(r)
  BY DEF Services, Served
<1>2. /\ more.state = r.state /\ more.asked = r.asked /\ more.heir = r.heir
      /\ more.rooted = r.rooted /\ more.final = r.final
      /\ last.state = r.state /\ last.asked = r.asked /\ last.heir = r.heir
      /\ last.rooted = r.rooted
  BY <1>1 DEF LeaseRows
<1>3. Checkpointed(s, l) = [s EXCEPT !.lease[l] = more]
  BY <1>1 DEF Checkpointed, Services
<1>4. CompletionOf(s, l) = IF r.final # None THEN s ELSE [s EXCEPT !.lease[l] = last]
  BY <1>1 DEF Checkpointed, CompletionOf, Services, LeaseRows
<1> HIDE DEF more, last
<1>5. ServedRow(more) /\ ServedRow(last)
  BY <1>1, <1>2 DEF ServedRow
<1>6. Served([s EXCEPT !.lease[l] = more]) /\ Served([s EXCEPT !.lease[l] = last])
  BY <1>5, RowServes
<1>7. CASE t = [s EXCEPT !.lease[l] = more] /\ t = Checkpointed(s, l)
  <2>1. /\ t.refs = s.refs /\ t.lease[l] = more
        /\ \A k \in Leases \ {l} : t.lease[k] = s.lease[k]
    BY <1>7, RowUpdate
  <2> QED
    BY <1>2, <1>4, <1>6, <1>7, <2>1
<1>8. CASE t = [s EXCEPT !.lease[l] = last] /\ r.final = None /\ t = CompletionOf(s, l)
  <2>1. /\ t.refs = s.refs /\ t.lease[l] = last
        /\ \A k \in Leases \ {l} : t.lease[k] = s.lease[k]
    BY <1>8, RowUpdate
  <2>2. t # Checkpointed(s, l) \/ t.lease[l].final = s.lease[l].final
    <3>1. [s EXCEPT !.lease[l] = more].lease[l] = more
      BY RowUpdate
    <3> QED
      BY <1>2, <1>3, <3>1
  <2> QED
    BY <1>2, <1>6, <1>8, <2>1, <2>2
<1>9. CASE t = s /\ r.final # None
  BY <1>9
<1> QED
  BY <1>3, <1>4, <1>7, <1>8, <1>9

LEMMA ProvisionServes ==
  LET t == Provisioned(NewService) IN
  /\ Served(NewService) /\ Served(t)
  /\ t.lease[1].rooted /\ t.lease[1].state = "active"
  /\ t.lease[1].final = None /\ t.lease[1].heir = 0
<1> DEFINE s == NewService
<1>1. \A l \in Leases : s.lease[l] = NoLease
  BY DEF NewService
<1>2. NewLease.rooted /\ ServedRow(NewLease) /\ ServedRow(NoLease)
  <2>1. NewLease.rooted
    BY DEF NewLease, NoLease
  <2> QED
    BY <2>1, NewLeaseFacts DEF ServedRow
<1>3. Served(s) /\ s \in Services
  BY <1>1, <1>2, NewServiceFacts DEF Served
<1>4. Provisioned(s) = [s EXCEPT !.lease[1] = NewLease]
  BY <1>1, FirstLease, NewLeaseFacts DEF Provisioned, Active
<1> HIDE DEF s
<1>5. Served([s EXCEPT !.lease[1] = NewLease]) /\ [s EXCEPT !.lease[1] = NewLease].lease[1] = NewLease
  BY <1>2, <1>3, FirstLease, RowServes, RowUpdate
<1> QED
  BY <1>2, <1>3, <1>4, <1>5, NewLeaseFacts DEF s

(* A restore hands the lease of the snapshot over to an active heir. *)
LEMMA RestoreServes ==
  ASSUME NEW s \in Services, SoundService(s), Served(s), NEW p \in Snapshots \ {None},
         CanRestore(s, p), NEW t, t = Restored(s, p), NEW q, q = p[1], NEW h, h = Heir(s, p)
  PROVE  /\ Served(t) /\ t.refs = s.refs /\ q \in Leases /\ h \in Leases \ {q}
         /\ \A k \in Leases \ {q, h} : t.lease[k] = s.lease[k]
         /\ t.lease[q].heir = h /\ t.lease[q].state = "released" /\ t.lease[q].n = s.lease[q].n
         /\ t.lease[q].final = s.lease[q].final /\ t.lease[q].rooted = s.lease[q].rooted
         /\ t.lease[h].state = "active" /\ t.lease[h].rooted /\ t.lease[h].heir = 0
         /\ IF s.lease[q].heir = 0 THEN s.lease[h].state = "none" /\ t.lease[h].final = None
            ELSE h = s.lease[q].heir /\ t.lease[h] = s.lease[h]
<1> DEFINE made == IF s.lease[q].heir # 0 THEN s ELSE [s EXCEPT !.lease[h] = NewLease]
<1>1. q \in Leases /\ s.lease \in [Leases -> LeaseRows]
  BY DEF Snapshots, Services
<1>2. /\ h \in Leases \ {q}
      /\ IF s.lease[q].heir = 0 THEN s.lease[h].state = "none" ELSE h = s.lease[q].heir /\ Active(s, h)
  <2>1. CASE s.lease[q].heir # 0
    <3>1. h = s.lease[q].heir /\ Active(s, h)
      BY <2>1 DEF Heir, CanRestore
    <3>2. s.lease[q].heir \in 0..MaxLease /\ s.lease[q].state = "released"
      BY <1>1, <2>1 DEF LeaseRows, Served, ServedRow
    <3>3. h \in Leases
      BY <2>1, <3>1, <3>2, ServiceAssumption DEF Leases
    <3> QED
      BY <2>1, <3>1, <3>2, <3>3 DEF Active
  <2>2. CASE s.lease[q].heir = 0
    <3>1. s.lease[q].state \in {"lost", "released"} /\ Fresh(s) # {}
      BY <2>2 DEF CanRestore
    <3>2. h \in Leases /\ s.lease[h].state = "none"
      BY <2>2, <3>1 DEF Heir, Fresh
    <3> QED
      BY <2>2, <3>1, <3>2
  <2> QED
    BY <2>1, <2>2
<1>3. t = [made EXCEPT !.lease[q].heir = h, !.lease[q].state = "released"]
  BY DEF Restored
<1>4. NewLease.rooted /\ ServedRow(NewLease) /\ NewLease.state = "active" /\ NewLease \in LeaseRows
  <2>1. NewLease.rooted
    BY DEF NewLease, NoLease
  <2> QED
    BY <2>1, NewLeaseFacts DEF ServedRow
<1>5. /\ made \in Services /\ Served(made) /\ made.refs = s.refs
      /\ \A k \in Leases \ {h} : made.lease[k] = s.lease[k]
      /\ IF s.lease[q].heir = 0 THEN made.lease[h] = NewLease ELSE made = s
  <2>1. CASE s.lease[q].heir # 0
    BY <2>1
  <2>2. CASE s.lease[q].heir = 0
    <3>1. made = [s EXCEPT !.lease[h] = NewLease] /\ h \in Leases
      BY <1>2, <2>2
    <3>2. made \in Services
      BY <1>4, <3>1 DEF Services
    <3> HIDE DEF made
    <3> QED
      BY <1>4, <2>2, <3>1, <3>2, RowServes, RowUpdate
  <2> QED
    BY <2>1, <2>2
<1> HIDE DEF made
<1> DEFINE r == made.lease[q]
           row == [r EXCEPT !.heir = h, !.state = "released"]
<1>6. r \in LeaseRows /\ r = s.lease[q]
  BY <1>1, <1>2, <1>5 DEF Services
<1>7. t = [made EXCEPT !.lease[q] = row]
  BY <1>1, <1>3, <1>5, <1>6, ZenonT(60) DEF Services, LeaseRows
<1>8. /\ row.heir = h /\ row.state = "released" /\ row.n = r.n /\ row.final = r.final
      /\ row.rooted = r.rooted
  BY <1>6 DEF LeaseRows
<1> HIDE DEF row
<1>9. ServedRow(row)
  BY <1>2, <1>8, FirstLease DEF ServedRow, Leases
<1>10. /\ Served(t) /\ t.refs = made.refs /\ t.lease[q] = row
       /\ \A k \in Leases \ {q} : t.lease[k] = made.lease[k]
  BY <1>1, <1>5, <1>7, <1>9, RowServes, RowUpdate
<1>11. t.lease[h] = made.lease[h]
  BY <1>2, <1>10
<1>12. /\ t.lease[h].state = "active" /\ t.lease[h].rooted /\ t.lease[h].heir = 0
       /\ IF s.lease[q].heir = 0 THEN s.lease[h].state = "none" /\ t.lease[h].final = None
          ELSE h = s.lease[q].heir /\ t.lease[h] = s.lease[h]
  <2>1. CASE s.lease[q].heir = 0
    BY <1>2, <1>4, <1>5, <1>11, <2>1, NewLeaseFacts
  <2>2. CASE s.lease[q].heir # 0
    BY <1>2, <1>5, <1>11, <2>2 DEF Active, Served, ServedRow
  <2> QED
    BY <2>1, <2>2
<1> QED
  BY <1>1, <1>2, <1>5, <1>6, <1>8, <1>10, <1>12

LEMMA CallServes ==
  ASSUME Served(svc), NEW k, NEW pc, NEW can, NEW s, NEW v, NEW next,
         CallStep(k, pc, can, s, v, next), can => Served(s)
  PROVE  Served(svc')
  BY DEF CallStep, Replies, Errs

LEMMA RetainServes ==
  ASSUME NEW s \in Services, Served(s), NEW v
  PROVE  Served(AfterRetain(s, v)) /\ Served(Exported(s, v))
<1>1. AfterRetain(s, v).lease = s.lease /\ Exported(s, v).lease = s.lease
  BY DEF AfterRetain, Exported, Services
<1> QED
  BY <1>1, SameLeasesServe

LEMMA ReleaseCallServes ==
  ASSUME RuntimeInvariant, Served(svc), NEW l \in Leases,
         Replies(CanRelease(svc, l), Released(svc, l)) \/ ReleaseErrs(l)
  PROVE  Served(svc')
<1>1. svc \in Services
  BY DEF RuntimeInvariant, Typed
<1>2. \/ svc' \in {svc, Claimed(svc, l)}
      \/ CanRelease(svc, l) /\ svc' \in {Begun(svc, l), Released(svc, l)}
  BY DEF Replies, ReleaseErrs
<1> QED
  BY <1>1, <1>2, ReleaseServes

LEMMA ServiceServes ==
  ASSUME RuntimeInvariant, Served(svc), [Next]_vars
  PROVE  Served(svc')
<1>1. svc \in Services /\ SoundService(svc)
  BY DEF RuntimeInvariant, Typed, ValuesAreSound
<1>2. ASSUME NEW k \in Tasks, Finalize(k) PROVE Served(svc')
  <2>1. CASE UNCHANGED svc
    BY <2>1
  <2>2. CASE CompletionCheckpoint(k)
    <3>1. task[k].pc \in LockedPcs
      BY <2>2 DEF CompletionCheckpoint, CallStep, At, LockedPcs
    <3>2. task[k].val.lease \in Leases
      BY <3>1, LockedFacts DEF Locking
    <3> QED
      BY <1>1, <2>2, <3>2, CallServes, CheckpointServes DEF CompletionCheckpoint, Val
  <2>3. CASE ExportPatch(k)
    BY <1>1, <2>3, CallServes, RetainServes DEF ExportPatch
  <2>4. CASE RetainPatch(k)
    BY <1>1, <2>4, CallServes, RetainServes DEF RetainPatch
  <2> QED
    BY <1>2, <2>1, <2>2, <2>3, <2>4
       DEF Finalize, FinalizeBegin, MarkPending, SaveCompletion, SavePatch, PersistStep,
           AnnouncePatch, SettleFinalization
<1>3. ASSUME NEW k \in Tasks, CleanupRetain(k) PROVE Served(svc')
  BY <1>1, <1>3, RetainServes DEF CleanupRetain, Replies, Errs, Val
<1>4. ASSUME NEW k \in Tasks, CleanupRelease(k) PROVE Served(svc')
  <2>1. task[k].val.lease \in Leases
    BY <1>4, CleanupFacts DEF CleanupRelease, At, CleanupPcs
  <2> QED
    BY <1>4, <2>1, ReleaseCallServes DEF CleanupRelease, Val
<1>5. CASE TurnStep
  <2>1. CASE UNCHANGED svc
    BY <2>1
  <2>2. CASE CheckpointCall
    <3>1. task["turn"].pc \in LockedPcs /\ "turn" \in Tasks
      BY <2>2 DEF CheckpointCall, CallStep, At, LockedPcs, Tasks
    <3>2. task["turn"].val.lease \in Leases
      BY <3>1, LockedFacts DEF Locking
    <3> QED
      BY <1>1, <2>2, <3>2, CallServes, CheckpointServes DEF CheckpointCall, Val
  <2>3. CASE CheckpointRetain
    BY <1>1, <2>3, CallServes, RetainServes DEF CheckpointRetain
  <2> QED
    BY <1>5, <2>1, <2>2, <2>3
       DEF TurnStep, CheckpointBegin, CheckpointSaveSnapshot, CheckpointSaveRevision,
           PersistStep, CheckpointEnd
<1>6. CASE StartupStep
  <2> DEFINE t == task["startup"]
  <2>0. t.val \in Values /\ Sound(svc, t.val) /\ Starts(svc, record, t)
    BY StartupFacts
  <2>1. CASE UNCHANGED svc
    BY <2>1
  <2>2. CASE Provision
    <3>1. svc = NewService
      BY <2>0, <2>2 DEF Provision, CallStep, At, Starts
    <3> QED
      BY <2>2, <3>1, CallServes, ProvisionServes DEF Provision
  <2>3. CASE RejectReconnect
    <3>1. t.val.lease \in Leases
      BY <2>0, <2>3 DEF RejectReconnect, At, Starts, Values, Leases
    <3> QED
      BY <2>3, <3>1, ReleaseCallServes DEF RejectReconnect, Val
  <2>4. CASE Restore
    <3>1. t.val.latest \in Snapshots \ {None}
      BY <2>0, <2>4 DEF Restore, CallStep, At, Starts, Sound, Values
    <3>2. CanRestore(svc, t.val.latest) => Served(Restored(svc, t.val.latest))
      BY <1>1, <3>1, RestoreServes
    <3>3. \/ svc' = svc
          \/ CanRestore(svc, t.val.latest) /\ svc' = Restored(svc, t.val.latest)
      BY <2>4 DEF Restore, CallStep, Replies, Errs, Val
    <3> QED
      BY <1>1, <3>2, <3>3
  <2>5. CASE RetainPending
    BY <1>1, <2>5, RetainServes DEF RetainPending, Replies, Errs
  <2> QED
    BY <1>6, <2>1, <2>2, <2>3, <2>4, <2>5
       DEF StartupStep, ReadRecord, Reconnect, Boot, PersistPending, RolledBack,
           SettleDurable
<1>7. ASSUME NEW l \in Leases, LoseSandbox(l) \/ ReconcileRelease(l) PROVE Served(svc')
  BY <1>1, <1>7, ReleaseServes DEF LoseSandbox, ReconcileRelease
<1>8. CASE UNCHANGED svc
  BY <1>8
<1> QED
  BY <1>2, <1>3, <1>4, <1>5, <1>6, <1>7, <1>8
     DEF Next, TaskStep, RemovalStep, ReleaseRemoved, ReleaseLocked, SettleRemoval,
         TurnEnds, RemoveThread, RetryCleanup, Take, Start, Stop, Resume, Crash, vars

Open(v)   == v.state \in {"active", "finalizing"}
Saving(t) == t.pc \in {"saveSnapshot", "saveCheckpoint"}

(* The lease of a runtime that can still be finalized has no heir, and its  *)
(* completion checkpoint, if there is one, is rooted.                       *)
Fits(s, v) ==
  /\ v.state = "active" => s.lease[v.lease].final = None
  /\ Open(v) => s.lease[v.lease].heir = 0 /\ (s.lease[v.lease].final # None => s.lease[v.lease].rooted)

Agrees(s, rec, v) ==
  /\ v.lease = rec.lease /\ v.latest = rec.latest
  /\ v.state = "finalizing" => rec.state = "finalizing"
  /\ Fits(s, v)

(* An entry is in the map or in the hands of a task; only one is, and it    *)
(* has the lease and the snapshot of the record.                            *)
Held(e) == e = current \/ \E k \in Tasks : task[k].e = e

HeldAgree ==
  /\ \A e, f \in Entries : Held(e) /\ Held(f) => e = f
  /\ \A e \in Entries : Held(e) => Agrees(svc, record, entry[e])

(* A task in its critical section has the snapshot of the record, or a      *)
(* newer one of a lease that still has its roots.                           *)
Working(s, rec, values, t) ==
  Locking(t) =>
    /\ ~Saving(t) => t.val.latest = rec.latest
    /\ t.pc = "mark" => values[t.e].state = "active"
    /\ t.pc \in {"complete", "saveCheckpoint"} => values[t.e].state = "finalizing"
    /\ t.pc \in CleanupPcs => values[t.e].state # "finalizing"
    /\ Saving(t) => /\ t.val.latest[1] = t.val.lease /\ s.lease[t.val.lease].rooted
                    /\ s.lease[t.val.lease].heir = 0

(* Who is about to release a lease, or to publish a runtime, has retained   *)
(* its snapshot.                                                            *)
Wanting(s, t) ==
  t.pc \in {"cleanupRelease", "persist"} =>
    s.refs.rev > 0 /\ s.refs.want.base = <<1, 0>> /\ s.refs.want.latest = t.val.latest

(* A resume goes on with the record it read, and makes the heir of the      *)
(* lease that has the record's snapshot.                                    *)
Begins(s, rec, values, cur, t) ==
  /\ t.pc \in {"reconnect", "restore"} \/ t.then = "durable" => t.val = rec
  /\ t.pc = "restore" => s.lease[rec.lease].state \notin {"none", "active"}
  /\ Building(t) =>
       /\ s.lease[t.val.lease].state # "none"
       /\ IF rec.lease # 0 THEN t.val.latest = rec.latest /\ s.lease[rec.latest[1]].heir = t.val.lease
          ELSE t.val.latest[1] = t.val.lease
  /\ t.pc \in {"boot", "commit", "persist"} => s.lease[t.val.lease].rooted /\ Fits(s, t.val)
  /\ t.pc = "reject" => s.lease[t.val.lease].heir = 0
  /\ Renewing(t) \/ t.pc = "reject" => (cur # 0 => ~Open(values[cur]))

(* The service wants the base; an heir of the record's snapshot that the    *)
(* record does not know is not finalized; and a snapshot whose lease lost   *)
(* its roots is wanted as long as the service would restore from it.        *)
Kept(s, rec) ==
  rec.lease # 0 =>
    /\ s.refs.rev > 0 /\ s.refs.want.base = <<1, 0>> /\ s.lease[rec.lease].state # "none"
    /\ LET l == rec.latest[1] IN
       /\ s.lease[l].heir \notin {0, rec.lease} => s.lease[s.lease[l].heir].final = None
       /\ rec.latest = Latest(s, l) /\ ~s.lease[l].rooted => s.refs.want.latest = rec.latest

Guarded ==
  /\ HeldAgree /\ Kept(svc, record)
  /\ \A k \in Tasks : Working(svc, record, entry, task[k]) /\ Wanting(svc, task[k])
  /\ Begins(svc, record, entry, current, task["startup"])

SnapshotInvariant == Served(svc) /\ (history # "overlapped" => Guarded)

(* What a task does not have to show at a step that has nothing to do with  *)
(* snapshots.                                                               *)
LEMMA NothingToShow ==
  ASSUME NEW s, NEW rec, NEW values, NEW cur, NEW t
  PROVE  /\ ~Locking(t) => Working(s, rec, values, t)
         /\ t.pc \notin {"cleanupRelease", "persist"} => Wanting(s, t)
         /\ /\ t.pc \notin {"reconnect", "restore", "reject", "boot", "commit", "persist"}
            /\ t.then \notin {"rolledback", "durable"}
            => Begins(s, rec, values, cur, t)
  BY DEF Working, Wanting, Begins, Building, Renewing

LEMMA IdleShows ==
  ASSUME NEW s, NEW rec, NEW values, NEW cur
  PROVE  /\ Working(s, rec, values, Idle) /\ Wanting(s, Idle) /\ Begins(s, rec, values, cur, Idle)
         /\ Idle.e = 0
  BY IdleFacts, IdleIsSound, NothingToShow

(* What everybody knows depends on the rows of the leases alone. *)
LEMMA AlikeAgree ==
  ASSUME NEW s, NEW u, AlikeRows(s, u)
  PROVE  /\ \A v : v.lease \in Leases /\ Fits(s, v) => Fits(u, v)
         /\ \A rec, v : v.lease \in Leases /\ Agrees(s, rec, v) => Agrees(u, rec, v)
         /\ \A rec, values, t : /\ Locking(t) => t.val.lease \in Leases
                                /\ Working(s, rec, values, t)
                                => Working(u, rec, values, t)
  BY DEF AlikeRows, AlikeRow, Fits, Agrees, Working

LEMMA AlikeBegins ==
  ASSUME NEW s, NEW u, AlikeRows(s, u), NEW rec, NEW values, NEW cur, NEW t,
         Renewing(t) \/ t.pc = "reject" => t.val.lease \in Leases,
         rec.lease # 0 => rec.latest[1] \in Leases, Begins(s, rec, values, cur, t)
  PROVE  Begins(u, rec, values, cur, t)
<1>1. Fits(s, t.val) /\ t.val.lease \in Leases => Fits(u, t.val)
  BY AlikeAgree
<1>2. t.pc \in {"reconnect", "restore", "boot", "commit", "persist"} => Renewing(t)
  BY DEF Renewing, Building
<1>3. Building(t) => Renewing(t)
  BY DEF Renewing
<1>4. t.pc = "restore" => u.lease[rec.lease].state \notin {"none", "active"}
  BY <1>2 DEF Begins, AlikeRows, AlikeRow
<1>5. Building(t) =>
        /\ u.lease[t.val.lease].state # "none"
        /\ IF rec.lease # 0 THEN t.val.latest = rec.latest /\ u.lease[rec.latest[1]].heir = t.val.lease
           ELSE t.val.latest[1] = t.val.lease
  BY <1>3 DEF Begins, AlikeRows, AlikeRow
<1>6. /\ t.pc \in {"boot", "commit", "persist"} => u.lease[t.val.lease].rooted /\ Fits(u, t.val)
      /\ t.pc = "reject" => u.lease[t.val.lease].heir = 0
  BY <1>1, <1>2 DEF Begins, AlikeRows, AlikeRow
<1> QED
  BY <1>4, <1>5, <1>6 DEF Begins

LEMMA HeirIsLease ==
  ASSUME NEW s \in Services, NEW l \in Leases, s.lease[l].heir # 0
  PROVE  s.lease[l].heir \in Leases
  BY ServiceAssumption DEF Services, LeaseRows, Leases

LEMMA AlikeKept ==
  ASSUME NEW s \in Services, NEW u, Alike(s, u), NEW rec, rec.lease # 0 => rec.lease \in Leases,
         rec.lease # 0 => rec.latest[1] \in Leases, Kept(s, rec)
  PROVE  Kept(u, rec)
<1> SUFFICES ASSUME rec.lease # 0 PROVE Kept(u, rec)
  BY DEF Kept
<1> DEFINE l == rec.latest[1]
<1>1. /\ l \in Leases /\ rec.lease \in Leases /\ u.refs = s.refs
      /\ u.lease[l].heir = s.lease[l].heir /\ u.lease[l].rooted = s.lease[l].rooted
      /\ u.lease[l].n = s.lease[l].n
      /\ s.lease[rec.lease].state # "none" => u.lease[rec.lease].state # "none"
  BY DEF Alike, AlikeRows, AlikeRow
<1>2. s.lease[l].heir # 0 => s.lease[l].heir \in Leases
  BY <1>1, HeirIsLease
<1>3. s.lease[l].heir # 0 => u.lease[s.lease[l].heir].final = s.lease[s.lease[l].heir].final
  BY <1>2 DEF Alike, AlikeRows, AlikeRow
<1> QED
  BY <1>1, <1>3 DEF Kept, Latest

(* The leases that the record and the tasks name. *)
LEMMA NamedLeases ==
  ASSUME RuntimeInvariant
  PROVE  /\ record.lease # 0 => record.lease \in Leases /\ record.latest[1] \in Leases
                                /\ record.base = <<1, 0>>
         /\ \A k \in Tasks : Locking(task[k]) => task[k].val.lease \in Leases
         /\ LET t == task["startup"] IN
            Renewing(t) \/ t.pc = "reject" \/ t.then = "durable" => t.val.lease \in Leases
         /\ \A e \in Entries : Held(e) => entry[e].lease \in Leases
<1>1. \A v \in Values : /\ v.lease # 0 => v.lease \in Leases
                        /\ v.latest # None => v.latest[1] \in Leases
  BY ServiceAssumption DEF Values, Leases, Snapshots
<1>2. record \in Values /\ Sound(svc, record)
  BY DEF RuntimeInvariant, Typed, ValuesAreSound
<1>3. LET t == task["startup"] IN
      Renewing(t) \/ t.pc = "reject" \/ t.then = "durable" => t.val.lease \in Leases
  <2> DEFINE t == task["startup"]
  <2>1. t.val \in Values /\ Sound(svc, t.val) /\ Starts(svc, record, t)
    BY StartupFacts
  <2>2. Advances(svc, "startup", t)
    BY ValueFacts DEF Tasks
  <2>3. Renewing(t) \/ t.pc = "reject" => t.val.lease # 0
    BY <2>1 DEF Starts, Renewing
  <2>4. t.then = "durable" => t.val.lease # 0
    BY <2>1, <2>2 DEF Advances, Sound
  <2> QED
    BY <1>1, <2>1, <2>3, <2>4
<1>4. ASSUME NEW e \in Entries, Held(e) PROVE entry[e].lease \in Leases
  <2>1. entry[e] \in Values
    BY DEF RuntimeInvariant, Typed
  <2>2. entry[e].lease # 0
    <3>1. CASE e = current
      BY <3>1, CurrentFacts, RuntimeAssumption DEF Entries
    <3>2. CASE \E k \in Tasks : task[k].e = e
      <4>1. PICK k \in Tasks : task[k].e = e
        BY <3>2
      <4>2. e # 0
        BY RuntimeAssumption DEF Entries
      <4> QED
        BY <4>1, <4>2, ValueFacts DEF HoldsEntry
    <3> QED
      BY <1>4, <3>1, <3>2 DEF Held
  <2> QED
    BY <1>1, <2>1, <2>2
<1>5. \A k \in Tasks : Locking(task[k]) => task[k].val.lease \in Leases
  BY LockedFacts
<1> QED
  BY <1>1, <1>2, <1>3, <1>4, <1>5 DEF Sound

(* A step of a task that lets go of its entry, keeps it or takes the one in *)
(* the map.                                                                 *)
LEMMA HeldBefore ==
  ASSUME RuntimeInvariant, NEW k \in Tasks, NEW t, task' = [task EXCEPT ![k] = t],
         current' \in {0, current, task[k].e}, t.e \in {0, current, task[k].e}
  PROVE  \A e \in Entries : Held(e)' => Held(e)
<1> SUFFICES ASSUME NEW e \in Entries, Held(e)' PROVE Held(e)
  OBVIOUS
<1>1. e # 0 /\ task \in [Tasks -> TaskLocals]
  BY RuntimeAssumption DEF Entries, RuntimeInvariant, Typed
<1>2. CASE e = current'
  BY <1>1, <1>2 DEF Held
<1>3. CASE \E j \in Tasks : task'[j].e = e
  <2>1. PICK j \in Tasks : task'[j].e = e
    BY <1>3
  <2>2. task'[j] = IF j = k THEN t ELSE task[j]
    BY <1>1
  <2> QED
    BY <1>1, <2>1, <2>2 DEF Held
<1> QED
  BY <1>2, <1>3 DEF Held

(* A task moves on, and neither the record nor an entry does. *)
LEMMA MovesGuard ==
  ASSUME RuntimeInvariant, Guarded, NEW k \in Tasks, NEW t, task' = [task EXCEPT ![k] = t],
         Alike(svc, svc'), UNCHANGED <<record, entry>>,
         current' \in {0, current, task[k].e}, t.e \in {0, current, task[k].e},
         Locking(t) => t.val.lease \in Leases,
         Working(svc, record, entry, t), Wanting(svc, t),
         IF k = "startup"
         THEN /\ Renewing(t) \/ t.pc = "reject" => t.val.lease \in Leases
              /\ Begins(svc, record, entry, current', t)
         ELSE task["startup"].pc = "idle"
  PROVE  Guarded'
<1>1. /\ task \in [Tasks -> TaskLocals] /\ svc \in Services /\ AlikeRows(svc, svc')
      /\ svc'.refs = svc.refs /\ record' = record /\ entry' = entry
      /\ "startup" \in Tasks
  BY DEF RuntimeInvariant, Typed, Alike, Tasks
<1>2. \A j \in Tasks : task'[j] = IF j = k THEN t ELSE task[j]
  BY <1>1
<1>3. HeldAgree'
  <2>1. \A e \in Entries : Held(e)' => Held(e)
    BY HeldBefore
  <2>2. \A e \in Entries : Held(e) => entry[e].lease \in Leases
    BY NamedLeases
  <2>3. \A e \in Entries : Held(e)' => Agrees(svc', record', entry'[e])
    BY <1>1, <2>1, <2>2, AlikeAgree DEF Guarded, HeldAgree
  <2> QED
    BY <2>1, <2>3 DEF Guarded, HeldAgree
<1>4. Kept(svc', record')
  BY <1>1, NamedLeases, AlikeKept DEF Guarded
<1>5. ASSUME NEW j \in Tasks PROVE Working(svc', record', entry', task'[j]) /\ Wanting(svc', task'[j])
  <2>1. Working(svc, record, entry, task'[j]) /\ Wanting(svc, task'[j])
    BY <1>2 DEF Guarded
  <2>2. Locking(task'[j]) => task'[j].val.lease \in Leases
    BY <1>2, NamedLeases
  <2> QED
    BY <1>1, <2>1, <2>2, AlikeAgree DEF Wanting
<1>6. Begins(svc', record', entry', current', task'["startup"])
  <2>1. CASE k = "startup"
    BY <1>1, <1>2, <2>1, NamedLeases, AlikeBegins
  <2>2. CASE k # "startup"
    <3>1. task'["startup"] = task["startup"] /\ task["startup"].pc = "idle"
      BY <1>1, <1>2, <2>2
    <3>2. task["startup"].then = "none"
      BY <1>1, <3>1, IdleWaits
    <3> QED
      BY <3>1, <3>2, NothingToShow
  <2> QED
    BY <2>1, <2>2
<1> QED
  BY <1>3, <1>4, <1>5, <1>6 DEF Guarded

(* A task that has the runtime to itself: it is in its critical section, or *)
(* it is a startup.                                                         *)
Owner(k) == Locking(task[k]) \/ (k = "startup" /\ task[k].pc # "idle")

LEMMA OwnerIsAlone ==
  ASSUME Lives, history # "overlapped", Guarded, NEW k \in Tasks, Owner(k)
  PROVE  /\ \A j \in Tasks \ {k} : /\ ~Locking(task[j])
                                   /\ task[j].pc \notin {"cleanupRelease", "persist"}
                                   /\ j = "startup" => task[j].pc = "idle"
         /\ Locking(task[k]) => task[k].e \in Entries /\ Held(task[k].e)
                                /\ \A e \in Entries : Held(e) => e = task[k].e
         /\ k = "startup" /\ task[k].e = 0 => \A e \in Entries : Held(e) => e = current
         /\ task[k].pc # "idle"
<1>1. RuntimeInvariant /\ Tasks = {"startup", "turn", "cleanup"}
  BY DEF Lives, Tasks
<1>2. task[k].pc # "idle"
  BY <1>1, IdleWaits DEF Owner
<1>3. \A j \in Tasks : Locking(task[j]) => task[j].e \in Entries /\ Held(task[j].e) /\ lock[task[j].e] = j
  BY <1>1, LockedFacts DEF Held
<1>4. \A j, m \in Tasks : Locking(task[j]) /\ Locking(task[m]) => j = m
  <2> SUFFICES ASSUME NEW j \in Tasks, NEW m \in Tasks, Locking(task[j]), Locking(task[m]) PROVE j = m
    OBVIOUS
  <2>1. task[j].e = task[m].e
    BY <1>3 DEF Guarded, HeldAgree
  <2> QED
    BY <1>3, <2>1
<1>5. IF k = "startup" THEN task["turn"].pc = "idle" /\ task["cleanup"].pc = "idle"
      ELSE task["startup"].pc = "idle"
  BY <1>2, WhoIsAlone
<1>6. ASSUME NEW j \in Tasks \ {k}
      PROVE /\ ~Locking(task[j]) /\ task[j].pc \notin {"cleanupRelease", "persist"}
            /\ j = "startup" => task[j].pc = "idle"
  <2>1. CASE task[j].pc = "idle"
    BY <1>1, <2>1, IdleWaits
  <2>2. CASE task[j].pc # "idle"
    <3>1. k # "startup" /\ j # "startup"
      BY <1>1, <1>5, <2>2
    <3>2. ~Locking(task[j])
      BY <1>4, <3>1 DEF Owner
    <3>3. task[j].pc # "cleanupRelease"
      BY <1>1, <3>1, <3>2, CleanupFacts DEF CleanupPcs
    <3>4. task[j].pc # "persist"
      BY <1>1, <3>1, ValueFacts DEF Advances, StartupPcs
    <3> QED
      BY <3>1, <3>2, <3>3, <3>4
  <2> QED
    BY <2>1, <2>2
<1>7. k = "startup" /\ task[k].e = 0 => \A e \in Entries : Held(e) => e = current
  <2> SUFFICES ASSUME k = "startup", task[k].e = 0, NEW e \in Entries, Held(e) PROVE e = current
    OBVIOUS
  <2>1. task["turn"].e = 0 /\ task["cleanup"].e = 0 /\ e # 0
    BY <1>1, <1>5, IdleWaits, RuntimeAssumption DEF Entries
  <2> QED
    BY <1>1, <2>1 DEF Held
<1>8. Locking(task[k]) => \A e \in Entries : Held(e) => e = task[k].e
  BY <1>3 DEF Guarded, HeldAgree
<1> QED
  BY <1>2, <1>3, <1>6, <1>7, <1>8

(* A step of such a task only has to show what it knows itself. *)
LEMMA EffectsGuard ==
  ASSUME Lives, history # "overlapped", Guarded, NEW k \in Tasks, Owner(k),
         NEW t, task' = [task EXCEPT ![k] = t], HeldAgree', Kept(svc', record'),
         Working(svc', record', entry', t), Wanting(svc', t),
         k = "startup" => Begins(svc', record', entry', current', t)
  PROVE  Guarded'
<1>1. RuntimeInvariant /\ task \in [Tasks -> TaskLocals] /\ "startup" \in Tasks
  BY DEF Lives, RuntimeInvariant, Typed, Tasks
<1>2. \A j \in Tasks : task'[j] = IF j = k THEN t ELSE task[j]
  BY <1>1
<1>3. \A j \in Tasks \ {k} : /\ ~Locking(task[j]) /\ task[j].pc \notin {"cleanupRelease", "persist"}
                             /\ j = "startup" => task[j].pc = "idle"
  BY OwnerIsAlone
<1>4. \A j \in Tasks : Working(svc', record', entry', task'[j]) /\ Wanting(svc', task'[j])
  BY <1>2, <1>3, NothingToShow
<1>5. Begins(svc', record', entry', current', task'["startup"])
  <2>1. CASE k = "startup"
    BY <1>1, <1>2, <2>1
  <2>2. CASE k # "startup"
    <3>1. task'["startup"] = task["startup"] /\ task["startup"].pc = "idle"
      BY <1>1, <1>2, <1>3, <2>2
    <3>2. task["startup"].then = "none"
      BY <1>1, <3>1, IdleWaits
    <3> QED
      BY <3>1, <3>2, NothingToShow
  <2> QED
    BY <2>1, <2>2
<1> QED
  BY <1>4, <1>5 DEF Guarded

(* It retains the snapshot of the record. *)
LEMMA RetainGuards ==
  ASSUME Lives, history # "overlapped", Guarded, NEW k \in Tasks, Owner(k),
         NEW t, task' = [task EXCEPT ![k] = t], UNCHANGED <<record, entry>>,
         current' \in {0, current}, t.e \in {0, task[k].e},
         svc'.lease = svc.lease, svc'.refs.rev > 0, svc'.refs.want.base = <<1, 0>>,
         record.lease # 0 => svc'.refs.want.latest = record.latest,
         Working(svc, record, entry, t), Wanting(svc', t),
         k = "startup" => Begins(svc, record, entry, current', t)
  PROVE  Guarded'
<1>1. RuntimeInvariant /\ record' = record /\ entry' = entry
  BY DEF Lives
<1>2. HeldAgree'
  <2>1. \A e \in Entries : Held(e)' => Held(e)
    BY <1>1, HeldBefore
  <2>2. \A e \in Entries : Agrees(svc, record, entry[e]) => Agrees(svc', record', entry'[e])
    BY <1>1 DEF Agrees, Fits
  <2> QED
    BY <2>1, <2>2 DEF Guarded, HeldAgree
<1>3. Kept(svc', record')
  BY <1>1 DEF Guarded, Kept
<1>4. Working(svc', record', entry', t)
  BY <1>1 DEF Working
<1>5. k = "startup" => Begins(svc', record', entry', current', t)
  BY <1>1 DEF Begins, Fits
<1> QED
  BY <1>2, <1>3, <1>4, <1>5, EffectsGuard

(* It saves v for its entry, in the record, in the entry or in both. *)
LEMMA SaveGuards ==
  ASSUME Lives, history # "overlapped", Guarded, NEW k \in Tasks, Locking(task[k]),
         NEW t, task' = [task EXCEPT ![k] = t], svc' = svc, NEW v,
         v.lease = task[k].val.lease, v.latest = task[k].val.latest,
         \/ record' = v /\ entry' = [entry EXCEPT ![task[k].e] = v]
         \/ /\ ~Open(v) /\ task[k].pc \in CleanupPcs
            /\ record' \in {record, v} /\ entry' \in {entry, [entry EXCEPT ![task[k].e] = v]},
         Open(v) => Open(entry[task[k].e]),
         v.state = "active" => entry[task[k].e].state = "active",
         current' \in {0, current, task[k].e}, t.e \in {0, task[k].e},
         Working(svc, record', entry', t), t.pc \notin {"cleanupRelease", "persist"},
         t.pc \notin StartupPcs, t.then \notin {"rolledback", "durable"}
  PROVE  Guarded'
<1> DEFINE e == task[k].e
           old == entry[e]
<1>1. RuntimeInvariant /\ entry \in [Entries -> Values] /\ Owner(k)
  BY DEF Lives, RuntimeInvariant, Typed, Owner
<1>2. e \in Entries /\ Held(e) /\ \A f \in Entries : Held(f) => f = e
  BY <1>1, OwnerIsAlone
<1>3. /\ Agrees(svc, record, old) /\ task[k].val.lease = old.lease
      /\ Working(svc, record, entry, task[k]) /\ Kept(svc, record) /\ record.lease # 0
  BY <1>1, <1>2, LockedFacts DEF Guarded, HeldAgree
<1>4. v.lease = record.lease
  BY <1>3 DEF Agrees
<1>5. \A f \in Entries : Held(f)' => Held(f)
  BY <1>1, HeldBefore
<1>6. entry'[e] \in {old, v}
  BY <1>1, <1>2
<1>7. Fits(svc, v)
  BY <1>3 DEF Agrees, Fits, Open
<1>8. Agrees(svc, record', entry'[e])
  <2>1. CASE record' = v /\ entry' = [entry EXCEPT ![task[k].e] = v]
    <3>1. entry'[e] = v
      BY <1>1, <1>2, <2>1
    <3> QED
      BY <1>7, <2>1, <3>1 DEF Agrees
  <2>2. CASE /\ ~Open(v) /\ task[k].pc \in CleanupPcs /\ record' \in {record, v}
    <3>1. v.latest = record.latest /\ old.state # "finalizing"
      BY <1>3, <2>2 DEF Working, Saving, CleanupPcs
    <3>2. record'.lease = record.lease /\ record'.latest = record.latest
      BY <1>4, <2>2, <3>1
    <3> QED
      BY <1>3, <1>4, <1>6, <1>7, <2>2, <3>1, <3>2 DEF Agrees, Open
  <2> QED
    BY <2>1, <2>2
<1>9. HeldAgree'
  BY <1>2, <1>5, <1>8 DEF HeldAgree
<1>10. Kept(svc, record')
  <2>1. CASE record'.lease = record.lease /\ record'.latest = record.latest
    BY <1>3, <2>1 DEF Kept
  <2>2. CASE Saving(task[k])
    <3>1. record' = v
      BY <2>2 DEF Saving, CleanupPcs
    <3>2. /\ v.latest[1] = v.lease /\ svc.lease[v.lease].rooted /\ svc.lease[v.lease].heir = 0
      BY <1>3, <2>2 DEF Working
    <3> QED
      BY <1>3, <1>4, <3>1, <3>2 DEF Kept
  <2>3. CASE ~Saving(task[k])
    BY <1>3, <1>4, <2>1, <2>3 DEF Working
  <2> QED
    BY <2>2, <2>3
<1>11. Wanting(svc', t) /\ Begins(svc', record', entry', current', t)
  BY NothingToShow DEF StartupPcs
<1> QED
  BY <1>1, <1>9, <1>10, <1>11, EffectsGuard

(* It makes a snapshot of its lease, which has its roots. *)
LEMMA SnapshotGuards ==
  ASSUME Lives, history # "overlapped", Guarded, NEW k \in Tasks, Locking(task[k]),
         NEW t, task' = [task EXCEPT ![k] = t], UNCHANGED <<record, entry>>,
         current' \in {0, current}, t.e \in {0, task[k].e}, svc'.refs = svc.refs,
         NEW l, l = task[k].val.lease, svc.lease[l].rooted,
         \A j \in Leases \ {l} : svc'.lease[j] = svc.lease[j],
         svc'.lease[l].state = svc.lease[l].state, svc'.lease[l].heir = svc.lease[l].heir,
         svc'.lease[l].rooted = svc.lease[l].rooted,
         svc'.lease[l].final = svc.lease[l].final \/ entry[task[k].e].state = "finalizing",
         Working(svc', record, entry, t), t.pc \notin {"cleanupRelease", "persist"},
         t.pc \notin StartupPcs, t.then \notin {"rolledback", "durable"}
  PROVE  Guarded'
<1> DEFINE e == task[k].e
<1>1. RuntimeInvariant /\ Owner(k) /\ record' = record /\ entry' = entry
  BY DEF Lives, Owner
<1>2. e \in Entries /\ Held(e) /\ \A f \in Entries : Held(f) => f = e
  BY <1>1, OwnerIsAlone
<1>3. /\ Agrees(svc, record, entry[e]) /\ l = entry[e].lease /\ l \in Leases
      /\ Kept(svc, record) /\ record.lease # 0
  BY <1>1, <1>2, LockedFacts DEF Guarded, HeldAgree
<1>4. l = record.lease
  BY <1>3 DEF Agrees
<1>5. \A f \in Entries : Held(f)' => Held(f)
  BY <1>1, HeldBefore
<1>6. Agrees(svc', record, entry[e])
  <2>1. Fits(svc', entry[e])
    BY <1>3 DEF Agrees, Fits, Open
  <2> QED
    BY <1>3, <2>1 DEF Agrees
<1>7. HeldAgree'
  BY <1>1, <1>2, <1>5, <1>6 DEF HeldAgree
<1>8. Kept(svc', record)
  <2> DEFINE q == record.latest[1]
  <2>1. q \in Leases /\ svc \in Services
    BY <1>1, <1>3, NamedLeases DEF RuntimeInvariant, Typed
  <2>2. svc'.lease[q].heir = svc.lease[q].heir /\ svc'.lease[q].rooted = svc.lease[q].rooted
    BY <2>1
  <2>3. svc.lease[q].heir # 0 => svc.lease[q].heir \in Leases
    BY <2>1, HeirIsLease
  <2>4. svc.lease[q].heir \notin {0, l} =>
          svc'.lease[svc.lease[q].heir].final = svc.lease[svc.lease[q].heir].final
    BY <2>3
  <2>5. record.latest = Latest(svc', q) /\ ~svc.lease[q].rooted => record.latest = Latest(svc, q)
    BY <2>1 DEF Latest
  <2>6. svc'.lease[l].state # "none"
    BY <1>3, <1>4 DEF Kept
  <2> QED
    BY <1>3, <1>4, <2>2, <2>4, <2>5, <2>6 DEF Kept
<1>9. Wanting(svc', t) /\ Begins(svc', record', entry', current', t)
  BY NothingToShow DEF StartupPcs
<1> QED
  BY <1>1, <1>7, <1>8, <1>9, EffectsGuard

LEMMA LoosenedBegins ==
  ASSUME NEW s, NEW u, NEW l, Loosened(s, u, l), NEW rec, NEW values, NEW cur, NEW t,
         Renewing(t) \/ t.pc = "reject" => t.val.lease \in Leases,
         rec.lease # 0 => rec.latest[1] \in Leases, Begins(s, rec, values, cur, t),
         t.pc \notin {"boot", "commit", "persist"}
  PROVE  Begins(u, rec, values, cur, t)
<1>1. t.pc = "restore" => Renewing(t)
  BY DEF Renewing, Building
<1>2. Building(t) => Renewing(t)
  BY DEF Renewing
<1>3. t.pc = "restore" => u.lease[rec.lease].state \notin {"none", "active"}
  BY <1>1 DEF Begins, Loosened, AlikeRow
<1>4. Building(t) =>
        /\ u.lease[t.val.lease].state # "none"
        /\ IF rec.lease # 0 THEN t.val.latest = rec.latest /\ u.lease[rec.latest[1]].heir = t.val.lease
           ELSE t.val.latest[1] = t.val.lease
  BY <1>2 DEF Begins, Loosened, AlikeRow
<1>5. t.pc = "reject" => u.lease[t.val.lease].heir = 0
  BY DEF Begins, Loosened, AlikeRow
<1> QED
  BY <1>3, <1>4, <1>5 DEF Begins

(* It releases a lease whose roots the record does not depend on. *)
LEMMA LoosenGuards ==
  ASSUME Lives, history # "overlapped", Guarded, NEW k \in Tasks, Owner(k),
         NEW t, task' = [task EXCEPT ![k] = t], UNCHANGED <<record, entry, current>>,
         t.e \in {0, task[k].e}, NEW l \in Leases, Loosened(svc, svc', l),
         record.lease # 0 /\ record.latest = Latest(svc, l) => svc.refs.want.latest = record.latest,
         \A e \in Entries : Held(e) => entry[e].state # "finalizing",
         Working(svc, record, entry, t), ~Saving(t), t.pc \notin {"cleanupRelease", "persist"},
         k = "startup" => /\ Renewing(t) \/ t.pc = "reject" => t.val.lease \in Leases
                          /\ Begins(svc, record, entry, current, t)
                          /\ t.pc \notin {"boot", "commit"}
  PROVE  Guarded'
<1>1. /\ RuntimeInvariant /\ record' = record /\ entry' = entry /\ current' = current
      /\ svc'.refs = svc.refs /\ svc \in Services
  BY DEF Lives, RuntimeInvariant, Typed, Loosened
<1>2. HeldAgree'
  <2>1. \A e \in Entries : Held(e)' => Held(e)
    BY <1>1, HeldBefore
  <2>2. ASSUME NEW e \in Entries, Held(e) PROVE Agrees(svc', record, entry[e])
    <3>1. Agrees(svc, record, entry[e]) /\ entry[e].lease \in Leases
      BY <1>1, <2>2, NamedLeases DEF Guarded, HeldAgree
    <3>2. Fits(svc', entry[e])
      BY <2>2, <3>1 DEF Agrees, Fits, Open, Loosened, AlikeRow
    <3> QED
      BY <3>1, <3>2 DEF Agrees
  <2> QED
    BY <1>1, <2>1, <2>2 DEF Guarded, HeldAgree
<1>3. Kept(svc', record)
  <2> SUFFICES ASSUME record.lease # 0 PROVE Kept(svc', record)
    BY DEF Kept
  <2> DEFINE q == record.latest[1]
  <2>1. q \in Leases /\ record.lease \in Leases /\ Kept(svc, record)
    BY <1>1, NamedLeases DEF Guarded
  <2>2. /\ svc'.lease[q].heir = svc.lease[q].heir /\ svc'.lease[q].n = svc.lease[q].n
        /\ q # l => svc'.lease[q].rooted = svc.lease[q].rooted
        /\ svc.lease[record.lease].state # "none" => svc'.lease[record.lease].state # "none"
    BY <2>1 DEF Loosened, AlikeRow
  <2>3. svc.lease[q].heir # 0 => svc.lease[q].heir \in Leases
    BY <1>1, <2>1, HeirIsLease
  <2>4. svc.lease[q].heir # 0 =>
          svc'.lease[svc.lease[q].heir].final = svc.lease[svc.lease[q].heir].final
    BY <2>3 DEF Loosened, AlikeRow
  <2>5. Latest(svc', q) = Latest(svc, q)
    BY <2>2 DEF Latest
  <2> QED
    BY <1>1, <2>1, <2>2, <2>4, <2>5 DEF Kept
<1>4. Working(svc', record, entry, t)
  BY DEF Working
<1>5. Wanting(svc', t)
  BY NothingToShow
<1>6. k = "startup" => Begins(svc', record, entry, current, t)
  BY <1>1, NamedLeases, LoosenedBegins
<1> QED
  BY <1>1, <1>2, <1>3, <1>4, <1>5, <1>6, EffectsGuard

LEMMA ValueUpdates ==
  ASSUME NEW v \in Values, NEW x
  PROVE  /\ LET w == [v EXCEPT !.latest = x] IN w.latest = x /\ w.lease = v.lease /\ w.state = v.state
         /\ LET w == [v EXCEPT !.rev = x] IN
            w.latest = v.latest /\ w.lease = v.lease /\ w.state = v.state /\ w.base = v.base
         /\ LET w == [v EXCEPT !.state = x] IN w.latest = v.latest /\ w.lease = v.lease /\ w.state = x
         /\ \A n : LET w == [v EXCEPT !.state = x, !.rev = n] IN
                   w.latest = v.latest /\ w.lease = v.lease /\ w.state = x
         /\ \A y : LET w == [v EXCEPT !.art = y, !.state = x] IN
                   w.latest = v.latest /\ w.lease = v.lease /\ w.state = x
         /\ LET w == [v EXCEPT !.lease = x] IN w.latest = v.latest /\ w.lease = x /\ w.state = v.state
  BY DEF Values

(* A task ends and saves nothing. *)
LEMMA ReturnGuards ==
  ASSUME Lives, history # "overlapped", Guarded, NEW k \in Tasks, task[k].pc # "idle",
         task' = [task EXCEPT ![k] = Idle], Alike(svc, svc'), UNCHANGED <<record, entry>>,
         current' \in {0, current}
  PROVE  Guarded'
<1>1. RuntimeInvariant
  BY DEF Lives
<1>2. k # "startup" => task["startup"].pc = "idle"
  BY WhoIsAlone
<1>3. ~Locking(Idle) /\ ~Renewing(Idle) /\ Idle.pc # "reject"
  BY IdleFacts DEF Locking, Renewing, Building, LockedPcs, CleanupPcs
<1> QED
  BY <1>1, <1>2, <1>3, IdleShows, MovesGuard

(* A task goes on, and only it has to know more than before. *)
LEMMA GoesGuard ==
  ASSUME Lives, history # "overlapped", Guarded, NEW k \in Tasks, task[k].pc # "idle",
         NEW t, task' = [task EXCEPT ![k] = t], Alike(svc, svc'), UNCHANGED <<record, entry>>,
         current' \in {0, current, task[k].e}, t.e \in {0, current, task[k].e},
         Locking(t) => t.val.lease \in Leases, Working(svc, record, entry, t),
         t.pc \notin StartupPcs \cup {"cleanupRelease"}, t.then \notin {"rolledback", "durable"}
  PROVE  Guarded'
<1>1. RuntimeInvariant
  BY DEF Lives
<1>2. k # "startup" => task["startup"].pc = "idle"
  BY WhoIsAlone
<1>3. ~Renewing(t) /\ t.pc # "reject"
  BY DEF Renewing, Building, StartupPcs
<1>4. Wanting(svc, t) /\ Begins(svc, record, entry, current', t)
  BY NothingToShow DEF StartupPcs
<1> QED
  BY <1>1, <1>2, <1>3, <1>4, MovesGuard

(* What a task knows of the runtime in its critical section. *)
LEMMA LockedGuard ==
  ASSUME Lives, history # "overlapped", Guarded, NEW k \in Tasks, Locking(task[k])
  PROVE  /\ RuntimeInvariant /\ Owner(k) /\ task[k].pc # "idle"
         /\ task[k].e \in Entries /\ Held(task[k].e) /\ Agrees(svc, record, entry[task[k].e])
         /\ Working(svc, record, entry, task[k]) /\ task[k].val.lease \in Leases
         /\ task[k].val.lease = entry[task[k].e].lease /\ task[k].val.lease = record.lease
         /\ task[k].then \notin {"rolledback", "durable"} /\ task[k].val \in Values
         /\ record.lease # 0 /\ task[k].val.base = <<1, 0>>
<1>1. RuntimeInvariant /\ Owner(k)
  BY DEF Lives, Owner
<1>2. /\ task[k].e \in Entries /\ task[k].val.lease = entry[task[k].e].lease
      /\ task[k].val.lease \in Leases /\ record.lease # 0 /\ task[k].then \notin {"rolledback", "durable"}
      /\ task[k].val \in Values /\ Sound(svc, task[k].val) /\ task[k].val.lease # 0
  BY <1>1, LockedFacts, LockedThen
<1>3. Held(task[k].e) /\ task[k].pc # "idle"
  BY <1>1, OwnerIsAlone
<1>4. Agrees(svc, record, entry[task[k].e]) /\ Working(svc, record, entry, task[k])
  BY <1>2, <1>3 DEF Guarded, HeldAgree
<1> QED
  BY <1>1, <1>2, <1>3, <1>4 DEF Agrees, Sound

LEMMA PersistGuards ==
  ASSUME Lives, history # "overlapped", Guarded, NEW k \in Tasks, NEW pc \in LockedPcs, NEW v,
         NEW next \in {"complete", "export", "retain", "retainSnapshot", "unlock"},
         PersistStep(k, pc, v, next), v.lease = task[k].val.lease,
         v.latest = task[k].val.latest, Open(v) => Open(entry[task[k].e]),
         v.state = "active" => entry[task[k].e].state = "active",
         next = "complete" => v.state = "finalizing"
  PROVE  Guarded'
<1>1. Locking(task[k]) /\ svc' = svc
  BY DEF PersistStep, At, Locking
<1>2. /\ RuntimeInvariant /\ task[k].e \in Entries /\ task[k].pc # "idle"
      /\ task[k].then \notin {"rolledback", "durable"} /\ entry \in [Entries -> Values]
  BY <1>1, LockedGuard DEF RuntimeInvariant, Typed
<1>3. CASE /\ record' = v /\ entry' = [entry EXCEPT ![task[k].e] = v] /\ With(k, next, v)
           /\ current' = current
  <2>1. PICK t : /\ task' = [task EXCEPT ![k] = t] /\ t.pc = next /\ t.val = v
                 /\ t.e = task[k].e /\ t.then = task[k].then
    BY <1>2, <1>3, WithMoves
  <2>2. entry'[t.e] = v
    BY <1>2, <1>3, <2>1
  <2>3. Working(svc, record', entry', t)
    BY <1>3, <2>1, <2>2 DEF Working, Saving, CleanupPcs
  <2>4. t.pc \notin StartupPcs \cup {"cleanupRelease", "persist"}
    BY <2>1 DEF StartupPcs
  <2> QED
    BY <1>1, <1>2, <1>3, <2>1, <2>3, <2>4, SaveGuards
<1>4. CASE UNCHANGED <<record, entry>> /\ Return(k)
  <2>1. task' = [task EXCEPT ![k] = Idle] /\ current' \in {0, current} /\ Alike(svc, svc')
    BY <1>1, <1>4, AlikeItself DEF Return, End, Dropped
  <2> QED
    BY <1>2, <1>4, <2>1, ReturnGuards
<1> QED
  BY <1>3, <1>4 DEF PersistStep, Persisted, PersistFails

LEMMA SavesGuard ==
  ASSUME Lives, history # "overlapped", Guarded, NEW k \in Tasks,
         MarkPending(k) \/ SaveCompletion(k) \/ SavePatch(k)
           \/ (k = "turn" /\ (CheckpointSaveSnapshot \/ CheckpointSaveRevision))
  PROVE  Guarded'
<1>1. /\ RuntimeInvariant /\ Orderly /\ Val(k) = task[k].val /\ Val(k) \in Values
      /\ Sound(svc, Val(k)) /\ Advances(svc, k, task[k]) /\ HoldsEntry(entry, lock, k, task[k])
      /\ {"mark", "saveCheckpoint", "savePatch", "saveSnapshot", "saveRetained"} \subseteq LockedPcs
  BY ValueFacts DEF Lives, Val, LockedPcs
<1>2. task[k].pc \in LockedPcs => Working(svc, record, entry, task[k]) /\ Locking(task[k])
  BY DEF Guarded, Locking
<1>3. CASE MarkPending(k)
  <2> DEFINE v == [Val(k) EXCEPT !.state = "finalizing"]
  <2>1. PersistStep(k, "mark", v, "complete") /\ task[k].pc = "mark"
    BY <1>3 DEF MarkPending, PersistStep, At
  <2>2. v.lease = task[k].val.lease /\ v.latest = task[k].val.latest /\ v.state = "finalizing"
    BY <1>1, ValueUpdates
  <2>3. entry[task[k].e].state = "active"
    BY <1>1, <1>2, <2>1 DEF Working
  <2> HIDE DEF v
  <2> QED
    BY <1>1, <2>1, <2>2, <2>3, PersistGuards DEF Open
<1>4. CASE SaveCompletion(k)
  <2>1. PersistStep(k, "saveCheckpoint", Val(k), "export") /\ task[k].pc = "saveCheckpoint"
    BY <1>4 DEF SaveCompletion, PersistStep, At
  <2>2. Val(k).state = "finalizing" /\ entry[task[k].e].state = "finalizing"
    BY <1>1, <1>2, <2>1 DEF Advances, Working
  <2> QED
    BY <1>1, <2>1, <2>2, PersistGuards DEF Open
<1>5. CASE SavePatch(k)
  <2>1. PersistStep(k, "savePatch", Val(k), "retain") /\ task[k].pc = "savePatch"
    BY <1>5 DEF SavePatch, PersistStep, At
  <2>2. ~Open(Val(k)) /\ Val(k).state # "active"
    BY <1>1, <2>1 DEF HoldsEntry, Locking, LockedPcs, Sound, Finished, Open
  <2> QED
    BY <1>1, <2>1, <2>2, PersistGuards
<1>6. CASE k = "turn" /\ (CheckpointSaveSnapshot \/ CheckpointSaveRevision)
  <2>1. PICK pc \in {"saveSnapshot", "saveRetained"}, next \in {"retainSnapshot", "unlock"} :
          PersistStep(k, pc, Val(k), next)
    BY <1>6 DEF CheckpointSaveSnapshot, CheckpointSaveRevision
  <2>2. Val(k).state = entry[task[k].e].state
    BY <1>1, <2>1 DEF PersistStep, At, Orderly, CheckpointPcs
  <2> QED
    BY <1>1, <2>1, <2>2, PersistGuards DEF Open
<1> QED
  BY <1>3, <1>4, <1>5, <1>6

(* A call in the critical section, by what it does. *)
LEMMA CriticalCall ==
  ASSUME RuntimeInvariant, NEW k \in Tasks, NEW pc, NEW can, NEW s, NEW v, NEW next,
         CallStep(k, pc, can, s, v, next)
  PROVE  /\ task[k].pc = pc /\ UNCHANGED <<record, entry>> /\ current' \in {0, current}
         /\ svc' = svc \/ (can /\ svc' = s)
         /\ \E t : /\ task' = [task EXCEPT ![k] = t]
                   /\ \/ t = Idle
                      \/ /\ can /\ svc' = s /\ t.pc = next /\ t.val = v
                         /\ t.e = task[k].e /\ t.then = task[k].then
<1>1. task[k].pc = pc /\ UNCHANGED <<record, entry>>
  BY DEF CallStep, At
<1>2. CASE Replies(can, s) /\ With(k, next, v) /\ current' = current
  <2>1. PICK t : /\ task' = [task EXCEPT ![k] = t] /\ t.pc = next /\ t.val = v
                 /\ t.e = task[k].e /\ t.then = task[k].then
    BY <1>2, WithMoves
  <2> QED
    BY <1>1, <1>2, <2>1 DEF Replies
<1>3. CASE Errs(can, s) /\ Return(k)
  <2>1. svc' = svc \/ (can /\ svc' = s)
    BY <1>3 DEF Errs
  <2>2. current' \in {0, current} /\ task' = [task EXCEPT ![k] = Idle]
    BY <1>3 DEF Return, End, Dropped
  <2> QED
    BY <1>1, <2>1, <2>2
<1> QED
  BY <1>2, <1>3 DEF CallStep

(* What a checkpoint leaves of the lease it is taken of. *)
KeepsRow(s, t, l) ==
  /\ t.refs = s.refs /\ \A k \in Leases \ {l} : t.lease[k] = s.lease[k]
  /\ t.lease[l].state = s.lease[l].state /\ t.lease[l].heir = s.lease[l].heir
  /\ t.lease[l].rooted = s.lease[l].rooted

LEMMA CheckpointKeepsRow ==
  ASSUME NEW s \in Services, Served(s), NEW l \in Leases
  PROVE  /\ KeepsRow(s, Checkpointed(s, l), l) /\ KeepsRow(s, CompletionOf(s, l), l)
         /\ Checkpointed(s, l).lease[l].final = s.lease[l].final
<1>1. ASSUME NEW t, t = Checkpointed(s, l) \/ t = CompletionOf(s, l)
      PROVE  KeepsRow(s, t, l) /\ (t = Checkpointed(s, l) => t.lease[l].final = s.lease[l].final)
  BY <1>1, CheckpointServes DEF KeepsRow
<1> QED
  BY <1>1

(* The two calls that make a snapshot. *)
LEMMA CheckpointsGuard ==
  ASSUME Lives, history # "overlapped", Guarded, Served(svc), NEW k \in Tasks,
         CompletionCheckpoint(k) \/ (k = "turn" /\ CheckpointCall)
  PROVE  Guarded'
<1> DEFINE l == task[k].val.lease
           s == IF task[k].pc = "complete" THEN CompletionOf(svc, l) ELSE Checkpointed(svc, l)
           p == IF task[k].pc = "complete" THEN s.lease[l].final ELSE Latest(s, l)
           can == IF task[k].pc = "complete" THEN CanComplete(svc, l) /\ CompletionKey(l) \notin refused
                  ELSE CanCheckpoint(svc, l)
           next == IF task[k].pc = "complete" THEN "saveCheckpoint" ELSE "saveSnapshot"
           v == [task[k].val EXCEPT !.latest = p]
<1>1. RuntimeInvariant /\ svc \in Services /\ SoundService(svc) /\ task[k].val \in Values
  BY ValueFacts DEF Lives
<1>2. task[k].pc \in {"complete", "snapshot"} /\ CallStep(k, task[k].pc, can, s, v, next)
  <2>1. CASE CompletionCheckpoint(k)
    BY <2>1 DEF CompletionCheckpoint, CallStep, At, Val
  <2>2. CASE k = "turn" /\ CheckpointCall
    BY <2>2 DEF CheckpointCall, CallStep, At, Val
  <2> QED
    BY <2>1, <2>2
<1>3. Locking(task[k])
  BY <1>2 DEF Locking, LockedPcs
<1>4. /\ l \in Leases /\ l = entry[task[k].e].lease /\ task[k].then \notin {"rolledback", "durable"}
      /\ Agrees(svc, record, entry[task[k].e]) /\ Working(svc, record, entry, task[k])
      /\ task[k].pc # "idle"
  BY <1>3, LockedGuard
<1>5. v.latest = p /\ v.lease = l
  BY <1>1, ValueUpdates
<1>6. /\ s.refs = svc.refs /\ \A j \in Leases \ {l} : s.lease[j] = svc.lease[j]
      /\ s.lease[l].state = svc.lease[l].state /\ s.lease[l].heir = svc.lease[l].heir
      /\ s.lease[l].rooted = svc.lease[l].rooted
      /\ s.lease[l].final = svc.lease[l].final \/ task[k].pc = "complete"
  <2>1. /\ KeepsRow(svc, Checkpointed(svc, l), l) /\ KeepsRow(svc, CompletionOf(svc, l), l)
        /\ Checkpointed(svc, l).lease[l].final = svc.lease[l].final
    BY <1>1, <1>4, CheckpointKeepsRow
  <2>2. KeepsRow(svc, s, l) /\ (task[k].pc # "complete" => s.lease[l].final = svc.lease[l].final)
    BY <2>1
  <2> HIDE DEF s
  <2> QED
    BY <2>2 DEF KeepsRow
<1>7. task[k].pc = "complete" => entry[task[k].e].state = "finalizing"
  BY <1>3, <1>4 DEF Working
<1>8. can => svc.lease[l].rooted /\ svc.lease[l].heir = 0
  <2>1. Active(svc, l) => svc.lease[l].rooted /\ svc.lease[l].heir = 0
    BY <1>4 DEF Active, Served, ServedRow
  <2>2. task[k].pc = "complete" /\ svc.lease[l].final # None =>
          svc.lease[l].rooted /\ svc.lease[l].heir = 0
    BY <1>4, <1>7 DEF Agrees, Fits, Open
  <2> QED
    BY <1>2, <2>1, <2>2 DEF CanComplete, CanCheckpoint
<1>9. can => p[1] = l
  <2>1. CASE task[k].pc = "complete"
    <3>1. can => Quiet(svc, s) /\ p \in Snapshots \ {None}
      BY <1>1, <1>4, <2>1, CheckpointMoves
    <3> QED
      BY <1>4, <2>1, <3>1 DEF Quiet, SoundService
  <2>2. CASE task[k].pc # "complete"
    BY <2>2 DEF Latest
  <2> QED
    BY <2>1, <2>2
<1> HIDE DEF s, p, can, v
<1>10. /\ UNCHANGED <<record, entry>> /\ current' \in {0, current} /\ (svc' = svc \/ (can /\ svc' = s))
  BY <1>1, <1>2, CriticalCall
<1>11. PICK t : /\ task' = [task EXCEPT ![k] = t]
                /\ \/ t = Idle
                   \/ /\ can /\ svc' = s /\ t.pc = next /\ t.val = v
                      /\ t.e = task[k].e /\ t.then = task[k].then
  BY <1>1, <1>2, CriticalCall
<1>12. CASE t = Idle /\ svc' = svc
  BY <1>4, <1>10, <1>11, <1>12, AlikeItself, ReturnGuards
<1>13. CASE can /\ svc' = s
  <2>1. Working(svc', record, entry, t)
    <3>1. CASE t = Idle
      BY <3>1, IdleShows
    <3>2. CASE t.pc = next /\ t.val = v /\ t.e = task[k].e
      <4>1. Saving(t) /\ t.pc \notin CleanupPcs /\ t.pc # "mark"
        BY <3>2 DEF Saving, CleanupPcs
      <4>2. t.pc \in {"complete", "saveCheckpoint"} => entry[t.e].state = "finalizing"
        BY <1>2, <1>7, <3>2
      <4> QED
        BY <1>5, <1>6, <1>8, <1>9, <1>13, <3>2, <4>1, <4>2 DEF Working
    <3> QED
      BY <1>11, <3>1, <3>2
  <2>2. /\ t.pc \notin StartupPcs \cup {"cleanupRelease", "persist"} /\ t.e \in {0, task[k].e}
        /\ t.then \notin {"rolledback", "durable"}
    <3>1. CASE t = Idle
      BY <3>1, IdleFacts DEF StartupPcs
    <3>2. CASE t.pc = next /\ t.e = task[k].e /\ t.then = task[k].then
      BY <1>4, <3>2 DEF StartupPcs
    <3> QED
      BY <1>11, <3>1, <3>2
  <2> QED
    BY <1>3, <1>6, <1>7, <1>8, <1>10, <1>11, <1>13, <2>1, <2>2, SnapshotGuards, ZenonT(40)
<1> QED
  BY <1>10, <1>11, <1>12, <1>13

LEMMA ExportGuards ==
  ASSUME Lives, history # "overlapped", Guarded, NEW k \in Tasks, ExportPatch(k)
  PROVE  Guarded'
<1> DEFINE v == task[k].val
           w == [v EXCEPT !.art = v.latest, !.state = "completed"]
           s == Exported(svc, v.latest)
           can == CanExport(svc, v.lease, v.base, v.latest) /\ ExportKey(v.latest) \notin refused
<1>1. RuntimeInvariant /\ svc \in Services /\ v \in Values
  BY ValueFacts DEF Lives
<1>2. CallStep(k, "export", can, s, w, "savePatch")
  BY DEF ExportPatch, Val
<1>3. Alike(svc, svc) /\ Alike(svc, s)
  <2>1. s.refs = svc.refs /\ s.lease = svc.lease
    BY <1>1 DEF Exported, Services
  <2> QED
    BY <2>1 DEF Alike, AlikeRows, AlikeRow
<1>4. w.latest = v.latest /\ w.lease = v.lease
  BY <1>1, ValueUpdates
<1> HIDE DEF w, s, can
<1>5. /\ task[k].pc = "export" /\ UNCHANGED <<record, entry>> /\ current' \in {0, current}
      /\ svc' = svc \/ svc' = s
  BY <1>1, <1>2, CriticalCall
<1>6. PICK t : /\ task' = [task EXCEPT ![k] = t]
               /\ \/ t = Idle
                  \/ /\ t.pc = "savePatch" /\ t.val = w
                     /\ t.e = task[k].e /\ t.then = task[k].then
  BY <1>1, <1>2, CriticalCall
<1>7. Locking(task[k])
  BY <1>5 DEF Locking, LockedPcs
<1>8. /\ task[k].pc # "idle" /\ v.lease \in Leases /\ v.latest = record.latest
      /\ task[k].then \notin {"rolledback", "durable"}
  BY <1>5, <1>7, LockedGuard DEF Working, Saving
<1>9. Alike(svc, svc')
  BY <1>3, <1>5
<1>10. CASE t = Idle
  BY <1>5, <1>6, <1>8, <1>9, <1>10, ReturnGuards
<1>11. CASE t.pc = "savePatch" /\ t.val = w /\ t.e = task[k].e /\ t.then = task[k].then
  <2>1. Working(svc, record, entry, t)
    BY <1>4, <1>8, <1>11 DEF Working, Saving, CleanupPcs
  <2>2. t.pc \notin StartupPcs \cup {"cleanupRelease"}
    BY <1>11 DEF StartupPcs
  <2> QED
    BY <1>4, <1>5, <1>6, <1>8, <1>9, <1>11, <2>1, <2>2, GoesGuard
<1> QED
  BY <1>6, <1>10, <1>11

(* A retain by a sound value leaves the references with a revision and the   *)
(* value's snapshots.                                                       *)
LEMMA RetainKeepsSnapshots ==
  ASSUME NEW s \in Services, SoundService(s), NEW v \in Values, Sound(s, v), v.lease # 0,
         CanRetain(s, v), NEW t, t = AfterRetain(s, v)
  PROVE  /\ t.lease = s.lease /\ t.refs.rev > 0 /\ t.refs.rev \in Nat
         /\ t.refs.want.base = <<1, 0>> /\ t.refs.want.latest = v.latest
<1>1. /\ Moves(s, t) /\ t.refs.want = Want(v) /\ t.lease = s.lease
      /\ t.refs.rev \in Nat /\ Sound(t, [v EXCEPT !.rev = t.refs.rev])
      /\ v.lease = 1 => s.refs.want.lease <= 1
  BY RetainMoves
<1>2. /\ t.refs.want.lease = v.lease /\ t.refs.want.base = v.base /\ t.refs.want.latest = v.latest
  BY <1>1 DEF Want
<1>3. t.refs.rev # 0
  BY <1>1, <1>2 DEF Moves, SoundService
<1>4. v.base = <<1, 0>>
  BY DEF Sound
<1> QED
  BY <1>1, <1>2, <1>3, <1>4

(* What the service wants after a task retained its value. *)
LEMMA RetainedSnapshot ==
  ASSUME RuntimeInvariant, NEW k \in Tasks, task[k].val.lease \in Leases,
         CanRetain(svc, task[k].val), NEW s, s = AfterRetain(svc, task[k].val)
  PROVE  /\ s.lease = svc.lease /\ s.refs.rev > 0 /\ s.refs.rev \in Nat
         /\ s.refs.want.base = <<1, 0>> /\ s.refs.want.latest = task[k].val.latest
<1>1. svc \in Services /\ SoundService(svc) /\ task[k].val \in Values /\ Sound(svc, task[k].val)
  BY ValueFacts
<1>2. task[k].val.lease # 0
  BY ServiceAssumption DEF Leases
<1> QED
  BY <1>1, <1>2, RetainKeepsSnapshots

(* The two retains of a critical section that save the new revision. *)
LEMMA RevisionsGuard ==
  ASSUME Lives, history # "overlapped", Guarded, NEW k \in Tasks,
         RetainPatch(k) \/ (k = "turn" /\ CheckpointRetain)
  PROVE  Guarded'
<1> DEFINE v == task[k].val
           s == AfterRetain(svc, v)
           w == [v EXCEPT !.rev = s.refs.rev]
           can == CanRetain(svc, v)
<1>1. RuntimeInvariant /\ svc \in Services /\ v \in Values
  BY ValueFacts DEF Lives
<1>2. PICK pc \in {"retain", "retainSnapshot"}, next \in {"saveRevision", "saveRetained"} :
        CallStep(k, pc, can, s, w, next)
  BY DEF RetainPatch, CheckpointRetain, Val
<1>3. w.latest = v.latest /\ w.lease = v.lease
  BY <1>1, ValueUpdates
<1> HIDE DEF w, s, can
<1>4. /\ task[k].pc = pc /\ UNCHANGED <<record, entry>> /\ current' \in {0, current}
      /\ svc' = svc \/ (can /\ svc' = s)
  BY <1>1, <1>2, CriticalCall
<1>5. PICK t : /\ task' = [task EXCEPT ![k] = t]
               /\ \/ t = Idle
                  \/ /\ can /\ svc' = s /\ t.pc = next /\ t.val = w
                     /\ t.e = task[k].e /\ t.then = task[k].then
  BY <1>1, <1>2, CriticalCall
<1>6. Locking(task[k])
  BY <1>2, <1>4 DEF Locking, LockedPcs
<1>7. /\ task[k].pc # "idle" /\ v.lease \in Leases /\ v.latest = record.latest
      /\ task[k].then \notin {"rolledback", "durable"} /\ Owner(k)
  BY <1>2, <1>4, <1>6, LockedGuard DEF Working, Saving
<1>8. CASE t = Idle /\ svc' = svc
  BY <1>4, <1>5, <1>7, <1>8, AlikeItself, ReturnGuards
<1>9. CASE can /\ svc' = s
  <2>1. /\ svc'.lease = svc.lease /\ svc'.refs.rev > 0
        /\ svc'.refs.want.base = <<1, 0>> /\ svc'.refs.want.latest = record.latest
    BY <1>1, <1>7, <1>9, RetainedSnapshot DEF s, can
  <2>2. /\ Working(svc, record, entry, t) /\ Wanting(svc', t) /\ t.e \in {0, task[k].e}
        /\ Begins(svc, record, entry, current', t)
    <3>1. CASE t = Idle
      BY <3>1, IdleShows
    <3>2. CASE t.pc = next /\ t.val = w /\ t.e = task[k].e /\ t.then = task[k].then
      <4>1. Working(svc, record, entry, t)
        BY <1>3, <1>7, <3>2 DEF Working, Saving, CleanupPcs
      <4> QED
        BY <1>7, <3>2, <4>1, NothingToShow
    <3> QED
      BY <1>5, <3>1, <3>2
  <2> QED
    BY <1>4, <1>5, <1>7, <2>1, <2>2, RetainGuards
<1> QED
  BY <1>4, <1>5, <1>8, <1>9

(* What a task knows of the entry it waits for. *)
LEMMA WaitingGuard ==
  ASSUME Lives, Guarded, NEW k \in Tasks, task[k].pc \in WaitingPcs
  PROVE  /\ RuntimeInvariant /\ task[k].pc # "idle" /\ task[k].e \in Entries
         /\ task[k].then \notin {"rolledback", "durable"}
         /\ Agrees(svc, record, entry[task[k].e]) /\ entry[task[k].e].lease \in Leases
<1>1. RuntimeInvariant
  BY DEF Lives
<1>2. /\ task[k].pc # "idle" /\ task[k].e \in Entries
      /\ task[k].then \notin {"rolledback", "durable"}
  BY <1>1, WaitingFacts
<1>3. Held(task[k].e)
  BY DEF Held
<1> QED
  BY <1>1, <1>2, <1>3, NamedLeases DEF Guarded, HeldAgree

LEMMA FinalizeBeginGuards ==
  ASSUME Lives, history # "overlapped", Guarded, NEW k \in Tasks, FinalizeBegin(k)
  PROVE  Guarded'
<1> DEFINE v == entry[task[k].e]
<1>1. /\ task[k].pc \in WaitingPcs /\ UNCHANGED <<record, entry>> /\ Alike(svc, svc')
  BY AlikeItself DEF FinalizeBegin, At, WaitingPcs
<1>2. /\ RuntimeInvariant /\ task[k].pc # "idle" /\ task[k].e \in Entries /\ v.lease \in Leases
      /\ task[k].then \notin {"rolledback", "durable"} /\ Agrees(svc, record, v)
  BY <1>1, WaitingGuard
<1>3. CASE Over(v)
  BY <1>1, <1>2, <1>3, ReturnGuards DEF FinalizeBegin, Value, Dropped
<1>4. CASE ~Over(v)
  <2>1. PICK pc \in {"mark", "complete", "retain"} :
          /\ With(k, pc, v) /\ current' = current
          /\ pc = "mark" => v.state = "active"
          /\ pc = "complete" => v.state = "finalizing"
    BY <1>4 DEF FinalizeBegin, Value
  <2>2. PICK t : /\ task' = [task EXCEPT ![k] = t] /\ t.pc = pc /\ t.val = v
                 /\ t.e = task[k].e /\ t.then = task[k].then
    BY <1>2, <2>1, WithMoves
  <2>3. Working(svc, record, entry, t)
    BY <1>2, <2>1, <2>2 DEF Working, Saving, CleanupPcs, Agrees
  <2>4. t.pc \notin StartupPcs \cup {"cleanupRelease"}
    BY <2>2 DEF StartupPcs
  <2> QED
    BY <1>1, <1>2, <2>1, <2>2, <2>3, <2>4, GoesGuard
<1> QED
  BY <1>3, <1>4

LEMMA AnnouncePatchGuards ==
  ASSUME Lives, history # "overlapped", Guarded, NEW k \in Tasks, AnnouncePatch(k)
  PROVE  Guarded'
<1> DEFINE v == task[k].val
<1>1. task[k].pc = "saveRevision" /\ Locking(task[k]) /\ svc' = svc /\ Alike(svc, svc')
  BY AlikeItself DEF AnnouncePatch, At, LockedPcs, Locking
<1>2. /\ RuntimeInvariant /\ task[k].pc # "idle" /\ task[k].e \in Entries /\ v.lease \in Leases
      /\ Working(svc, record, entry, task[k])
  BY <1>1, LockedGuard
<1>3. v.state \in Finished /\ entry[task[k].e].state \in Finished
  <2>1. v.art # None /\ v.art = entry[task[k].e].art /\ Sound(svc, v)
    BY <1>1, <1>2, ValueFacts DEF Advances, HoldsEntry
  <2>2. Sound(svc, entry[task[k].e])
    BY <1>2 DEF RuntimeInvariant, ValuesAreSound
  <2> QED
    BY <2>1, <2>2 DEF Sound
<1>4. v.latest = record.latest
  BY <1>1, <1>2 DEF Working, Saving
<1>5. CASE Cleanup(k, "finalized", v) /\ current' = current
  <2>1. PICK t : /\ task' = [task EXCEPT ![k] = t] /\ t.pc = "cleanupRetain" /\ t.val = v
                 /\ t.e = task[k].e /\ t.then = "finalized"
    BY <1>2, <1>5, CleanupMoves
  <2>2. t.pc \notin StartupPcs \cup {"cleanupRelease", "persist"}
    BY <2>1 DEF StartupPcs
  <2>3. CASE UNCHANGED <<record, entry>>
    <3>1. Working(svc, record, entry, t)
      BY <1>3, <1>4, <2>1 DEF Working, Saving, Finished
    <3> QED
      BY <1>1, <1>2, <1>5, <2>1, <2>2, <2>3, <3>1, GoesGuard
  <2>4. CASE record' = v /\ entry' = [entry EXCEPT ![task[k].e] = v]
    <3>1. entry'[t.e] = v
      BY <1>2, <2>1, <2>4 DEF RuntimeInvariant, Typed
    <3>2. Working(svc, record', entry', t)
      BY <1>3, <2>1, <2>4, <3>1 DEF Working, Saving, Finished
    <3>3. ~Open(v) /\ v.state # "active"
      BY <1>3 DEF Finished, Open
    <3> QED
      BY <1>1, <1>5, <2>1, <2>2, <2>4, <3>2, <3>3, SaveGuards
  <2> QED
    BY <2>3, <2>4 DEF AnnouncePatch, Persisted, Val, PersistFails
<1>6. CASE UNCHANGED <<record, entry>> /\ Return(k)
  BY <1>1, <1>2, <1>6, ReturnGuards DEF Return, End, Dropped
<1> QED
  BY <1>5, <1>6 DEF AnnouncePatch, PersistFails, Val

(* A cleanup ends: its outcome is saved in the record, in the entry or in both. *)
LEMMA OutcomeGuards ==
  ASSUME Lives, history # "overlapped", Guarded, NEW k \in Tasks, Locking(task[k]),
         task[k].pc \in CleanupPcs, NEW v, v.lease = task[k].val.lease,
         v.latest = task[k].val.latest, v.state \in {"releasing", "released"},
         task' = [task EXCEPT ![k] = Idle], svc' = svc,
         record' \in {record, v}, entry' \in {entry, [entry EXCEPT ![task[k].e] = v]},
         current' \in {0, current, task[k].e}
  PROVE  Guarded'
<1>1. /\ Idle.e = 0 /\ Idle.pc \notin StartupPcs \cup {"cleanupRelease", "persist"}
      /\ Idle.then \notin {"rolledback", "durable"} /\ Working(svc, record', entry', Idle)
  BY IdleFacts, IdleShows DEF StartupPcs
<1>2. ~Open(v) /\ v.state # "active"
  BY DEF Open
<1> QED
  BY <1>1, <1>2, SaveGuards

LEMMA SettleFinalizationGuards ==
  ASSUME Lives, history # "overlapped", Guarded, NEW k \in Tasks, SettleFinalization(k)
  PROVE  Guarded'
<1> DEFINE v == IF At(k, "settled") THEN [Val(k) EXCEPT !.state = "released", !.rev = task[k].got]
                ELSE [Val(k) EXCEPT !.state = "releasing"]
<1>1. /\ RuntimeInvariant /\ task[k].pc \in CleanupPcs /\ Locking(task[k]) /\ svc' = svc
      /\ Val(k) = task[k].val /\ Val(k) \in Values
  BY ValueFacts DEF Lives, SettleFinalization, Locking, CleanupPcs, Val
<1>2. v.lease = task[k].val.lease /\ v.latest = task[k].val.latest
  BY <1>1, ValueUpdates
<1>3. v.state \in {"releasing", "released"}
  BY <1>1, ValueUpdates
<1>4. /\ record' \in {record, v} /\ entry' = [entry EXCEPT ![task[k].e] = v]
      /\ task' = [task EXCEPT ![k] = Idle] /\ current' \in {0, current}
  BY DEF SettleFinalization, Persisted, PersistFails, Return, End, Dropped
<1> HIDE DEF v
<1> QED
  BY <1>1, <1>2, <1>3, <1>4, OutcomeGuards

LEMMA SettleRemovalGuards ==
  ASSUME Lives, history # "overlapped", Guarded, SettleRemoval
  PROVE  Guarded'
<1> DEFINE k == "cleanup"
           e == task[k].e
           x == task[k].val
           released == [x EXCEPT !.state = "released", !.rev = task[k].got]
           deferred == [x EXCEPT !.state = "releasing", !.rev = task[k].got]
           failed   == [x EXCEPT !.state = "releasing"]
<1>1. /\ RuntimeInvariant /\ k \in Tasks /\ task[k].pc \in CleanupPcs /\ Locking(task[k])
      /\ svc' = svc /\ task' = [task EXCEPT ![k] = Idle]
  BY DEF Lives, SettleRemoval, At, CleanupPcs, Locking, Tasks, End
<1>2. x \in Values
  BY <1>1, ValueFacts
<1>3. [released EXCEPT !.state = "releasing"] = deferred
  BY <1>2 DEF Values
<1>4. PICK v : /\ v \in {failed, released, deferred}
               /\ record' \in {record, v} /\ entry' \in {entry, [entry EXCEPT ![e] = v]}
               /\ current' \in {0, current, e}
  BY <1>3 DEF SettleRemoval, Persisted, PersistFails, Reinserted, At, Val
<1>5. /\ v.state \in {"releasing", "released"} /\ v.lease = x.lease /\ v.latest = x.latest
  BY <1>2, <1>4 DEF Values
<1> HIDE DEF k
<1> QED
  BY <1>1, <1>4, <1>5, OutcomeGuards

LEMMA CheckpointEndsGuard ==
  ASSUME Lives, history # "overlapped", Guarded, CheckpointBegin \/ CheckpointEnd
  PROVE  Guarded'
<1>1. /\ RuntimeInvariant /\ "turn" \in Tasks /\ Alike(svc, svc')
      /\ UNCHANGED <<record, entry, current>>
  BY AlikeItself DEF Lives, CheckpointBegin, CheckpointEnd, Tasks
<1>2. CASE CheckpointBegin
  <2>1. task["turn"].pc \in WaitingPcs /\ With("turn", "snapshot", entry[task["turn"].e])
    BY <1>2 DEF CheckpointBegin, At, WaitingPcs, Value
  <2>2. PICK t : /\ task' = [task EXCEPT !["turn"] = t] /\ t.val = entry[task["turn"].e]
                 /\ t.e = task["turn"].e /\ t.then = task["turn"].then /\ t.pc = "snapshot"
    BY <1>1, <2>1, WithMoves
  <2>3. /\ task["turn"].pc # "idle" /\ task["turn"].then \notin {"rolledback", "durable"}
        /\ Agrees(svc, record, t.val) /\ t.val.lease \in Leases
    BY <1>1, <2>1, <2>2, WaitingGuard
  <2>4. Working(svc, record, entry, t)
    BY <2>2, <2>3 DEF Working, Saving, CleanupPcs, Agrees
  <2>5. t.pc \notin StartupPcs \cup {"cleanupRelease"}
    BY <2>2 DEF StartupPcs
  <2> QED
    BY <1>1, <2>2, <2>3, <2>4, <2>5, GoesGuard
<1>3. CASE CheckpointEnd
  <2>1. task["turn"].pc # "idle" /\ task' = [task EXCEPT !["turn"] = Idle]
    BY <1>3 DEF CheckpointEnd, At, End
  <2> QED
    BY <1>1, <2>1, ReturnGuards
<1> QED
  BY <1>2, <1>3

LEMMA ReleaseRemovedGuards ==
  ASSUME Lives, history # "overlapped", Guarded, ReleaseRemoved
  PROVE  Guarded'
<1> DEFINE k == "cleanup"
           e == task[k].e
<1>1. /\ k \in Tasks /\ task[k].pc \in WaitingPcs /\ Alike(svc, svc')
      /\ UNCHANGED <<record, entry>>
  BY AlikeItself DEF ReleaseRemoved, At, WaitingPcs, Tasks
<1>2. RuntimeInvariant /\ task[k].pc # "idle" /\ task[k].then \notin {"rolledback", "durable"}
  BY <1>1, WaitingGuard
<1>3. /\ \E pc \in {"finalize", "await"} : \E v : With(k, pc, v) \/ Go(k, pc)
      /\ current' \in {current, e}
  BY DEF ReleaseRemoved
<1>4. PICK t : /\ task' = [task EXCEPT ![k] = t] /\ t.pc \in {"finalize", "await"} /\ t.e = e
               /\ t.then = task[k].then
  <2>1. PICK pc \in {"finalize", "await"} : \E v : With(k, pc, v) \/ Go(k, pc)
    BY <1>3
  <2>2. CASE Go(k, pc)
    BY <1>1, <1>2, <2>2, GoMoves
  <2>3. ASSUME NEW v, With(k, pc, v)
        PROVE  \E t : /\ task' = [task EXCEPT ![k] = t] /\ t.pc \in {"finalize", "await"}
                      /\ t.e = e /\ t.then = task[k].then
    BY <1>1, <1>2, <2>3, WithMoves
  <2> QED
    BY <2>1, <2>2, <2>3
<1>5. t.pc \notin StartupPcs \cup {"cleanupRelease"} /\ ~Locking(t)
  BY <1>4 DEF StartupPcs, Locking, LockedPcs, CleanupPcs
<1>6. Working(svc, record, entry, t)
  BY <1>5, NothingToShow
<1> HIDE DEF k
<1> QED
  BY <1>1, <1>2, <1>3, <1>4, <1>5, <1>6, GoesGuard

LEMMA ReleaseLockedGuards ==
  ASSUME Lives, history # "overlapped", Guarded, ReleaseLocked
  PROVE  Guarded'
<1> DEFINE k == "cleanup"
           e == task[k].e
           v == entry[e]
<1>1. /\ k \in Tasks /\ task[k].pc \in WaitingPcs /\ Alike(svc, svc')
      /\ UNCHANGED <<record, entry>>
  BY AlikeItself DEF ReleaseLocked, At, WaitingPcs, Tasks
<1>2. /\ RuntimeInvariant /\ task[k].pc # "idle" /\ Agrees(svc, record, v) /\ v.lease \in Leases
  BY <1>1, WaitingGuard
<1>3. CASE v.state \in {"finalizing", "released"}
  <2>1. task' = [task EXCEPT ![k] = Idle] /\ current' \in {current, e}
    BY <1>3 DEF ReleaseLocked, Value, Reinserted
  <2>2. /\ Idle.e = 0 /\ ~Locking(Idle) /\ Idle.pc \notin StartupPcs \cup {"cleanupRelease"}
        /\ Idle.then \notin {"rolledback", "durable"} /\ Working(svc, record, entry, Idle)
    BY IdleFacts, IdleShows DEF StartupPcs, Locking, LockedPcs, CleanupPcs
  <2> HIDE DEF k
  <2> QED
    BY <1>1, <1>2, <2>1, <2>2, GoesGuard
<1>4. CASE v.state \notin {"finalizing", "released"}
  <2>1. Cleanup(k, "removed", v) /\ current' = current
    BY <1>4 DEF ReleaseLocked, Value
  <2>2. PICK t : /\ task' = [task EXCEPT ![k] = t] /\ t.pc = "cleanupRetain" /\ t.e = e
                 /\ t.val = v /\ t.then = "removed"
    BY <1>1, <1>2, <2>1, CleanupMoves
  <2>3. Working(svc, record, entry, t)
    BY <1>2, <1>4, <2>2 DEF Working, Saving, Agrees
  <2>4. t.pc \notin StartupPcs \cup {"cleanupRelease"}
    BY <2>2 DEF StartupPcs
  <2> HIDE DEF k
  <2> QED
    BY <1>1, <1>2, <2>1, <2>2, <2>3, <2>4, GoesGuard
<1> QED
  BY <1>3, <1>4

(* A turn ends, or a removal takes the entry in the map. *)
LEMMA TurnEndsGuards ==
  ASSUME Lives, history # "overlapped", Guarded, NEW goal \in {"finalize", "checkpoint"},
         TurnEnds(goal)
  PROVE  Guarded'
<1> DEFINE k == "turn"
           t == Aimed(goal, current, entry[current])
<1>1. /\ RuntimeInvariant /\ k \in Tasks /\ k # "startup" /\ Alike(svc, svc')
      /\ UNCHANGED <<record, entry, current>> /\ task' = [task EXCEPT ![k] = t]
      /\ entry[current] \in Values /\ current \in 0..MaxEntry
  BY AlikeItself, CurrentFacts
     DEF Lives, TurnEnds, Tasks, memory, Aimed, RuntimeInvariant, Typed
<1>2. task["startup"].pc = "idle"
  BY DEF TurnEnds, Lives, OneLife, Alone
<1>3. t.pc = goal /\ t.e = current /\ goal \in WaitingPcs
  BY <1>1, AimedFacts DEF AllPcs, WaitingPcs
<1> HIDE DEF t, k
<1>4. ~Locking(t) /\ t.pc \notin {"cleanupRelease", "persist"}
  BY <1>3 DEF Locking, LockedPcs, CleanupPcs
<1>5. Working(svc, record, entry, t) /\ Wanting(svc, t)
  BY <1>4, NothingToShow
<1> QED
  BY <1>1, <1>2, <1>3, <1>4, <1>5, MovesGuard

LEMMA TakeGuards ==
  ASSUME Lives, Guarded, NEW scheduled, NEW permit \in BOOLEAN, Take(scheduled, permit),
         history' # "overlapped"
  PROVE  Guarded'
<1> DEFINE k == "cleanup"
<1>1. /\ RuntimeInvariant /\ k \in Tasks /\ k # "startup" /\ Alike(svc, svc')
      /\ UNCHANGED <<record, entry>> /\ current' = 0 /\ task["startup"].pc = "idle"
  BY AlikeItself DEF Lives, Take, Tasks, Busy
<1>2. PICK t : /\ task' = [task EXCEPT ![k] = t] /\ t.pc \in {"idle", "taken"}
               /\ t.e \in {0, current}
  <2>1. CASE current = 0
    BY <2>1, IdleFacts DEF Take
  <2>2. CASE current # 0
    <3> DEFINE t == Taken("taken", current, entry[current], permit)
    <3>1. current \in 0..MaxEntry /\ entry[current] \in Values /\ "taken" \in AllPcs
      BY <1>1, <2>2, CurrentFacts DEF RuntimeInvariant, Typed, AllPcs, WaitingPcs
    <3>2. t.pc = "taken" /\ t.e = current
      BY <3>1, TakenFacts
    <3>3. task' = [task EXCEPT ![k] = t]
      BY <2>2 DEF Take, Taken
    <3> QED
      BY <3>2, <3>3
  <2> QED
    BY <2>1, <2>2
<1> HIDE DEF k
<1>3. ~Locking(t) /\ t.pc \notin {"cleanupRelease", "persist"}
  BY <1>2 DEF Locking, LockedPcs, CleanupPcs
<1>4. Working(svc, record, entry, t) /\ Wanting(svc, t)
  BY <1>3, NothingToShow
<1> QED
  BY <1>1, <1>2, <1>3, <1>4, MovesGuard

(* What a task that retains and releases a lease knows. *)
LEMMA CleanupGuard ==
  ASSUME Lives, history # "overlapped", Guarded, NEW k \in Tasks, task[k].pc \in CleanupPcs
  PROVE  /\ RuntimeInvariant /\ Owner(k) /\ task[k].val.lease \in Leases
         /\ record.lease # 0 => task[k].val.latest = record.latest
         /\ \A e \in Entries : Held(e) => entry[e].state # "finalizing"
         /\ Working(svc, record, entry, task[k])
         /\ k = "startup" => Begins(svc, record, entry, current, task[k])
<1> DEFINE t == task[k]
<1>1. RuntimeInvariant
  BY DEF Lives
<1>2. /\ Owner(k) /\ t.val.lease \in Leases
      /\ \/ Locking(t)
         \/ k = "startup" /\ t.then \in {"rolledback", "durable"} /\ t.e = 0
  BY <1>1, CleanupFacts, ValueFacts DEF Owner, CleanupPcs, Advances
<1>3. /\ Working(svc, record, entry, t)
      /\ k = "startup" => Begins(svc, record, entry, current, t)
  BY DEF Guarded
<1>4. /\ Locking(t) => \A e \in Entries : Held(e) => e = t.e
      /\ k = "startup" /\ t.e = 0 => \A e \in Entries : Held(e) => e = current
  BY <1>2, OwnerIsAlone
<1>5. CASE Locking(t)
  BY <1>1, <1>2, <1>3, <1>4, <1>5 DEF Working, Saving, CleanupPcs
<1>6. CASE k = "startup" /\ t.then = "rolledback" /\ t.e = 0
  <2>1. Building(t) /\ Renewing(t)
    BY <1>6 DEF Building, Renewing
  <2>2. /\ record.lease # 0 => t.val.latest = record.latest
        /\ current # 0 => ~Open(entry[current])
    BY <1>3, <1>6, <2>1 DEF Begins
  <2>3. 0 \notin Entries
    BY RuntimeAssumption DEF Entries
  <2> QED
    BY <1>1, <1>2, <1>3, <1>4, <1>6, <2>2, <2>3 DEF Open
<1>7. CASE k = "startup" /\ t.then = "durable" /\ t.e = 0
  <2>1. t.val = record
    BY <1>3, <1>7 DEF Begins
  <2>2. record.state \in Finished
    BY <1>1, <1>7, <2>1, ValueFacts DEF Advances, Sound
  <2>3. \A e \in Entries : Held(e) => entry[e].state # "finalizing"
    BY <2>2 DEF Guarded, HeldAgree, Agrees, Finished
  <2> QED
    BY <1>1, <1>2, <1>3, <1>7, <2>1, <2>3
<1> QED
  BY <1>2, <1>5, <1>6, <1>7

(* It keeps its value, and goes on to the next step of the cleanup. *)
LEMMA CleanupKnows ==
  ASSUME NEW s, NEW rec, NEW values, NEW cur, NEW q, NEW t, q.pc \in CleanupPcs,
         t.pc \in CleanupPcs, t.val = q.val, t.e = q.e, t.then = q.then
  PROVE  /\ Working(s, rec, values, q) => Working(s, rec, values, t)
         /\ Begins(s, rec, values, cur, q) => Begins(s, rec, values, cur, t)
         /\ Renewing(t) => Renewing(q)
         /\ Locking(t) => Locking(q)
         /\ t.pc \notin {"reject", "persist", "boot", "commit"} /\ ~Saving(t)
<1>1. /\ t.pc \notin LockedPcs /\ q.pc \notin LockedPcs
      /\ t.pc \notin {"reconnect", "restore", "reject", "persist", "boot", "commit", "mark",
                      "complete", "saveCheckpoint", "saveSnapshot"}
      /\ q.pc \notin {"reconnect", "restore", "reject", "persist", "boot", "commit", "mark",
                      "complete", "saveCheckpoint", "saveSnapshot"}
  BY DEF CleanupPcs, LockedPcs
<1>2. (Locking(t) <=> Locking(q)) /\ (Building(t) <=> Building(q)) /\ ~Saving(t) /\ ~Saving(q)
  BY <1>1 DEF Locking, Building, Saving
<1>3. Renewing(t) <=> Renewing(q)
  BY <1>1, <1>2 DEF Renewing
<1> QED
  BY <1>1, <1>2, <1>3 DEF Working, Begins

LEMMA CleanupRetainGuards ==
  ASSUME Lives, history # "overlapped", Guarded, NEW k \in Tasks, CleanupRetain(k)
  PROVE  Guarded'
<1> DEFINE v == task[k].val
           s == AfterRetain(svc, v)
<1>1. RuntimeInvariant /\ task[k].pc = "cleanupRetain" /\ task[k].pc \in CleanupPcs
  BY DEF Lives, CleanupRetain, At, CleanupPcs
<1>2. UNCHANGED <<record, entry, current>>
  BY DEF CleanupRetain, memory
<1>3. /\ Owner(k) /\ v.lease \in Leases /\ (record.lease # 0 => v.latest = record.latest)
      /\ Working(svc, record, entry, task[k])
      /\ k = "startup" => Begins(svc, record, entry, current, task[k])
  BY <1>1, CleanupGuard
<1>4. PICK t : /\ task' = [task EXCEPT ![k] = t] /\ t.pc \in CleanupPcs
               /\ t.val = v /\ t.e = task[k].e /\ t.then = task[k].then
               /\ svc' = svc => t.pc = "unsettled" \/ (CanRetain(svc, v) /\ svc' = s)
  <2>1. CASE Replies(CanRetain(svc, v), s)
    <3>1. PICK t : /\ task' = [task EXCEPT ![k] = t] /\ t.pc \in CleanupPcs
                   /\ t.val = v /\ t.e = task[k].e /\ t.then = task[k].then
      BY <1>1, CleanupStepTask
    <3> QED
      BY <2>1, <3>1 DEF Replies
  <2>2. CASE Go(k, "unsettled")
    BY <1>1, <2>2, GoMoves DEF CleanupPcs
  <2> QED
    BY <2>1, <2>2 DEF CleanupRetain, Val
<1>5. /\ Working(svc, record, entry, t) /\ t.pc # "persist" /\ (Renewing(t) => Renewing(task[k]))
      /\ Locking(t) => Locking(task[k])
      /\ k = "startup" => Begins(svc, record, entry, current, t)
      /\ t.pc # "reject"
  BY <1>1, <1>3, <1>4, CleanupKnows
<1>6. CASE CanRetain(svc, v) /\ svc' = s
  <2>1. /\ svc'.lease = svc.lease /\ svc'.refs.rev > 0 /\ svc'.refs.want.base = <<1, 0>>
        /\ svc'.refs.want.latest = v.latest
    BY <1>1, <1>3, <1>6, RetainedSnapshot
  <2>2. Wanting(svc', t)
    BY <1>4, <2>1 DEF Wanting
  <2> HIDE DEF s, v
  <2> QED
    BY <1>2, <1>3, <1>4, <1>5, <2>1, <2>2, RetainGuards
<1>7. CASE svc' = svc /\ t.pc = "unsettled"
  <2>1. Wanting(svc, t) /\ Alike(svc, svc')
    BY <1>7, AlikeItself, NothingToShow
  <2>2. k # "startup" => task["startup"].pc = "idle"
    BY <1>1, WhoIsAlone
  <2>3. Locking(t) \/ Renewing(t) => t.val.lease \in Leases
    BY <1>3, <1>4
  <2> QED
    BY <1>1, <1>2, <1>4, <1>5, <2>1, <2>2, <2>3, MovesGuard
<1>8. svc' = svc \/ (CanRetain(svc, v) /\ svc' = s)
  BY DEF CleanupRetain, Val, Replies, Errs
<1> QED
  BY <1>4, <1>6, <1>7, <1>8

(* A release leaves the leases alone, or takes the roots of one. *)
LEMMA ReleaseOutcomes ==
  ASSUME RuntimeInvariant, Served(svc), NEW l \in Leases,
         Replies(CanRelease(svc, l), Released(svc, l)) \/ ReleaseErrs(l)
  PROVE  \/ Alike(svc, svc')
         \/ CanRelease(svc, l) /\ svc.lease[l].asked = "no" /\ Loosened(svc, svc', l)
<1>1. svc \in Services
  BY DEF RuntimeInvariant, Typed
<1>2. \/ svc' \in {svc, Claimed(svc, l)}
      \/ CanRelease(svc, l) /\ svc' \in {Begun(svc, l), Released(svc, l)}
  BY DEF Replies, ReleaseErrs
<1>3. CanRelease(svc, l) => svc.lease[l].asked \in {"no", "done"}
  BY DEF CanRelease
<1> QED
  BY <1>1, <1>2, <1>3, AlikeItself, ReleaseServes

LEMMA CleanupReleaseGuards ==
  ASSUME Lives, history # "overlapped", Guarded, Served(svc), NEW k \in Tasks, CleanupRelease(k)
  PROVE  Guarded'
<1> DEFINE v == task[k].val
<1>1. RuntimeInvariant /\ task[k].pc = "cleanupRelease" /\ task[k].pc \in CleanupPcs
  BY DEF Lives, CleanupRelease, At, CleanupPcs
<1>2. UNCHANGED <<record, entry, current>>
  BY DEF CleanupRelease, memory
<1>3. /\ Owner(k) /\ v.lease \in Leases /\ (record.lease # 0 => v.latest = record.latest)
      /\ Working(svc, record, entry, task[k])
      /\ \A e \in Entries : Held(e) => entry[e].state # "finalizing"
      /\ k = "startup" => Begins(svc, record, entry, current, task[k])
  BY <1>1, CleanupGuard
<1>4. PICK t : /\ task' = [task EXCEPT ![k] = t] /\ t.pc \in {"settled", "unsettled"}
               /\ t.val = v /\ t.e = task[k].e /\ t.then = task[k].then
  <2>1. PICK pc \in {"settled", "unsettled"} : Go(k, pc)
    BY DEF CleanupRelease
  <2> QED
    BY <1>1, <2>1, GoMoves
<1>5. t.pc \in CleanupPcs
  BY <1>4 DEF CleanupPcs
<1>6. /\ Working(svc, record, entry, t) /\ (Renewing(t) => Renewing(task[k]))
      /\ Locking(t) => Locking(task[k])
      /\ k = "startup" => Begins(svc, record, entry, current, t)
      /\ t.pc \notin {"reject", "persist", "boot", "commit"} /\ ~Saving(t)
  BY <1>1, <1>3, <1>4, <1>5, CleanupKnows
<1>7. Locking(t) \/ Renewing(t) => t.val.lease \in Leases
  BY <1>3, <1>4
<1>8. CASE Alike(svc, svc')
  <2>1. Wanting(svc, t)
    BY <1>4, NothingToShow
  <2>2. k # "startup" => task["startup"].pc = "idle"
    BY <1>1, WhoIsAlone
  <2> QED
    BY <1>1, <1>2, <1>4, <1>6, <1>7, <1>8, <2>1, <2>2, MovesGuard
<1>9. CASE Loosened(svc, svc', v.lease)
  <2>1. record.lease # 0 => svc.refs.want.latest = record.latest
    BY <1>1, <1>3 DEF Guarded, Wanting
  <2> QED
    BY <1>2, <1>3, <1>4, <1>6, <1>7, <1>9, <2>1, LoosenGuards
<1> QED
  BY <1>1, <1>3, <1>8, <1>9, ReleaseOutcomes DEF CleanupRelease, Val

(* What a startup knows. *)
LEMMA StartupGuard ==
  ASSUME Lives, history # "overlapped", Guarded, task["startup"].pc \in StartupPcs
  PROVE  LET t == task["startup"] IN
         /\ RuntimeInvariant /\ "startup" \in Tasks /\ Owner("startup") /\ t.pc # "idle"
         /\ t.e = 0 /\ t.then = "none" /\ t.val \in Values /\ Starts(svc, record, t)
         /\ Begins(svc, record, entry, current, t)
         /\ Renewing(t) \/ t.pc = "reject" => t.val.lease \in Leases
         /\ \A e \in Entries : Held(e) => e = current
         /\ 0 \notin Entries
<1>1. RuntimeInvariant /\ "startup" \in Tasks /\ 0 \notin Entries
  BY RuntimeAssumption DEF Lives, Tasks, Entries
<1>2. /\ Owner("startup") /\ task["startup"].pc # "idle" /\ task["startup"].e = 0
      /\ task["startup"].then = "none" /\ task["startup"].val \in Values
      /\ Starts(svc, record, task["startup"])
  BY <1>1, StartupFacts DEF Owner, StartupPcs
<1>3. \A e \in Entries : Held(e) => e = current
  BY <1>1, <1>2, OwnerIsAlone
<1> QED
  BY <1>1, <1>2, <1>3, NamedLeases DEF Guarded

(* A startup goes on. *)
LEMMA StartupGoesGuard ==
  ASSUME Lives, history # "overlapped", Guarded, task["startup"].pc \in StartupPcs, NEW t,
         task' = [task EXCEPT !["startup"] = t], Alike(svc, svc'),
         UNCHANGED <<record, entry, current>>, t.e = 0, ~Locking(t), t.pc # "cleanupRelease",
         t.pc # "persist", Renewing(t) \/ t.pc = "reject" => t.val.lease \in Leases,
         Begins(svc, record, entry, current, t)
  PROVE  Guarded'
<1>1. RuntimeInvariant /\ "startup" \in Tasks
  BY StartupGuard
<1>2. Working(svc, record, entry, t) /\ Wanting(svc, t)
  BY NothingToShow
<1> QED
  BY <1>1, <1>2, MovesGuard

LEMMA BeginGuards ==
  ASSUME Lives, Guarded, Start \/ Resume
  PROVE  Guarded'
<1>1. /\ RuntimeInvariant /\ "startup" \in Tasks /\ Alike(svc, svc')
      /\ task["startup"].pc = "idle" /\ UNCHANGED <<record, entry>> /\ current' \in {0, current}
  BY AlikeItself DEF Lives, Start, Resume, At, memory, Tasks
<1>2. \E pc \in {"provision", "read"} : Go("startup", pc)
  BY DEF Start, Resume
<1>3. PICK t : /\ task' = [task EXCEPT !["startup"] = t] /\ t.pc \in {"provision", "read"}
               /\ t.e = task["startup"].e /\ t.then = task["startup"].then
  BY <1>1, <1>2, GoMoves
<1>4. t.then = "none"
  BY <1>1, <1>3, IdleWaits
<1>5. ~Renewing(t) /\ ~Locking(t) /\ t.pc # "reject"
  BY <1>3 DEF Renewing, Building, Locking, LockedPcs, CleanupPcs
<1>6. /\ Working(svc, record, entry, t) /\ Wanting(svc, t)
      /\ Begins(svc, record, entry, current', t)
  BY <1>3, <1>4, <1>5, NothingToShow
<1> QED
  BY <1>1, <1>3, <1>5, <1>6, MovesGuard

LEMMA ProvisionGuards ==
  ASSUME Lives, history # "overlapped", Guarded, Provision
  PROVE  Guarded'
<1> DEFINE k == "startup"
           v == [NoValue EXCEPT !.lease = 1, !.base = <<1, 0>>, !.latest = <<1, 0>>]
           s == Provisioned(NewService)
<1>1. task[k].pc = "provision" /\ task[k].pc \in StartupPcs
  BY DEF Provision, CallStep, At, StartupPcs
<1>2. /\ RuntimeInvariant /\ k \in Tasks /\ Owner(k) /\ task[k].e = 0 /\ task[k].then = "none"
      /\ record.lease = 0 /\ svc = NewService /\ 0 \notin Entries
  BY <1>1, StartupGuard DEF Starts
<1>3. CallStep(k, "provision", CanProvision(svc), s, v, "boot")
  BY <1>2 DEF Provision
<1>4. v.lease = 1 /\ v.latest = <<1, 0>> /\ v.state = "active"
  BY DEF NoValue
<1>5. /\ s.lease[1].rooted /\ s.lease[1].state = "active"
      /\ s.lease[1].final = None /\ s.lease[1].heir = 0
  BY ProvisionServes
<1> HIDE DEF v, s
<1>6. UNCHANGED <<record, entry>> /\ current' \in {0, current}
  BY <1>2, <1>3, CriticalCall
<1>7. PICK t : /\ task' = [task EXCEPT ![k] = t]
               /\ \/ t = Idle
                  \/ /\ svc' = s /\ t.pc = "boot" /\ t.val = v
                     /\ t.e = task[k].e /\ t.then = task[k].then
  BY <1>2, <1>3, CriticalCall
<1>8. t.e = 0
  BY <1>2, <1>7, IdleFacts
<1>9. (\A e \in Entries : ~Held(e)) /\ current = 0
  <2>1. \A e \in Entries : entry[e].lease = 0
    BY <1>2 DEF RuntimeInvariant, FirstLeaseIsOnce
  <2>2. \A e \in Entries : Held(e) => entry[e].lease \in Leases
    BY <1>2, NamedLeases
  <2> QED
    BY <1>2, <2>1, <2>2, CurrentFacts, FirstLease, ServiceAssumption DEF Leases
<1>10. HeldAgree'
  <2>1. \A e \in Entries : Held(e)' => Held(e)
    BY <1>2, <1>6, <1>7, <1>8, HeldBefore
  <2> QED
    BY <1>9, <2>1 DEF HeldAgree
<1>11. Kept(svc', record')
  BY <1>2, <1>6 DEF Kept
<1>12. /\ Working(svc', record', entry', t) /\ Wanting(svc', t)
       /\ Begins(svc', record', entry', current', t)
  <2>1. CASE t = Idle
    BY <2>1, IdleShows
  <2>2. CASE svc' = s /\ t.pc = "boot" /\ t.val = v /\ t.then = task[k].then
    <3>1. Fits(svc', v)
      BY <1>4, <1>5, <2>2 DEF Fits
    <3>2. Working(svc', record', entry', t) /\ Wanting(svc', t)
      BY <2>2, NothingToShow DEF Locking, LockedPcs, CleanupPcs
    <3>3. current' = 0 /\ record'.lease = 0
      BY <1>2, <1>6, <1>9
    <3> QED
      BY <1>2, <1>4, <1>5, <2>2, <3>1, <3>2, <3>3 DEF Begins
  <2> QED
    BY <1>7, <2>1, <2>2
<1> HIDE DEF k
<1> QED
  BY <1>2, <1>7, <1>10, <1>11, <1>12, EffectsGuard

LEMMA ReadRecordGuards ==
  ASSUME Lives, history # "overlapped", Guarded, ReadRecord
  PROVE  Guarded'
<1> DEFINE x == entry[current]
<1>1. /\ task["startup"].pc = "read" /\ task["startup"].pc \in StartupPcs /\ Alike(svc, svc')
      /\ UNCHANGED <<record, entry>>
  BY AlikeItself DEF ReadRecord, At, StartupPcs
<1>2. /\ RuntimeInvariant /\ "startup" \in Tasks /\ task["startup"].pc # "idle"
      /\ record.lease # 0 /\ record \in Values
  BY <1>1, StartupGuard DEF Starts, RuntimeInvariant, Typed
<1>3. CASE /\ task' = [task EXCEPT !["startup"] = Reading(record)]
           /\ record.state = "active" \/ (record.state = "finalizing" /\ current = 0)
  <2> DEFINE t == Reading(record)
  <2>1. t.e = 0 /\ t.then = "none" /\ t.pc = "reconnect" /\ t.val = record
    BY <1>2, ReadingFacts
  <2>2. task' = [task EXCEPT !["startup"] = t]
    BY <1>3
  <2> HIDE DEF t
  <2>3. current' = current
    BY <1>3 DEF ReadRecord
  <2>4. current # 0 => ~Open(x)
    <3> SUFFICES ASSUME current # 0 PROVE ~Open(x)
      OBVIOUS
    <3>1. record.state = "active" /\ current \in Entries /\ thread = "absent" /\ Held(current)
      BY <1>2, <1>3, CurrentFacts, WhoIsAlone DEF Held
    <3>2. x.state # "active"
      BY <3>1 DEF Lives, Orderly
    <3>3. x.state # "finalizing"
      BY <3>1 DEF Guarded, HeldAgree, Agrees
    <3> QED
      BY <3>2, <3>3 DEF Open
  <2>5. ~Building(t) /\ ~Locking(t) /\ t.val.lease \in Leases
    BY <1>2, <2>1, NamedLeases DEF Building, Locking, LockedPcs, CleanupPcs
  <2>6. Begins(svc, record, entry, current, t)
    BY <2>1, <2>4, <2>5 DEF Begins
  <2> QED
    BY <1>1, <2>1, <2>2, <2>3, <2>5, <2>6, StartupGoesGuard
<1>4. CASE /\ task' = [task EXCEPT !["startup"] = Aimed("finalize", current, x)]
           /\ record.state = "finalizing" /\ current # 0 /\ x.state = "finalizing"
  <2> DEFINE t == Aimed("finalize", current, x)
  <2>1. current \in 0..MaxEntry /\ x \in Values /\ "finalize" \in AllPcs
    BY <1>2, <1>4, CurrentFacts DEF RuntimeInvariant, Typed, AllPcs, WaitingPcs
  <2>2. t.e = current /\ t.then = "none" /\ t.pc = "finalize"
    BY <2>1, AimedFacts
  <2>3. task' = [task EXCEPT !["startup"] = t]
    BY <1>4
  <2> HIDE DEF t
  <2>4. current' = current
    BY <1>4 DEF ReadRecord
  <2>5. ~Locking(t) /\ t.pc \notin StartupPcs \cup {"cleanupRelease"}
    BY <2>2 DEF Locking, LockedPcs, CleanupPcs, StartupPcs
  <2>6. Working(svc, record, entry, t)
    BY <2>5, NothingToShow
  <2> QED
    BY <1>1, <1>2, <2>2, <2>3, <2>4, <2>5, <2>6, GoesGuard
<1>5. CASE /\ task' = [task EXCEPT !["startup"] = Settling(record)]
           /\ record.state \in {"completed", "releasing"} /\ record.art # None
  <2> DEFINE t == Settling(record)
  <2>1. t.e = 0 /\ t.then = "durable" /\ t.pc = "cleanupRetain" /\ t.val = record
    BY <1>2, SettlingFacts
  <2>2. task' = [task EXCEPT !["startup"] = t]
    BY <1>5
  <2> HIDE DEF t
  <2>3. current' = current
    BY <1>5 DEF ReadRecord
  <2>4. ~Renewing(t) /\ ~Building(t) /\ ~Locking(t)
    BY <2>1 DEF Renewing, Building, Locking, LockedPcs, CleanupPcs
  <2>5. Begins(svc, record, entry, current, t)
    BY <2>1, <2>4 DEF Begins
  <2> QED
    BY <1>1, <2>1, <2>2, <2>3, <2>4, <2>5, StartupGoesGuard
<1>6. CASE task' = [task EXCEPT !["startup"] = Idle]
  <2>1. current' \in {0, current}
    BY DEF ReadRecord
  <2> QED
    BY <1>1, <1>2, <1>6, <2>1, ReturnGuards
<1> QED
  BY <1>3, <1>4, <1>5, <1>6 DEF ReadRecord, Reading, Settling, Aimed

LEMMA ReconnectGuards ==
  ASSUME Lives, history # "overlapped", Guarded, Served(svc), Reconnect
  PROVE  Guarded'
<1> DEFINE v == task["startup"].val
<1>1. /\ task["startup"].pc = "reconnect" /\ task["startup"].pc \in StartupPcs
      /\ UNCHANGED <<record, entry, current>> /\ Alike(svc, svc')
  BY AlikeItself DEF Reconnect, At, StartupPcs, memory
<1>2. /\ RuntimeInvariant /\ "startup" \in Tasks /\ task["startup"].pc # "idle"
      /\ task["startup"].e = 0 /\ task["startup"].then = "none" /\ record.lease # 0
      /\ Begins(svc, record, entry, current, task["startup"]) /\ Renewing(task["startup"])
      /\ v.lease \in Leases
  BY <1>1, StartupGuard DEF Starts, Renewing
<1>3. /\ v = record /\ (current # 0 => ~Open(entry[current]))
      /\ svc.lease[record.lease].state # "none"
  BY <1>1, <1>2 DEF Begins, Guarded, Kept
<1>4. CASE task' = [task EXCEPT !["startup"] = Idle]
  BY <1>1, <1>2, <1>4, ReturnGuards
<1>5. ASSUME NEW pc \in {"reject", "restore"}, Go("startup", pc),
             pc = "reject" <=> Active(svc, v.lease)
      PROVE  Guarded'
  <2>1. PICK t : /\ task' = [task EXCEPT !["startup"] = t] /\ t.pc = pc /\ t.val = v
                 /\ t.e = task["startup"].e /\ t.then = task["startup"].then
    BY <1>2, <1>5, GoMoves
  <2>2. ~Building(t) /\ ~Locking(t) /\ t.pc \notin {"cleanupRelease", "persist", "boot", "commit"}
    BY <1>2, <1>5, <2>1 DEF Building, Locking, LockedPcs, CleanupPcs
  <2>3. t.pc = "reject" => svc.lease[t.val.lease].heir = 0
    BY <1>2, <1>5, <2>1 DEF Active, Served, ServedRow
  <2>4. t.pc = "restore" => svc.lease[record.lease].state \notin {"none", "active"}
    BY <1>3, <1>5, <2>1 DEF Active
  <2>5. Begins(svc, record, entry, current, t)
    BY <1>2, <1>3, <2>1, <2>2, <2>3, <2>4 DEF Begins
  <2> QED
    BY <1>1, <1>2, <2>1, <2>2, <2>5, StartupGoesGuard
<1> QED
  BY <1>4, <1>5 DEF Reconnect, Val

LEMMA RejectGuards ==
  ASSUME Lives, history # "overlapped", Guarded, Served(svc), RejectReconnect
  PROVE  Guarded'
<1> DEFINE l == task["startup"].val.lease
<1>1. /\ task["startup"].pc = "reject" /\ task["startup"].pc \in StartupPcs
      /\ UNCHANGED <<record, entry, current>> /\ task' = [task EXCEPT !["startup"] = Idle]
  BY DEF RejectReconnect, At, StartupPcs, memory
<1>2. /\ RuntimeInvariant /\ "startup" \in Tasks /\ Owner("startup") /\ task["startup"].pc # "idle"
      /\ Begins(svc, record, entry, current, task["startup"]) /\ l \in Leases
      /\ 0 \notin Entries /\ \A e \in Entries : Held(e) => e = current
  BY <1>1, StartupGuard
<1>3. svc.lease[l].heir = 0 /\ (current # 0 => ~Open(entry[current]))
  BY <1>1, <1>2 DEF Begins
<1>4. CASE Alike(svc, svc')
  BY <1>1, <1>2, <1>4, ReturnGuards
<1>5. CASE CanRelease(svc, l) /\ svc.lease[l].asked = "no" /\ Loosened(svc, svc', l)
  <2>1. svc.refs.want.latest = Latest(svc, l)
    BY <1>2, <1>3, <1>5 DEF CanRelease, Synchronized, Served, ServedRow
  <2>2. \A e \in Entries : Held(e) => entry[e].state # "finalizing"
    BY <1>2, <1>3 DEF Open
  <2>3. /\ Idle.e = 0 /\ ~Renewing(Idle) /\ ~Saving(Idle)
        /\ Idle.pc \notin {"cleanupRelease", "persist", "reject", "boot", "commit"}
        /\ Working(svc, record, entry, Idle) /\ Begins(svc, record, entry, current, Idle)
    BY IdleFacts, IdleShows DEF Renewing, Building, Saving, CleanupPcs
  <2> QED
    BY <1>1, <1>2, <1>5, <2>1, <2>2, <2>3, LoosenGuards
<1> QED
  BY <1>2, <1>4, <1>5, ReleaseOutcomes DEF RejectReconnect, Val

(* The heir of the lease that has the record's snapshot is another one than *)
(* the record's, and no completion checkpoint of it is known.               *)
LEMMA RestoreGuards ==
  ASSUME Lives, history # "overlapped", Guarded, Served(svc), Restore
  PROVE  Guarded'
<1> DEFINE k == "startup"
           v == task[k].val
           p == v.latest
           s == Restored(svc, p)
           h == Heir(svc, p)
           q == p[1]
           can == CanRestore(svc, p) /\ RestoreKey(p) \notin refused
           w == [v EXCEPT !.lease = IF can THEN h ELSE 0]
<1>1. task[k].pc = "restore" /\ task[k].pc \in StartupPcs
  BY DEF Restore, CallStep, At, StartupPcs
<1>2. /\ RuntimeInvariant /\ k \in Tasks /\ Owner(k) /\ task[k].pc # "idle" /\ task[k].e = 0
      /\ task[k].then = "none" /\ v \in Values /\ 0 \notin Entries
      /\ record.lease # 0 /\ Renewing(task[k]) /\ v.state \in {"active", "finalizing"}
      /\ Begins(svc, record, entry, current, task[k])
      /\ \A e \in Entries : Held(e) => e = current
  BY <1>1, StartupGuard DEF Starts, Renewing
<1>3. /\ v = record /\ svc.lease[record.lease].state \notin {"none", "active"}
      /\ current # 0 => ~Open(entry[current])
  BY <1>1, <1>2 DEF Begins
<1>4. /\ svc \in Services /\ SoundService(svc) /\ p \in Snapshots \ {None}
      /\ record.lease \in Leases /\ q \in Leases
  BY <1>2, <1>3, NamedLeases
     DEF RuntimeInvariant, Typed, ValuesAreSound, Sound, Values
<1>5. CallStep(k, "restore", can, s, w, "boot")
  BY DEF Restore, Val
<1>6. w.latest = v.latest /\ w.state = v.state /\ (can => w.lease = h)
  BY <1>2, ValueUpdates
<1> HIDE DEF s, h, w
<1>7. can => /\ s.refs = svc.refs /\ h \in Leases \ {q}
             /\ \A j \in Leases \ {q, h} : s.lease[j] = svc.lease[j]
             /\ s.lease[q].heir = h /\ s.lease[q].state = "released" /\ s.lease[q].n = svc.lease[q].n
             /\ s.lease[q].rooted = svc.lease[q].rooted
             /\ s.lease[h].state = "active" /\ s.lease[h].rooted /\ s.lease[h].heir = 0
             /\ IF svc.lease[q].heir = 0 THEN svc.lease[h].state = "none" /\ s.lease[h].final = None
                ELSE h = svc.lease[q].heir /\ s.lease[h] = svc.lease[h]
  <2> HIDE DEF p, q
  <2>1. q = p[1] /\ s = Restored(svc, p) /\ h = Heir(svc, p)
    BY DEF q, s, h
  <2> QED
    BY <1>4, <2>1, RestoreServes
<1>8. UNCHANGED <<record, entry>> /\ current' \in {0, current} /\ (svc' = svc \/ (can /\ svc' = s))
  <2> HIDE DEF can
  <2> QED
    BY <1>2, <1>5, CriticalCall
<1>9. PICK t : /\ task' = [task EXCEPT ![k] = t]
               /\ \/ t = Idle
                  \/ /\ can /\ svc' = s /\ t.pc = "boot" /\ t.val = w
                     /\ t.e = task[k].e /\ t.then = task[k].then
  <2> HIDE DEF can
  <2> QED
    BY <1>2, <1>5, CriticalCall
<1>10. CASE t = Idle /\ svc' = svc
  <2> HIDE DEF k
  <2> QED
    BY <1>2, <1>8, <1>9, <1>10, AlikeItself, ReturnGuards
<1>11. CASE can /\ svc' = s
  <2>1. t.e = 0
    BY <1>2, <1>9, IdleFacts
  <2>2. HeldAgree'
    <3>1. \A e \in Entries : Held(e)' => Held(e)
      BY <1>2, <1>8, <1>9, <2>1, HeldBefore
    <3>2. \A e \in Entries : Held(e) => Agrees(svc, record, entry[e]) /\ ~Open(entry[e])
      BY <1>2, <1>3 DEF Guarded, HeldAgree
    <3>3. \A e \in Entries : Held(e) => Agrees(svc', record', entry'[e])
      BY <1>8, <3>2 DEF Agrees, Fits, Open
    <3> QED
      BY <1>8, <3>1, <3>3 DEF Guarded, HeldAgree
  <2>3. h # record.lease /\ s.lease[record.lease].state # "none" /\ s.lease[h].final = None
    <3>1. h # record.lease
      BY <1>3, <1>7, <1>11
    <3>2. s.lease[record.lease].state # "none"
      BY <1>3, <1>4, <1>7, <1>11, <3>1
    <3>3. svc.lease[q].heir \notin {0, record.lease} => svc.lease[svc.lease[q].heir].final = None
      BY <1>2, <1>3 DEF Guarded, Kept
    <3>4. svc.lease[q].heir # 0 => h = svc.lease[q].heir /\ s.lease[h] = svc.lease[h]
      BY <1>7, <1>11
    <3>5. s.lease[h].final = None
      BY <1>7, <1>11, <3>1, <3>3, <3>4
    <3> QED
      BY <3>1, <3>2, <3>5
  <2>4. Kept(svc', record')
    BY <1>2, <1>3, <1>7, <1>8, <1>11, <2>3 DEF Guarded, Kept, Latest
  <2>5. /\ Working(svc', record', entry', t) /\ Wanting(svc', t)
        /\ Begins(svc', record', entry', current', t)
    <3>1. CASE t = Idle
      BY <3>1, IdleShows
    <3>2. CASE t.pc = "boot" /\ t.val = w /\ t.then = task[k].then
      <4>1. Fits(svc', w)
        BY <1>6, <1>7, <1>11, <2>3 DEF Fits
      <4>2. Working(svc', record', entry', t) /\ Wanting(svc', t)
        BY <3>2, NothingToShow DEF Locking, LockedPcs, CleanupPcs
      <4>3. current' # 0 => ~Open(entry'[current'])
        BY <1>3, <1>8
      <4>4. /\ svc'.lease[w.lease].state # "none" /\ svc'.lease[w.lease].rooted
            /\ w.latest = record'.latest /\ svc'.lease[record'.latest[1]].heir = w.lease
            /\ record'.lease # 0
        BY <1>2, <1>3, <1>6, <1>7, <1>8, <1>11
      <4> QED
        BY <1>2, <3>2, <4>1, <4>2, <4>3, <4>4 DEF Begins
    <3> QED
      BY <1>9, <3>1, <3>2
  <2> HIDE DEF k
  <2> QED
    BY <1>2, <1>9, <2>2, <2>4, <2>5, EffectsGuard
<1> QED
  BY <1>8, <1>9, <1>10, <1>11

(* What a startup knows of the lease it brings up. *)
LEMMA BuildingGuard ==
  ASSUME Lives, history # "overlapped", Guarded,
         task["startup"].pc \in {"boot", "commit", "persist"}
  PROVE  LET t == task["startup"] IN
         /\ RuntimeInvariant /\ "startup" \in Tasks /\ Owner("startup") /\ t.pc # "idle"
         /\ t.pc \in StartupPcs /\ t.e = 0 /\ t.then = "none" /\ t.val \in Values
         /\ Building(t) /\ Renewing(t) /\ Open(t.val) /\ t.val.lease \in Leases
         /\ Begins(svc, record, entry, current, t)
         /\ \A e \in Entries : Held(e) => e = current
<1>1. /\ task["startup"].pc \in StartupPcs /\ Building(task["startup"]) /\ Renewing(task["startup"])
  BY DEF StartupPcs, Renewing, Building
<1> QED
  BY <1>1, StartupGuard DEF Starts, Open

(* It keeps its value and goes on, gives up, or cleans up. *)
LEMMA BuildingKnows ==
  ASSUME NEW s, NEW rec, NEW values, NEW cur, NEW q, NEW t,
         q.pc \in {"boot", "commit", "persist"}, q.then = "none", Open(q.val),
         Begins(s, rec, values, cur, q),
         t.val.lease = q.val.lease, t.val.latest = q.val.latest, t.val.state = q.val.state,
         \/ t.pc \in {"commit", "persist", "reject"} /\ t.then = "none"
         \/ t.pc = "cleanupRetain" /\ t.then = "rolledback"
  PROVE  Begins(s, rec, values, cur, t) /\ ~Locking(t)
<1>1. Building(q) /\ Renewing(q) /\ ~Locking(t)
  BY DEF Building, Renewing, Locking, LockedPcs, CleanupPcs
<1>2. Fits(s, q.val) => Fits(s, t.val)
  BY DEF Fits, Open
<1>3. t.pc = "reject" => ~Building(t)
  BY DEF Building, CleanupPcs
<1> QED
  BY <1>1, <1>2, <1>3 DEF Begins, Fits

LEMMA BootGuards ==
  ASSUME Lives, history # "overlapped", Guarded, Boot
  PROVE  Guarded'
<1> DEFINE q == task["startup"]
<1>1. /\ q.pc = "boot" /\ UNCHANGED <<record, entry, current>> /\ Alike(svc, svc')
  BY AlikeItself DEF Boot, At, memory
<1>2. /\ RuntimeInvariant /\ "startup" \in Tasks /\ q.pc \in StartupPcs /\ q.e = 0
      /\ q.then = "none" /\ Open(q.val) /\ q.val.lease \in Leases
      /\ Begins(svc, record, entry, current, q)
  BY <1>1, BuildingGuard
<1>3. PICK t : /\ task' = [task EXCEPT !["startup"] = t] /\ t.e = q.e /\ t.val = q.val
               /\ \/ t.pc \in {"commit", "reject"} /\ t.then = "none"
                  \/ t.pc = "cleanupRetain" /\ t.then = "rolledback"
  <2>1. CASE \E pc \in {"commit", "reject"} : Go("startup", pc)
    BY <1>2, <2>1, GoMoves
  <2>2. CASE Cleanup("startup", "rolledback", q.val)
    BY <1>2, <2>2, CleanupMoves
  <2> QED
    BY <2>1, <2>2 DEF Boot, Val
<1>4. Begins(svc, record, entry, current, t) /\ ~Locking(t)
  BY <1>1, <1>2, <1>3, BuildingKnows
<1> QED
  BY <1>1, <1>2, <1>3, <1>4, StartupGoesGuard

LEMMA RetainPendingGuards ==
  ASSUME Lives, history # "overlapped", Guarded, RetainPending
  PROVE  Guarded'
<1> DEFINE k == "startup"
           q == task[k]
           v == q.val
           s == AfterRetain(svc, v)
<1>1. q.pc = "commit" /\ UNCHANGED <<record, entry, current>>
  BY DEF RetainPending, At, memory
<1>2. /\ RuntimeInvariant /\ k \in Tasks /\ Owner(k) /\ q.pc \in StartupPcs /\ q.e = 0
      /\ q.then = "none" /\ Open(v) /\ v.lease \in Leases /\ v \in Values /\ Building(q)
      /\ Begins(svc, record, entry, current, q)
  BY <1>1, BuildingGuard
<1>3. PICK t : /\ task' = [task EXCEPT ![k] = t] /\ t.e = q.e
               /\ t.val.lease = v.lease /\ t.val.latest = v.latest /\ t.val.state = v.state
               /\ \/ t.pc = "persist" /\ t.then = "none" /\ CanRetain(svc, v) /\ svc' = s
                  \/ t.pc = "cleanupRetain" /\ t.then = "rolledback"
  <2>1. CASE Cleanup(k, "rolledback", v)
    BY <1>2, <2>1, CleanupMoves
  <2>2. ASSUME NEW w, w = [v EXCEPT !.rev = svc'.refs.rev], With(k, "persist", w),
               CanRetain(svc, v), svc' = s
        PROVE  \E t : /\ task' = [task EXCEPT ![k] = t] /\ t.e = q.e
                      /\ t.val.lease = v.lease /\ t.val.latest = v.latest /\ t.val.state = v.state
                      /\ t.pc = "persist" /\ t.then = "none" /\ CanRetain(svc, v) /\ svc' = s
    <3>1. w.lease = v.lease /\ w.latest = v.latest /\ w.state = v.state
      BY <1>2, <2>2, ValueUpdates
    <3>2. PICK t : /\ task' = [task EXCEPT ![k] = t] /\ t.pc = "persist" /\ t.val = w
                   /\ t.e = q.e /\ t.then = q.then
      BY <1>2, <2>2, WithMoves
    <3> QED
      BY <1>2, <2>2, <3>1, <3>2
  <2> QED
    BY <2>1, <2>2 DEF RetainPending, Val, Replies
<1>4. Begins(svc, record, entry, current, t) /\ ~Locking(t)
  BY <1>1, <1>2, <1>3, BuildingKnows
<1>5. CASE CanRetain(svc, v) /\ svc' = s
  <2>1. /\ svc'.lease = svc.lease /\ svc'.refs.rev > 0 /\ svc'.refs.want.base = <<1, 0>>
        /\ svc'.refs.want.latest = v.latest
    BY <1>2, <1>5, RetainedSnapshot
  <2>2. Wanting(svc', t) /\ Working(svc, record, entry, t)
    BY <1>3, <1>4, <2>1, NothingToShow DEF Wanting
  <2>3. record.lease # 0 => v.latest = record.latest
    BY <1>2 DEF Begins
  <2> HIDE DEF s, k
  <2> QED
    BY <1>1, <1>2, <1>3, <1>4, <2>1, <2>2, <2>3, RetainGuards
<1>6. CASE svc' = svc /\ t.pc = "cleanupRetain"
  BY <1>1, <1>2, <1>3, <1>4, <1>6, AlikeItself, StartupGoesGuard
<1>7. svc' = svc \/ (CanRetain(svc, v) /\ svc' = s)
  BY DEF RetainPending, Val, Replies, Errs
<1> QED
  BY <1>3, <1>5, <1>6, <1>7

(* The runtime of a startup is in the record and in an entry of its own. *)
LEMMA PublishGuards ==
  ASSUME Lives, history # "overlapped", Guarded, task["startup"].pc = "persist",
         NEW v, v = task["startup"].val, NEW e \in NewEntry, record' = v,
         entry' = [entry EXCEPT ![e] = v], current' = e, svc' = svc,
         NEW t, task' = [task EXCEPT !["startup"] = t],
         t = Idle \/ t = Aimed("finalize", e, v)
  PROVE  Guarded'
<1> DEFINE q == task["startup"]
<1>1. /\ RuntimeInvariant /\ "startup" \in Tasks /\ Owner("startup") /\ q.pc # "idle"
      /\ v \in Values /\ Building(q) /\ Open(v) /\ v.lease \in Leases
      /\ Begins(svc, record, entry, current, q) /\ Wanting(svc, q)
  BY BuildingGuard DEF Guarded
<1>2. /\ e \in Entries /\ e \in 0..MaxEntry /\ 0 \notin Entries /\ entry'[e] = v
  BY <1>1, RuntimeAssumption DEF NewEntry, Entries, RuntimeInvariant, Typed
<1>3. t.pc \in {"finalize", "idle"} /\ t.e \in {0, e} /\ t.then = "none"
  <2>1. "finalize" \in AllPcs
    BY DEF AllPcs, WaitingPcs
  <2> QED
    BY <1>1, <1>2, <2>1, AimedFacts, IdleFacts
<1>4. \A f \in Entries : Held(f)' => f = e
  <2>1. task["turn"].e = 0 /\ task["cleanup"].e = 0 /\ Tasks = {"startup", "turn", "cleanup"}
    BY <1>1, WhoIsAlone, IdleWaits DEF Tasks
  <2>2. task'["startup"] = t /\ \A j \in Tasks \ {"startup"} : task'[j] = task[j]
    BY <1>1 DEF RuntimeInvariant, Typed
  <2>3. \A j \in Tasks : task'[j].e \in {0, e}
    BY <1>3, <2>1, <2>2
  <2> QED
    BY <1>2, <2>3 DEF Held
<1>5. /\ Fits(svc, v) /\ svc.lease[v.lease].state # "none"
      /\ IF record.lease # 0 THEN svc.lease[v.latest[1]].heir = v.lease ELSE v.latest[1] = v.lease
  BY <1>1 DEF Begins
<1>6. HeldAgree'
  <2>1. Agrees(svc', record', entry'[e])
    BY <1>2, <1>5 DEF Agrees
  <2> QED
    BY <1>4, <2>1 DEF HeldAgree
<1>7. Kept(svc', record')
  <2>1. svc.refs.rev > 0 /\ svc.refs.want.base = <<1, 0>> /\ svc.refs.want.latest = v.latest
    BY <1>1 DEF Wanting
  <2>2. svc.lease[v.lease].heir = 0
    BY <1>1, <1>5 DEF Fits
  <2>3. svc.lease[v.latest[1]].heir \in {0, v.lease}
    BY <1>5, <2>2
  <2> QED
    BY <1>5, <2>1, <2>3 DEF Kept
<1>8. ~Locking(t)
  BY <1>3 DEF Locking, LockedPcs, CleanupPcs
<1>9. /\ Working(svc', record', entry', t) /\ Wanting(svc', t)
      /\ Begins(svc', record', entry', current', t)
  BY <1>3, <1>8, NothingToShow
<1> QED
  BY <1>1, <1>6, <1>7, <1>9, EffectsGuard

LEMMA PersistPendingGuards ==
  ASSUME Lives, history # "overlapped", Guarded, PersistPending
  PROVE  Guarded'
<1> DEFINE v == task["startup"].val
<1>1. task["startup"].pc = "persist" /\ svc' = svc /\ Alike(svc, svc')
  BY AlikeItself DEF PersistPending, At
<1>2. CASE /\ record' = v
           /\ \E e \in NewEntry :
                /\ entry' = [entry EXCEPT ![e] = v]
                /\ current' = e
                /\ task' = [task EXCEPT !["startup"] =
                     IF v.state = "finalizing" THEN Aimed("finalize", e, v) ELSE Idle]
  <2>1. PICK e \in NewEntry :
          /\ entry' = [entry EXCEPT ![e] = v]
          /\ current' = e
          /\ task' = [task EXCEPT !["startup"] =
               IF v.state = "finalizing" THEN Aimed("finalize", e, v) ELSE Idle]
    BY <1>2
  <2> DEFINE t == IF v.state = "finalizing" THEN Aimed("finalize", e, v) ELSE Idle
  <2>2. task' = [task EXCEPT !["startup"] = t] /\ (t = Idle \/ t = Aimed("finalize", e, v))
    BY <2>1
  <2> HIDE DEF t
  <2> QED
    BY <1>1, <1>2, <2>1, <2>2, PublishGuards
<1>3. CASE Cleanup("startup", "rolledback", v) /\ UNCHANGED <<record, entry, current>>
  <2> DEFINE q == task["startup"]
  <2>1. /\ RuntimeInvariant /\ "startup" \in Tasks /\ q.pc \in StartupPcs /\ q.e = 0
        /\ q.then = "none" /\ Open(v) /\ v.lease \in Leases
        /\ Begins(svc, record, entry, current, q)
    BY <1>1, BuildingGuard
  <2>2. PICK t : /\ task' = [task EXCEPT !["startup"] = t] /\ t.pc = "cleanupRetain" /\ t.val = v
                 /\ t.e = q.e /\ t.then = "rolledback"
    BY <1>3, <2>1, CleanupMoves
  <2>3. Begins(svc, record, entry, current, t) /\ ~Locking(t)
    BY <1>1, <2>1, <2>2, BuildingKnows
  <2> QED
    BY <1>1, <1>3, <2>1, <2>2, <2>3, StartupGoesGuard
<1> QED
  BY <1>2, <1>3 DEF PersistPending, Persisted, PersistFails, Val, Aimed

LEMMA RolledBackGuards ==
  ASSUME Lives, history # "overlapped", Guarded, RolledBack
  PROVE  Guarded'
<1>1. /\ task["startup"].pc # "idle" /\ UNCHANGED <<record, entry, current>> /\ Alike(svc, svc')
      /\ task' = [task EXCEPT !["startup"] = Idle] /\ "startup" \in Tasks
  BY AlikeItself DEF RolledBack, memory, Tasks
<1> QED
  BY <1>1, ReturnGuards

LEMMA SettleDurableGuards ==
  ASSUME Lives, history # "overlapped", Guarded, SettleDurable
  PROVE  Guarded'
<1> DEFINE x == task["startup"].val
<1>1. /\ task["startup"].then = "durable" /\ task["startup"].pc \in CleanupPcs /\ "startup" \in Tasks
      /\ UNCHANGED <<svc, entry, current>> /\ task' = [task EXCEPT !["startup"] = Idle]
  BY DEF SettleDurable, At, CleanupPcs, Tasks, memory
<1>2. /\ RuntimeInvariant /\ Owner("startup") /\ x \in Values
      /\ Begins(svc, record, entry, current, task["startup"])
      /\ \A e \in Entries : Held(e) => entry[e].state # "finalizing"
  BY <1>1, CleanupGuard, StartupFacts
<1>3. x = record
  BY <1>1, <1>2 DEF Begins
<1>4. record'.lease = record.lease /\ record'.latest = record.latest
  <2>1. record' \in {record, [x EXCEPT !.state = "released", !.rev = task["startup"].got],
                     [x EXCEPT !.state = "releasing"]}
    BY DEF SettleDurable, Persisted, PersistFails, Val
  <2> QED
    BY <1>2, <1>3, <2>1 DEF Values
<1>5. HeldAgree'
  <2>1. Idle.e = 0
    BY IdleFacts
  <2>2. \A e \in Entries : Held(e)' => Held(e)
    BY <1>1, <1>2, <2>1, HeldBefore
  <2>3. \A e \in Entries : Held(e) => Agrees(svc', record', entry'[e])
    BY <1>1, <1>2, <1>4 DEF Guarded, HeldAgree, Agrees
  <2> QED
    BY <2>2, <2>3 DEF Guarded, HeldAgree
<1>6. Kept(svc', record')
  BY <1>1, <1>4 DEF Guarded, Kept
<1> QED
  BY <1>1, <1>2, <1>5, <1>6, IdleShows, EffectsGuard

(* The environment and the session loop. *)
LEMMA OutsideGuards ==
  ASSUME Lives, Guarded, Alike(svc, svc'), UNCHANGED <<record, entry, current, task>>
  PROVE  Guarded'
<1> DEFINE t == task["startup"]
<1>1. RuntimeInvariant /\ "startup" \in Tasks /\ task' = [task EXCEPT !["startup"] = t]
  BY DEF Lives, Tasks, RuntimeInvariant, Typed
<1>2. /\ Locking(t) \/ Renewing(t) \/ t.pc = "reject" => t.val.lease \in Leases
  BY <1>1, NamedLeases
<1>3. /\ Working(svc, record, entry, t) /\ Wanting(svc, t)
      /\ Begins(svc, record, entry, current', t)
  BY <1>1 DEF Guarded
<1> HIDE DEF t
<1>4. t.e = task["startup"].e
  BY DEF t
<1> QED
  BY <1>1, <1>2, <1>3, <1>4, MovesGuard

LEMMA CrashGuards ==
  ASSUME Lives, Guarded, Crash
  PROVE  Guarded'
<1>1. UNCHANGED <<svc, record>> /\ current' = 0 /\ task' = [k \in Tasks |-> Idle] /\ 0 \notin Entries
  BY RuntimeAssumption DEF Crash, Entries
<1>2. (\A k \in Tasks : task'[k] = Idle) /\ Idle.e = 0 /\ "startup" \in Tasks
  BY <1>1, IdleFacts DEF Tasks
<1>3. HeldAgree'
  BY <1>1, <1>2 DEF HeldAgree, Held
<1>4. Kept(svc', record')
  BY <1>1 DEF Guarded
<1> QED
  BY <1>2, <1>3, <1>4, IdleShows DEF Guarded

LEMMA GuardedStep ==
  ASSUME Lives, Served(svc), history # "overlapped" => Guarded, [Next]_vars,
         history' # "overlapped"
  PROVE  Guarded'
<1>1. history # "overlapped" /\ Guarded /\ RuntimeInvariant
  <2>1. history # "overlapped"
    BY DEF Next, TaskStep, Finalize, FinalizeBegin, MarkPending, CompletionCheckpoint,
           SaveCompletion, ExportPatch, SavePatch, RetainPatch, AnnouncePatch,
           SettleFinalization, CleanupRetain, CleanupRelease, PersistStep, CallStep,
           TurnStep, CheckpointBegin, CheckpointCall, CheckpointSaveSnapshot,
           CheckpointRetain, CheckpointSaveRevision, CheckpointEnd, RemovalStep,
           ReleaseRemoved, ReleaseLocked, SettleRemoval, StartupStep, Provision, ReadRecord,
           Reconnect, RejectReconnect, Restore, Boot, RetainPending, PersistPending,
           RolledBack, SettleDurable, TurnEnds, RemoveThread, RetryCleanup, Take, Start,
           Stop, Resume, LoseSandbox, ReconcileRelease, Crash, others, vars
  <2> QED
    BY <2>1 DEF Lives
<1>2. ASSUME NEW k \in Tasks, TaskStep(k) PROVE Guarded'
  <2>1. CASE Finalize(k)
    BY <1>1, <2>1, FinalizeBeginGuards, SavesGuard, CheckpointsGuard, ExportGuards,
       RevisionsGuard, AnnouncePatchGuards, SettleFinalizationGuards
       DEF Finalize
  <2> QED
    BY <1>1, <1>2, <2>1, CleanupRetainGuards, CleanupReleaseGuards DEF TaskStep
<1>3. CASE TurnStep
  BY <1>1, <1>3, CheckpointEndsGuard, SavesGuard, CheckpointsGuard, RevisionsGuard,
     LockedPcFacts
     DEF TurnStep
<1>4. CASE RemovalStep
  BY <1>1, <1>4, ReleaseRemovedGuards, ReleaseLockedGuards, SettleRemovalGuards
     DEF RemovalStep
<1>5. CASE StartupStep
  BY <1>1, <1>5, ProvisionGuards, ReadRecordGuards, ReconnectGuards, RejectGuards,
     RestoreGuards, BootGuards, RetainPendingGuards, PersistPendingGuards,
     RolledBackGuards, SettleDurableGuards
     DEF StartupStep
<1>6. CASE \E goal \in {"finalize", "checkpoint"} : TurnEnds(goal)
  BY <1>1, <1>6, TurnEndsGuards
<1>7. CASE RemoveThread \/ RetryCleanup
  BY <1>1, <1>7, TakeGuards DEF RemoveThread, RetryCleanup
<1>8. CASE Start \/ Resume
  BY <1>1, <1>8, BeginGuards
<1>9. CASE Stop \/ UNCHANGED vars
  BY <1>1, <1>9, AlikeItself, OutsideGuards DEF Stop, vars
<1>10. ASSUME NEW l \in Leases, LoseSandbox(l) \/ ReconcileRelease(l) PROVE Guarded'
  <2>1. Alike(svc, svc')
    BY <1>1, <1>10, ReleaseServes
       DEF LoseSandbox, ReconcileRelease, RuntimeInvariant, Typed
  <2> QED
    BY <1>1, <1>10, <2>1, OutsideGuards DEF LoseSandbox, ReconcileRelease, memory
<1>11. CASE Crash
  BY <1>1, <1>11, CrashGuards
<1> QED
  BY <1>2, <1>3, <1>4, <1>5, <1>6, <1>7, <1>8, <1>9, <1>10, <1>11 DEF Next

LEMMA SnapshotStep == Lives /\ SnapshotInvariant /\ [Next]_vars => SnapshotInvariant'
  BY ServiceServes, GuardedStep DEF SnapshotInvariant, Lives

LEMMA InitIsGuarded == Init => SnapshotInvariant
<1> SUFFICES ASSUME Init PROVE SnapshotInvariant
  OBVIOUS
<1>1. /\ svc = NewService /\ record.lease = 0 /\ current = 0 /\ 0 \notin Entries
      /\ "startup" \in Tasks /\ (\A k \in Tasks : task[k] = Idle) /\ Idle.e = 0
  BY NoValueFacts, IdleFacts, RuntimeAssumption DEF Init, Entries, Tasks
<1>2. HeldAgree /\ Kept(svc, record)
  BY <1>1 DEF HeldAgree, Held, Kept
<1> QED
  BY <1>1, <1>2, ProvisionServes, IdleShows DEF SnapshotInvariant, Guarded

(* What the service keeps of a record whose runtime is guarded. *)
LEMMA SnapshotsAreProtected ==
  ASSUME RuntimeInvariant, SnapshotInvariant
  PROVE  RecordedSnapshotSurvives
<1> SUFFICES ASSUME record.lease # 0, history # "overlapped"
             PROVE  /\ Protected(svc, record.base)
                    /\ record.latest = Latest(svc, record.latest[1]) => Protected(svc, record.latest)
  BY DEF RecordedSnapshotSurvives
<1>1. Kept(svc, record) /\ record.base = <<1, 0>> /\ record.latest[1] \in Leases
  BY NamedLeases DEF SnapshotInvariant, Guarded
<1>2. svc.refs.rooted /\ svc.refs.want.base = record.base
  BY <1>1 DEF Kept, RuntimeInvariant, ValuesAreSound, SoundService
<1> QED
  BY <1>1, <1>2 DEF Kept, Protected

(* The inductive invariant of snapshots: as long as no resume runs beside   *)
(* what was before it, everybody who has the runtime has the lease and the  *)
(* snapshot of the record, a lease with an heir is no longer used, and who  *)
(* is about to release a lease has retained the record's snapshot.          *)
THEOREM SnapshotsAreGuarded == Spec => [](Lives /\ SnapshotInvariant)
<1>1. Init => Lives /\ SnapshotInvariant
  BY InitLives, InitIsGuarded
<1>2. Lives /\ SnapshotInvariant /\ [Next]_vars => (Lives /\ SnapshotInvariant)'
  BY LivesStep, SnapshotStep
<1> QED
  BY <1>1, <1>2, PTL DEF Spec

(* The snapshots that a resume or an export needs keep a root: the base of  *)
(* the record always, its latest one as long as the service would restore   *)
(* from it, whichever task releases a lease on whatever view.               *)
THEOREM RecordedSnapshotIsKept == Spec => []RecordedSnapshotSurvives
<1>1. Lives /\ SnapshotInvariant => RecordedSnapshotSurvives
  BY SnapshotsAreProtected DEF Lives
<1> QED
  BY <1>1, SnapshotsAreGuarded, PTL
=============================================================================
