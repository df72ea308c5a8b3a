----------------------------- MODULE HostedService -----------------------------
(***************************************************************************)
(* What the control plane promises one hosted agent: its leases, their      *)
(* snapshots, the patch exports and the reference set.  Every operation is  *)
(* journaled, so here it is one step: Can... says whether state s allows    *)
(* it, or it replays one that succeeded, and its result is a state.         *)
(*                                                                          *)
(* A failure is journaled too.  The completion checkpoint, the export and   *)
(* the restore run under keys fixed by the lease or the snapshot, and a key *)
(* whose failure is in the journal is answered with it for ever: the set of *)
(* those keys is HostedRuntime's refused.                                   *)
(*                                                                          *)
(* A snapshot is <<lease, n>>, the n-th of its lease; n = 0 is the base.    *)
(* An artifact is named after the snapshot it exports.                      *)
(***************************************************************************)
EXTENDS ReferenceSet, Sequences

CONSTANTS
  MaxLease,     \* bound: leases of the agent
  MaxSnapshot   \* bound: checkpoints of a lease

ASSUME ServiceAssumption == MaxLease \in Nat \ {0} /\ MaxSnapshot \in Nat

Leases    == 1..MaxLease
None      == <<0, 0>>
Snapshots == (Leases \X (0..MaxSnapshot)) \cup {None}

(* final is the completion checkpoint, heir the lease restored from this    *)
(* one, rooted whether the lease's own snapshot roots exist, and asked its  *)
(* release operation, whose key names the lease.                            *)
NoLease   == [state |-> "none", n |-> 0, final |-> None, heir |-> 0, rooted |-> FALSE, asked |-> "no"]
NewLease  == [NoLease EXCEPT !.state = "active", !.rooted = TRUE]
Want(v)   == [lease |-> v.lease, base |-> v.base, latest |-> v.latest, art |-> v.art]
NoWant    == [lease |-> 0, base |-> None, latest |-> None, art |-> None]

NewService == [lease |-> [l \in Leases |-> NoLease], refs |-> References(0, NoWant), exported |-> {}]

Latest(s, l)  == <<l, s.lease[l].n>>
Active(s, l)  == s.lease[l].state = "active"
Fresh(s)      == {l \in Leases : s.lease[l].state = "none"}

(* provision of the agent's first lease; the key names the agent. *)
CanProvision(s) == s.lease[1].state \in {"none", "active"}
Provisioned(s)  == IF Active(s, 1) THEN s ELSE [s EXCEPT !.lease[1] = NewLease]

CanCheckpoint(s, l) == Active(s, l) /\ s.lease[l].n < MaxSnapshot
Checkpointed(s, l)  == [s EXCEPT !.lease[l].n = @ + 1]

CompletionKey(l) == <<"complete", <<l, 0>>>>
ExportKey(p)     == <<"export", p>>
RestoreKey(p)    == <<"restore", p>>

(* The completion checkpoint's key names the lease. *)
CanComplete(s, l)    == s.lease[l].final # None \/ CanCheckpoint(s, l)
CompletionOf(s, l)   == IF s.lease[l].final # None THEN s
                        ELSE [Checkpointed(s, l) EXCEPT !.lease[l].final = <<l, s.lease[l].n + 1>>]

(* export_patch of snapshot p, relative to base; the key names p. *)
CanExport(s, l, base, p) ==
  p \in s.exported \/ (Active(s, l) /\ base = <<l, 0>> /\ p = Latest(s, l))
Exported(s, p) == [s EXCEPT !.exported = @ \cup {p}]

CanRetain(s, v) == RetainAccepted(s.refs, Want(v), v.rev)
AfterRetain(s, v) == [s EXCEPT !.refs = Retained(s.refs, Want(v))]

(* assertSynchronized *)
Synchronized(s, l) ==
  /\ s.refs.rev > 0 /\ ~s.refs.cleared
  /\ s.refs.want.lease = l /\ s.refs.want.latest = Latest(s, l)
  /\ s.refs.want.art = None => Latest(s, l) \notin s.exported

(* Mutant: a release does not ask whether the thread's references are safe. *)
MutCanRelease(s, l) == s.lease[l].state # "none"

(* A release that was refused, or cut short, is left to the reconciler.     *)
CanRelease(s, l) ==
  \/ s.lease[l].asked = "done"
  \/ /\ s.lease[l].asked = "no"
     /\ s.lease[l].state = "released" \/ (s.lease[l].state \in {"active", "lost"} /\ Synchronized(s, l))
Released(s, l) ==
  IF s.lease[l].asked = "done" THEN s
  ELSE [s EXCEPT !.lease[l].state = "released", !.lease[l].rooted = FALSE, !.lease[l].asked = "done"]

Claimed(s, l) == IF s.lease[l].asked = "no" THEN [s EXCEPT !.lease[l].asked = "open"] ELSE s
Begun(s, l)   == IF s.lease[l].asked = "no" /\ s.lease[l].state # "released"
                 THEN [Claimed(s, l) EXCEPT !.lease[l].state = "release_pending"] ELSE s

(* reconcileRelease asks for no synchronization and leaves the roots. *)
Reconciled(s, l) == [s EXCEPT !.lease[l].state = "released", !.lease[l].asked = "done"]

(* restore of snapshot p; the key names p, and a replay needs an active heir. *)
CanRestore(s, p) ==
  LET source == s.lease[p[1]] IN
  IF source.heir # 0 THEN Active(s, source.heir)
  ELSE source.state \in {"lost", "released"} /\ p = Latest(s, p[1]) /\ Fresh(s) # {}
Heir(s, p)     == IF s.lease[p[1]].heir # 0 THEN s.lease[p[1]].heir ELSE CHOOSE l \in Fresh(s) : TRUE
Restored(s, p) ==
  LET made == IF s.lease[p[1]].heir # 0 THEN s ELSE [s EXCEPT !.lease[Heir(s, p)] = NewLease] IN
  [made EXCEPT !.lease[p[1]].heir = Heir(s, p), !.lease[p[1]].state = "released"]

Lost(s, l) == [s EXCEPT !.lease[l].state = "lost"]

(* A root keeps the snapshot from the reclaimer. *)
Protected(s, p) ==
  \/ p[1] \in Leases /\ s.lease[p[1]].rooted /\ (p = Latest(s, p[1]) \/ p[2] = 0)
  \/ \E l \in Leases : p[1] \in Leases /\ s.lease[p[1]].heir = l /\ s.lease[l].rooted /\ p = Latest(s, p[1])
  \/ s.refs.rooted /\ p \in {s.refs.want.base, s.refs.want.latest}
===============================================================================
