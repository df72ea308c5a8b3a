------------------------- MODULE ThreadDeletionProofs -------------------------
(***************************************************************************)
(* TLAPS proofs about thread deletion, for any forest of threads, any       *)
(* number of background drains, failing calls and crashes: the roots of a   *)
(* deleted thread are never forgotten, and cleared roots stay gone.         *)
(***************************************************************************)
EXTENDS ThreadDeletion, FiniteSetTheorems, WellFoundedInduction, TLAPS

(* A record of a hosted thread, and an entry a task may write into one,     *)
(* names a lease: its fence is never the empty one.                         *)
Leased ==
  \A t \in Threads :
    /\ record[t].lease # 0
    /\ runtime[t].at # "none" => runtime[t].lease # 0
    /\ checkpoint[t] # "off" => runtime[t].at # "none"
    /\ cleanup[t].pc # "off" => runtime[t].at = "out"
    /\ cleanup[t].pc \in {"release", "save"} => checkpoint[t] = "off"

(* What a batch or a request deletes: the root, whatever it still reaches,  *)
(* and nothing else that has a row.                                         *)
Family(root, members) ==
  /\ root \in members /\ Closed(members)
  /\ \A t \in members : row[t] => t \in Subtree(root)

(* Every batch is such a family, with a fence for each hosted member that   *)
(* still has its row.                                                       *)
WholeBatches ==
  \A root \in Queued :
    /\ Family(root, outbox[root].members)
    /\ \A t \in outbox[root].members \cap Hosted : row[t] => t \in HostedMembers(outbox[root])

(* A batch fences members of its own only. *)
FencedAreMembers == \A root \in Threads : HostedMembers(outbox[root]) \subseteq outbox[root].members

(* The places in the queue: a strict order in which the untried come first. *)
Lined ==
  \A r \in Threads :
    /\ outbox[r].ahead \subseteq Queued \ {r}
    /\ \A q \in outbox[r].ahead : outbox[q].ahead \subseteq outbox[r].ahead
    /\ r \notin Queued => ~outbox[r].tried
    /\ outbox[r].tried => {q \in Queued : ~outbox[q].tried} \subseteq outbox[r].ahead
    /\ ~outbox[r].tried => \A q \in outbox[r].ahead : ~outbox[q].tried

(* Some batch names the fence of t. *)
Named(t) == \E root \in Threads : t \in HostedMembers(outbox[root])

(* What the request has done so far is in the outbox. *)
RequestRecorded ==
  request.pc \in {"remove", "rollouts"} =>
    /\ Family(request.root, request.members)
    /\ request.pc = "remove" /\ request.root \in Queued =>
         outbox[request.root].members = request.members
    /\ request.pc = "rollouts" => \A t \in request.members \cap Hosted : row[t] => Named(t)

(* A drain works on batches whose rows are gone, and that name all the      *)
(* fences the outbox has for their roots by now.                            *)
ListedAreGone ==
  \A d \in Drainers : \A r \in Roots(drain[d].batches) :
    LET b == drain[d].batches[r] IN
    /\ r \in b.members /\ Ready(b)
    /\ HostedMembers(outbox[r]) \subseteq HostedMembers(b)

ListedInLine ==
  \A d \in Drainers : \A r \in Threads :
    LET b == drain[d].batches[r] IN
    r \notin b.ahead /\ \A q \in b.ahead : drain[d].batches[q].ahead \subseteq b.ahead

(* While no clear failed, the members already taken are cleared. *)
TakenAreCleared ==
  \A d \in Drainers : drain[d].pc = "clear" =>
    /\ drain[d].root \in Roots(drain[d].batches)
    /\ drain[d].complete =>
         \A t \in HostedMembers(drain[d].batches[drain[d].root]) \ drain[d].todo : refs[t].cleared

(* A deleted thread whose references are not cleared for good is named by a *)
(* batch.                                                                   *)
DeletedIsNamed == \A t \in Hosted : ~row[t] /\ ~refs[t].cleared => Named(t)

DeletionInvariant ==
  /\ TypeOK /\ Leased /\ WholeBatches /\ FencedAreMembers /\ Lined
  /\ RequestRecorded /\ ListedAreGone /\ ListedInLine /\ TakenAreCleared
  /\ DeletedIsNamed /\ ClearedRootsStayGone

-------------------------------------------------------------------------------
(* The least of a set of numbers, and what the queue's order owes to it. *)

LEMMA LeastNatural ==
  ASSUME NEW T \in SUBSET Nat, T # {}
  PROVE  \E n \in T : \A m \in T : n <= m
<1>1. IsWellFoundedOn(OpToRel(<, Nat), Nat)
  BY NatLessThanWellFounded
<1>2. \E n \in T : \A m \in T : ~(<<m, n>> \in OpToRel(<, Nat))
  BY <1>1, WFMin
<1>3. PICK n \in T : \A m \in T : ~(m < n)
  BY <1>2 DEF OpToRel
<1> QED
  BY <1>3

LEMMA ThreadsFinite == IsFiniteSet(Threads) /\ Threads \subseteq Nat /\ 0 \notin Threads
<1>1. NThreads \in Int /\ 1 \in Int
  BY DeletionAssumption
<1>2. IsFiniteSet(1..NThreads)
  BY <1>1, FS_Interval
<1> QED
  BY <1>1, <1>2, DeletionAssumption DEF Threads

LEMMA GreatestThread ==
  ASSUME NEW S \in SUBSET Threads, S # {}
  PROVE  \E x \in S : \A y \in S : x >= y
<1> DEFINE T == {NThreads - x : x \in S}
<1>1. NThreads \in Nat /\ \A x \in S : x \in Nat /\ x <= NThreads
  BY DeletionAssumption DEF Threads
<1>2. T \in SUBSET Nat /\ T # {}
  BY <1>1
<1>3. PICK n \in T : \A m \in T : n <= m
  BY <1>2, LeastNatural
<1>4. PICK x \in S : n = NThreads - x
  OBVIOUS
<1>5. \A y \in S : NThreads - x <= NThreads - y
  BY <1>3, <1>4
<1> QED
  BY <1>1, <1>4, <1>5

(* A list in line has a first batch: the one with the fewest ahead of it. *)
LEMMA FirstInLine ==
  ASSUME NEW batches \in [Threads -> Batches], Roots(batches) # {},
         \A r \in Threads : /\ r \notin batches[r].ahead
                            /\ \A q \in batches[r].ahead : batches[q].ahead \subseteq batches[r].ahead
  PROVE  \E root \in Roots(batches) : batches[root].ahead \cap Roots(batches) = {}
<1> DEFINE size(r) == Cardinality(batches[r].ahead)
           sizes   == {size(r) : r \in Roots(batches)}
<1>1. \A r \in Threads : batches[r].ahead \subseteq Threads
  BY DEF Batches
<1>2. \A r \in Threads : IsFiniteSet(batches[r].ahead) /\ size(r) \in Nat
  BY <1>1, ThreadsFinite, FS_Subset, FS_CardinalityType
<1>3. sizes \in SUBSET Nat /\ sizes # {}
  BY <1>2 DEF Roots
<1>4. PICK n \in sizes : \A m \in sizes : n <= m
  BY <1>3, LeastNatural
<1>5. PICK root \in Roots(batches) : n = size(root)
  OBVIOUS
<1>6. ASSUME NEW q \in batches[root].ahead \cap Roots(batches)
      PROVE  FALSE
  <2>1. /\ root \in Threads /\ q \in Threads
        /\ batches[q].ahead \subseteq batches[root].ahead /\ q \notin batches[q].ahead
    BY <1>6, <1>5 DEF Roots
  <2>2. batches[q].ahead # batches[root].ahead
    BY <1>6, <2>1
  <2>3. size(q) < size(root)
    BY <1>2, <2>1, <2>2, FS_Subset
  <2>4. size(root) <= size(q)
    BY <1>4, <1>5, <1>6
  <2> QED
    BY <1>2, <2>1, <2>3, <2>4
<1> QED
  BY <1>6

-------------------------------------------------------------------------------
(* The subtree of a root. *)

(* A root without a row reaches nothing but itself. *)
LEMMA RootLast ==
  ASSUME NEW root \in Threads, NEW t \in Subtree(root), ~row[root]
  PROVE  t = root
<1>1. Closed({root})
  BY DEF Closed
<1> QED
  BY <1>1 DEF Subtree

LEMMA SubtreeIsFamily ==
  ASSUME NEW root \in Threads
  PROVE  Subtree(root) \subseteq Threads /\ Family(root, Subtree(root))
<1>1. root \in Subtree(root) /\ Subtree(root) \subseteq Threads
  BY DEF Subtree
<1>2. ASSUME NEW c \in Threads, Parent[c] \in Subtree(root), row[Parent[c]], row[c]
      PROVE  c \in Subtree(root)
  BY <1>2 DEF Subtree, Closed
<1>3. Closed(Subtree(root))
  BY <1>2 DEF Closed
<1> QED
  BY <1>1, <1>3 DEF Family

(* Rows that go in a closed set take nothing from the subtree of a root but *)
(* that set.                                                                *)
LEMMA SubtreeShrinks ==
  ASSUME NEW gone \in SUBSET Threads, Closed(gone),
         row' = [t \in Threads |-> row[t] /\ t \notin gone],
         NEW root \in Threads, NEW t \in Subtree(root), t \notin gone
  PROVE  t \in Subtree(root)'
<1>1. ASSUME NEW S \in SUBSET Threads, root \in S, Closed(S)'
      PROVE  t \in S
  <2>1. Closed(S \cup gone)
    <3>1. ASSUME NEW c \in Threads, Parent[c] \in S \cup gone, row[Parent[c]], row[c],
                 c \notin gone
          PROVE  c \in S
      <4>1. Parent[c] \notin gone
        BY <3>1 DEF Closed
      <4>2. Parent[c] \in Threads /\ row'[c] /\ row'[Parent[c]]
        BY <3>1, <4>1
      <4> QED
        BY <1>1, <3>1, <4>1, <4>2 DEF Closed
    <3> QED
      BY <3>1 DEF Closed
  <2> QED
    BY <1>1, <2>1 DEF Subtree
<1>2. t \in Threads
  BY DEF Subtree
<1> QED
  BY <1>1, <1>2 DEF Subtree

-------------------------------------------------------------------------------
(* The running hosted threads. *)

Wants   == [lease : 0..MaxLease, latest : 0..MaxLatest]
RefRows == [rev : Nat, want : Wants, cleared : BOOLEAN, rooted : BOOLEAN]

(* A retain neither clears a reference set nor touches a cleared one. *)
RefsMove ==
  /\ refs' \in [Threads -> RefRows]
  /\ \A t \in Threads : /\ refs'[t].cleared = refs[t].cleared
                        /\ refs[t].cleared => refs'[t] = refs[t]

LEMMA RetainedType ==
  ASSUME NEW r \in RefRows, NEW w \in Wants
  PROVE  /\ Retained(r, w) \in RefRows /\ Retained(r, w).cleared = r.cleared
         /\ Retained(r, w).rev \in Nat
<1>1. r.rev \in Nat /\ r.rev + 1 \in Nat
  BY DEF RefRows
<1> DEFINE n == IF r.rev > 0 /\ r.want = w THEN r.rev ELSE r.rev + 1
<1>2. n \in Nat
  BY <1>1
<1>3. Retained(r, w) = [r EXCEPT !.rev = n, !.want = w, !.rooted = TRUE]
  BY DEF Retained
<1> HIDE DEF n
<1>4. [r EXCEPT !.rev = n, !.want = w, !.rooted = TRUE] \in RefRows
  BY <1>2 DEF RefRows, Wants
<1>5. /\ [r EXCEPT !.rev = n, !.want = w, !.rooted = TRUE].cleared = r.cleared
      /\ [r EXCEPT !.rev = n, !.want = w, !.rooted = TRUE].rev = n
  BY DEF RefRows
<1> QED
  BY <1>2, <1>3, <1>4, <1>5

LEMMA DurableType ==
  ASSUME NEW rt \in Runtimes
  PROVE  Durable(rt) \in Runtimes /\ Durable(rt).lease = rt.lease /\ Durable(rt).rev = rt.rev
  BY DEF Durable, Runtimes

LEMMA WantType == ASSUME NEW rt \in Runtimes PROVE Want(rt) \in Wants
  BY DEF Want, Wants, Runtimes

LEMMA RetainMoves ==
  ASSUME TypeOK, NEW t \in Threads, NEW rt \in Runtimes,
         RetainReplies(t, rt) \/ RetainFails(t, rt) \/ UNCHANGED refs
  PROVE  RefsMove
<1>1. CASE UNCHANGED refs
  BY <1>1 DEF RefsMove, TypeOK, RefRows, Wants
<1>2. CASE RetainAccepted(refs[t], Want(rt), rt.rev)
             /\ refs' = [refs EXCEPT ![t] = Retained(@, Want(rt))]
  <2>1. refs[t] \in RefRows /\ ~refs[t].cleared
    BY <1>2 DEF TypeOK, RefRows, Wants, RetainAccepted
  <2>2. Retained(refs[t], Want(rt)) \in RefRows /\ ~Retained(refs[t], Want(rt)).cleared
    BY <2>1, WantType, RetainedType
  <2> QED
    BY <1>2, <2>1, <2>2 DEF RefsMove, TypeOK, RefRows, Wants
<1> QED
  BY <1>1, <1>2 DEF RetainReplies, RetainFails

(* A step that only moves the hosted runtimes keeps what the outbox, the    *)
(* request and the drains rely on.                                          *)
LEMMA HostingKeeps ==
  ASSUME DeletionInvariant, UNCHANGED <<row, rollout, outbox, request, drain>>, RefsMove,
         record' \in [Threads -> Runtimes], runtime' \in [Threads -> Runtimes],
         checkpoint' \in [Threads -> {"off", "retain", "save"}],
         cleanup' \in [Threads -> [pc : {"off", "retain", "release", "save"},
                                   by : {"request", "retry"}, rev : Nat]],
         Leased'
  PROVE  DeletionInvariant'
<1> USE DEF DeletionInvariant
<1>1. TypeOK'
  BY DEF TypeOK, RefsMove, RefRows, Wants
<1>2. WholeBatches' /\ FencedAreMembers' /\ Lined'
  BY DEF WholeBatches, FencedAreMembers, Lined, Family, Closed, Subtree, Queued, Roots, HostedMembers
<1>3. RequestRecorded'
  BY DEF RequestRecorded, Family, Closed, Subtree, Queued, Roots, Named, HostedMembers
<1>4. ListedAreGone' /\ ListedInLine'
  BY DEF ListedAreGone, ListedInLine, Ready, Roots, HostedMembers
<1>5. TakenAreCleared'
  BY DEF TakenAreCleared, RefsMove, Roots, HostedMembers
<1>6. DeletedIsNamed' /\ ClearedRootsStayGone'
  BY DeletionAssumption
  DEF DeletedIsNamed, ClearedRootsStayGone, RefsMove, Named, HostedMembers
<1> QED
  BY <1>1, <1>2, <1>3, <1>4, <1>5, <1>6

LEMMA CheckpointStep ==
  ASSUME DeletionInvariant, NEW t \in Hosted,
         CheckpointTaken(t) \/ CheckpointRetained(t) \/ CheckpointSaved(t)
  PROVE  DeletionInvariant'
<1> USE DEF DeletionInvariant
<1>0. t \in Threads /\ runtime[t] \in Runtimes /\ record[t] \in Runtimes /\ refs[t].rev \in Nat
  BY DeletionAssumption DEF TypeOK
<1>1. CASE CheckpointTaken(t)
  <2> DEFINE rt == [runtime[t] EXCEPT !.latest = @ + 1]
  <2>0. runtime[t].latest < MaxLatest /\ runtime[t].at = "map"
    BY <1>1 DEF CheckpointTaken
  <2>1. /\ rt \in Runtimes /\ rt.lease = runtime[t].lease /\ rt.at = "map"
        /\ Durable(rt) \in Runtimes /\ Durable(rt).lease = rt.lease
    <3>1. /\ rt \in Runtimes /\ rt.lease = runtime[t].lease /\ rt.at = "map"
      BY <1>0, <2>0, DeletionAssumption DEF Runtimes
    <3> QED
      BY <3>1, DurableType
  <2>2. /\ record' = [record EXCEPT ![t] = Durable(rt)] /\ runtime' = [runtime EXCEPT ![t] = rt]
        /\ checkpoint' = [checkpoint EXCEPT ![t] = "retain"] /\ runtime[t].at = "map"
        /\ UNCHANGED <<row, rollout, outbox, refs, cleanup, request, drain>> /\ cleanup[t].pc = "off"
    BY <1>1 DEF CheckpointTaken, Saved
  <2>3. Leased'
    BY <1>0, <2>1, <2>2 DEF Leased, TypeOK
  <2>4. RefsMove
    BY <1>0, <2>2, RetainMoves
  <2> QED
    BY <2>1, <2>2, <2>3, <2>4, HostingKeeps DEF TypeOK
<1>2. CASE CheckpointRetained(t)
  <2>1. RefsMove
    BY <1>0, <1>2, RetainMoves DEF CheckpointRetained
  <2>2. /\ checkpoint' \in [Threads -> {"off", "retain", "save"}] /\ checkpoint[t] = "retain"
        /\ \A u \in Threads \ {t} : checkpoint'[u] = checkpoint[u]
        /\ UNCHANGED <<row, rollout, record, outbox, runtime, cleanup, request, drain>>
    BY <1>2 DEF CheckpointRetained, TypeOK, local
  <2>3. Leased'
    BY <1>0, <2>2 DEF Leased, TypeOK
  <2> QED
    BY <2>1, <2>2, <2>3, HostingKeeps DEF TypeOK
<1>3. CASE CheckpointSaved(t)
  <2> DEFINE rt == [runtime[t] EXCEPT !.rev = refs[t].rev]
  <2>1. rt \in Runtimes /\ Durable(rt) \in Runtimes /\ rt.lease = runtime[t].lease
        /\ rt.at = runtime[t].at /\ Durable(rt).lease = rt.lease
    BY <1>0, DurableType DEF Runtimes
  <2>2. /\ \/ record' = [record EXCEPT ![t] = Durable(rt)] /\ runtime' = [runtime EXCEPT ![t] = rt]
           \/ record' = record /\ runtime' = runtime
        /\ checkpoint' = [checkpoint EXCEPT ![t] = "off"] /\ checkpoint[t] = "save"
        /\ UNCHANGED <<row, rollout, outbox, refs, cleanup, request, drain>>
    BY <1>3 DEF CheckpointSaved, Saved, SaveFails
  <2> HIDE DEF rt
  <2>3. runtime[t].lease # 0
    BY <1>0, <2>2 DEF Leased
  <2>4. /\ record' \in [Threads -> Runtimes] /\ runtime' \in [Threads -> Runtimes]
        /\ \A u \in Threads : /\ record'[u].lease # 0
                              /\ runtime'[u].lease = runtime[u].lease /\ runtime'[u].at = runtime[u].at
    <3>1. CASE record' = [record EXCEPT ![t] = Durable(rt)] /\ runtime' = [runtime EXCEPT ![t] = rt]
      BY <1>0, <2>1, <2>3, <3>1 DEF Leased, TypeOK
    <3>2. CASE record' = record /\ runtime' = runtime
      BY <3>2 DEF Leased, TypeOK
    <3> QED
      BY <2>2, <3>1, <3>2
  <2>5. checkpoint' \in [Threads -> {"off", "retain", "save"}] /\ Leased'
    BY <1>0, <2>2, <2>4 DEF Leased, TypeOK
  <2>6. RefsMove
    BY <1>0, <2>2, RetainMoves
  <2> QED
    BY <2>2, <2>4, <2>5, <2>6, HostingKeeps DEF TypeOK
<1> QED
  BY <1>1, <1>2, <1>3

LEMMA ResumeStep ==
  ASSUME DeletionInvariant, NEW t \in Hosted, Resume(t)
  PROVE  DeletionInvariant'
<1> USE DEF DeletionInvariant
<1> DEFINE restored == [record[t] EXCEPT !.lease = @ + 1]
           saved    == [restored EXCEPT !.at = "map", !.rev = Retained(refs[t], Want(restored)).rev]
<1>0. t \in Threads /\ record[t] \in Runtimes /\ refs[t] \in RefRows
  BY DeletionAssumption DEF TypeOK, RefRows, Wants
<1>1. restored \in Runtimes /\ restored.lease # 0
  BY <1>0, DeletionAssumption DEF Resume, Runtimes
<1>2. Retained(refs[t], Want(restored)).rev \in Nat
  BY <1>0 DEF Retained, RefRows
<1>3. saved \in Runtimes /\ saved.lease # 0 /\ saved.at = "map"
  BY <1>1, <1>2 DEF Runtimes
<1>4. Durable(saved) \in Runtimes /\ Durable(saved).lease # 0
  BY <1>3 DEF Runtimes, Durable
<1>5. /\ \/ record' = [record EXCEPT ![t] = Durable(saved)] /\ runtime' = [runtime EXCEPT ![t] = saved]
         \/ record' = record /\ runtime' = runtime
      /\ RetainReplies(t, restored) \/ RetainFails(t, restored)
      /\ UNCHANGED <<row, rollout, outbox, checkpoint, cleanup, request, drain>>
      /\ runtime[t].at = "none" /\ cleanup[t].pc = "off"
  BY DEF Resume, RetainFails
<1>6. RefsMove
  BY <1>0, <1>1, <1>5, RetainMoves
<1> HIDE DEF saved
<1>7. record' \in [Threads -> Runtimes] /\ runtime' \in [Threads -> Runtimes] /\ Leased'
  <2>1. CASE record' = [record EXCEPT ![t] = Durable(saved)] /\ runtime' = [runtime EXCEPT ![t] = saved]
    BY <1>0, <1>3, <1>4, <1>5, <2>1 DEF Leased, TypeOK
  <2>2. CASE record' = record /\ runtime' = runtime
    BY <1>5, <2>2 DEF Leased, TypeOK
  <2> QED
    BY <1>5, <2>1, <2>2
<1> QED
  BY <1>5, <1>6, <1>7, HostingKeeps DEF TypeOK

-------------------------------------------------------------------------------
(* The cleanup of a removed runtime. *)

Cleanups == [pc : {"off", "retain", "release", "save"}, by : {"request", "retry"}, rev : Nat]

(* A failed cleanup puts the entry back with the lease it had. *)
LEMMA CleanupFails ==
  ASSUME DeletionInvariant, NEW t \in Threads, CleanupFailed(t), cleanup[t].pc # "off",
         UNCHANGED <<row, rollout, outbox, checkpoint, request, drain>>, RefsMove
  PROVE  DeletionInvariant'
<1> USE DEF DeletionInvariant
<1> DEFINE rt == [runtime[t] EXCEPT !.at = "map", !.state = "pending"]
<1>1. runtime[t] \in Runtimes /\ runtime[t].lease # 0
  BY DEF Leased, TypeOK
<1>2. rt \in Runtimes /\ rt.lease # 0 /\ rt.at = "map"
  BY <1>1 DEF Runtimes
<1>3. Durable(rt) \in Runtimes /\ Durable(rt).lease # 0
  BY <1>2, DurableType
<1>4. /\ runtime' = [runtime EXCEPT ![t] = rt] /\ cleanup' = [cleanup EXCEPT ![t] = NoCleanup]
      /\ record' = [record EXCEPT ![t] = Durable(rt)] \/ record' = record
  BY DEF CleanupFailed
<1> HIDE DEF rt
<1>5. record' \in [Threads -> Runtimes] /\ \A u \in Threads : record'[u].lease # 0
  <2>1. CASE record' = [record EXCEPT ![t] = Durable(rt)]
    BY <1>3, <2>1 DEF TypeOK, Leased
  <2>2. CASE record' = record
    BY <2>2 DEF TypeOK, Leased
  <2> QED
    BY <1>4, <2>1, <2>2
<1>6. /\ runtime' \in [Threads -> Runtimes] /\ cleanup' \in [Threads -> Cleanups]
      /\ \A u \in Threads \ {t} : runtime'[u] = runtime[u] /\ cleanup'[u] = cleanup[u]
      /\ runtime'[t] = rt /\ cleanup'[t].pc = "off"
  BY <1>2, <1>4 DEF TypeOK, NoCleanup, Cleanups
<1>7. Leased'
  BY <1>2, <1>5, <1>6 DEF Leased
<1> QED
  BY <1>5, <1>6, <1>7, HostingKeeps DEF TypeOK, Cleanups

LEMMA CleanupStep ==
  ASSUME DeletionInvariant, NEW t \in Hosted,
         CleanupRetain(t) \/ CleanupRelease(t) \/ CleanupSave(t)
  PROVE  DeletionInvariant'
<1> USE DEF DeletionInvariant
<1>0. /\ t \in Threads /\ runtime[t] \in Runtimes /\ cleanup[t].rev \in Nat
      /\ cleanup[t] \in Cleanups
  BY DeletionAssumption DEF TypeOK, Cleanups
<1>1. CASE CleanupRetain(t)
  <2>1. RefsMove
    BY <1>0, <1>1, RetainMoves DEF CleanupRetain
  <2>2. /\ UNCHANGED <<row, rollout, outbox, checkpoint, request, drain>>
        /\ cleanup[t].pc = "retain" /\ checkpoint[t] = "off"
    BY <1>1 DEF CleanupRetain
  <2>3. CASE CleanupFailed(t)
    BY <1>0, <2>1, <2>2, <2>3, CleanupFails
  <2>4. CASE /\ cleanup' = [cleanup EXCEPT ![t].pc = "release", ![t].rev = refs'[t].rev]
             /\ UNCHANGED <<record, runtime>>
    <3>1. refs'[t].rev \in Nat
      BY <1>0, <2>1 DEF RefsMove, RefRows
    <3>2. /\ cleanup' \in [Threads -> Cleanups]
          /\ \A u \in Threads \ {t} : cleanup'[u] = cleanup[u]
      BY <1>0, <2>4, <3>1 DEF TypeOK, Cleanups
    <3>3. Leased'
      BY <1>0, <2>2, <2>4, <3>2 DEF Leased
    <3> QED
      BY <2>1, <2>2, <2>4, <3>2, <3>3, HostingKeeps DEF TypeOK, Cleanups
  <2> QED
    BY <1>1, <2>3, <2>4 DEF CleanupRetain
<1>2. CASE CleanupRelease(t)
  <2>1. /\ UNCHANGED <<row, rollout, outbox, refs, checkpoint, request, drain>>
        /\ cleanup[t].pc = "release"
    BY <1>2 DEF CleanupRelease
  <2>2. RefsMove
    BY <1>0, <2>1, RetainMoves
  <2>3. CASE CleanupFailed(t)
    BY <1>0, <2>1, <2>2, <2>3, CleanupFails
  <2>4. CASE /\ cleanup' = [cleanup EXCEPT ![t].pc = "save"]
             /\ UNCHANGED <<record, runtime>>
    <3>1. /\ cleanup' \in [Threads -> Cleanups] /\ cleanup'[t].pc = "save"
          /\ \A u \in Threads \ {t} : cleanup'[u] = cleanup[u]
      BY <1>0, <2>4 DEF TypeOK, Cleanups
    <3>2. Leased'
      BY <1>0, <2>1, <2>4, <3>1 DEF Leased
    <3> QED
      BY <2>1, <2>2, <2>4, <3>1, <3>2, HostingKeeps DEF TypeOK, Cleanups
  <2> QED
    BY <1>2, <2>3, <2>4 DEF CleanupRelease
<1>3. CASE CleanupSave(t)
  <2> DEFINE rt   == [runtime[t] EXCEPT !.rev = cleanup[t].rev, !.state = "released"]
             back == [rt EXCEPT !.state = "pending", !.at = "map"]
  <2>1. /\ UNCHANGED <<row, rollout, outbox, refs, checkpoint, request, drain>>
        /\ cleanup[t].pc = "save" /\ cleanup' = [cleanup EXCEPT ![t] = NoCleanup]
        /\ \/ record' = [record EXCEPT ![t] = Durable(rt)] /\ runtime' = [runtime EXCEPT ![t] = Gone]
           \/ record' = record /\ runtime' = [runtime EXCEPT ![t] = back]
    BY <1>3 DEF CleanupSave, Saved, SaveFails
  <2>2. runtime[t].lease # 0 /\ checkpoint[t] = "off"
    BY <1>0, <2>1 DEF Leased
  <2>3. rt \in Runtimes /\ rt.lease # 0
    BY <1>0, <2>2 DEF Runtimes
  <2>4. back \in Runtimes /\ back.lease # 0
    BY <2>3 DEF Runtimes
  <2>5. Durable(rt) \in Runtimes /\ Durable(rt).lease # 0
    BY <2>3, DurableType
  <2>6. Gone \in Runtimes /\ Gone.at = "none"
    BY DeletionAssumption DEF Gone, Runtimes
  <2> HIDE DEF rt, back
  <2>7. cleanup' \in [Threads -> Cleanups] /\ cleanup'[t].pc = "off"
        /\ \A u \in Threads \ {t} : cleanup'[u] = cleanup[u]
    BY <1>0, <2>1 DEF TypeOK, NoCleanup, Cleanups
  <2>8. record' \in [Threads -> Runtimes] /\ runtime' \in [Threads -> Runtimes] /\ Leased'
    <3>1. CASE record' = [record EXCEPT ![t] = Durable(rt)] /\ runtime' = [runtime EXCEPT ![t] = Gone]
      BY <1>0, <2>1, <2>2, <2>5, <2>6, <2>7, <3>1 DEF Leased, TypeOK
    <3>2. CASE record' = record /\ runtime' = [runtime EXCEPT ![t] = back]
      BY <1>0, <2>1, <2>2, <2>4, <2>7, <3>2 DEF Leased, TypeOK
    <3> QED
      BY <2>1, <3>1, <3>2
  <2>9. RefsMove
    BY <1>0, <2>1, RetainMoves
  <2> QED
    BY <2>1, <2>7, <2>8, <2>9, HostingKeeps DEF TypeOK, Cleanups
<1> QED
  BY <1>1, <1>2, <1>3

(* An entry taken out of the map for its cleanup. *)
LEMMA Taken ==
  ASSUME TypeOK, Leased, NEW t \in Threads, runtime[t].at = "map", NEW by \in {"request", "retry"},
         runtime' = [runtime EXCEPT ![t].at = "out"], UNCHANGED <<record, checkpoint>>,
         cleanup' = [cleanup EXCEPT ![t] = [pc |-> "retain", by |-> by, rev |-> 0]]
  PROVE  /\ runtime' \in [Threads -> Runtimes] /\ cleanup' \in [Threads -> Cleanups] /\ Leased'
<1>1. runtime[t] \in Runtimes
  BY DEF TypeOK
<1>2. /\ [runtime[t] EXCEPT !.at = "out"] \in Runtimes
      /\ [runtime[t] EXCEPT !.at = "out"].lease = runtime[t].lease
      /\ [runtime[t] EXCEPT !.at = "out"].at = "out"
  BY <1>1 DEF Runtimes
<1>3. /\ runtime' \in [Threads -> Runtimes] /\ cleanup' \in [Threads -> Cleanups]
      /\ runtime'[t].lease = runtime[t].lease /\ runtime'[t].at = "out" /\ cleanup'[t].pc = "retain"
      /\ \A u \in Threads \ {t} : runtime'[u] = runtime[u] /\ cleanup'[u] = cleanup[u]
  BY <1>2 DEF TypeOK, Cleanups
<1> QED
  BY <1>3 DEF Leased

LEMMA RetryStep ==
  ASSUME DeletionInvariant, NEW t \in Hosted, RetryCleanup(t)
  PROVE  DeletionInvariant'
<1> USE DEF DeletionInvariant
<1>0. t \in Threads /\ runtime[t] \in Runtimes
  BY DeletionAssumption DEF TypeOK
<1>1. /\ runtime[t].at = "map" /\ runtime' = [runtime EXCEPT ![t].at = "out"]
      /\ cleanup' = [cleanup EXCEPT ![t] = [pc |-> "retain", by |-> "retry", rev |-> 0]]
      /\ UNCHANGED <<row, rollout, record, outbox, refs, checkpoint, request, drain>>
  <2>1. [NoCleanup EXCEPT !.pc = "retain"] = [pc |-> "retain", by |-> "retry", rev |-> 0]
    BY DEF NoCleanup
  <2> QED
    BY <2>1 DEF RetryCleanup, local
<1>2. runtime' \in [Threads -> Runtimes] /\ cleanup' \in [Threads -> Cleanups] /\ Leased'
  BY <1>0, <1>1, Taken
<1>3. RefsMove
  BY <1>0, <1>1, RetainMoves
<1> QED
  BY <1>1, <1>2, <1>3, HostingKeeps DEF TypeOK, Cleanups

(* The steps of a running thread and of its cleanup. *)
LEMMA HostingStep ==
  ASSUME DeletionInvariant, Hosting
  PROVE  DeletionInvariant'
  BY CheckpointStep, ResumeStep, CleanupStep, RetryStep DEF Hosting

-------------------------------------------------------------------------------
(* The request. *)

(* A step that leaves the rows, the outbox, the references and the drains   *)
(* alone answers only for the runtimes and the request.                     *)
LEMMA RequestKeeps ==
  ASSUME DeletionInvariant, UNCHANGED <<row, outbox, refs, drain>>,
         TypeOK', Leased', RequestRecorded'
  PROVE  DeletionInvariant'
<1> USE DEF DeletionInvariant
<1>1. WholeBatches' /\ FencedAreMembers' /\ Lined'
  BY DEF WholeBatches, FencedAreMembers, Lined, Family, Closed, Subtree, Queued, Roots, HostedMembers
<1>2. ListedAreGone' /\ ListedInLine' /\ TakenAreCleared'
  BY DEF ListedAreGone, ListedInLine, Ready, Roots, HostedMembers, TakenAreCleared
<1>3. DeletedIsNamed' /\ ClearedRootsStayGone'
  BY DEF DeletedIsNamed, ClearedRootsStayGone, Named, HostedMembers
<1> QED
  BY <1>1, <1>2, <1>3

LEMMA IdleType ==
  Idle \in [pc : {"idle", "remove", "rollouts", "drain"}, root : 0..NThreads,
            members : SUBSET Threads, todo : SUBSET Threads]
  BY DeletionAssumption DEF Idle

(* A request that ends, with or without a reply, owes nothing. *)
LEMMA IdleRecorded == request' = Idle => RequestRecorded'
  BY DEF Idle, RequestRecorded

LEMMA BeginStep ==
  ASSUME DeletionInvariant, NEW root \in Threads, DeleteBegin(root)
  PROVE  DeletionInvariant'
<1> USE DEF DeletionInvariant
<1>0. PICK members : members = IF root \in Queued THEN outbox[root].members ELSE Subtree(root)
  OBVIOUS
<1>1. /\ request' = [pc |-> "remove", root |-> root, members |-> members, todo |-> members]
      /\ UNCHANGED <<row, rollout, record, outbox, refs, runtime, checkpoint, cleanup, drain>>
  BY <1>0 DEF DeleteBegin, local, memory
<1>2. members \subseteq Threads /\ Family(root, members)
  <2>1. CASE root \in Queued
    <3>1. outbox[root].members \subseteq Threads
      BY DEF TypeOK, Batches
    <3> QED
      BY <1>0, <2>1, <3>1 DEF WholeBatches
  <2>2. CASE root \notin Queued
    BY <1>0, <2>2, SubtreeIsFamily
  <2> QED
    BY <2>1, <2>2
<1>3. root \in Queued => members = outbox[root].members
  BY <1>0
<1>4. TypeOK' /\ Leased'
  <2>1. root \in 0..NThreads
    BY DeletionAssumption DEF Threads
  <2> QED
    BY <1>1, <1>2, <2>1 DEF TypeOK, Leased
<1>5. RequestRecorded'
  <2>1. Family(root, members)' /\ Queued' = Queued
    BY <1>1, <1>2 DEF Family, Closed, Subtree, Queued, Roots
  <2> QED
    BY <1>1, <1>3, <2>1 DEF RequestRecorded
<1> QED
  BY <1>1, <1>4, <1>5, RequestKeeps

LEMMA RemovesStep ==
  ASSUME DeletionInvariant, DeleteRemoves
  PROVE  DeletionInvariant'
<1> USE DEF DeletionInvariant
<1> DEFINE t == FirstOf(request.todo, request.root)
<1>1. /\ request.pc = "remove" /\ request.todo # {} /\ request' = [request EXCEPT !.todo = @ \ {t}]
      /\ UNCHANGED <<row, rollout, record, outbox, refs, checkpoint, drain>>
      /\ IF runtime[t].at = "map"
         THEN /\ runtime' = [runtime EXCEPT ![t].at = "out"]
              /\ cleanup' = [cleanup EXCEPT ![t] = [pc |-> "retain", by |-> "request", rev |-> 0]]
         ELSE UNCHANGED <<runtime, cleanup>>
  BY DEF DeleteRemoves, local
<1>2. t \in Threads
  <2>1. request.root \in Threads
    BY <1>1 DEF RequestRecorded, Family, TypeOK
  <2>2. CASE ~(request.todo \subseteq {request.root})
    <3> DEFINE S == request.todo \ {request.root}
    <3>1. S # {} /\ S \subseteq Threads
      BY <2>2 DEF TypeOK
    <3>2. \E x \in S : \A y \in S : x >= y
      BY <3>1, GreatestThread
    <3>3. Max(S) \in S
      BY <3>2 DEF Max
    <3> QED
      BY <2>2, <3>1, <3>3 DEF FirstOf
  <2> QED
    BY <2>1, <2>2 DEF FirstOf
<1> HIDE DEF t
<1>3. /\ runtime' \in [Threads -> Runtimes] /\ cleanup' \in [Threads -> Cleanups] /\ Leased'
  <2>1. CASE runtime[t].at = "map"
    BY <1>1, <1>2, <2>1, Taken
  <2>2. CASE runtime[t].at # "map"
    BY <1>1, <2>2 DEF TypeOK, Leased, Cleanups
  <2> QED
    BY <2>1, <2>2
<1>4. /\ request' \in [pc : {"idle", "remove", "rollouts", "drain"}, root : 0..NThreads,
                       members : SUBSET Threads, todo : SUBSET Threads]
      /\ request'.pc = request.pc /\ request'.root = request.root /\ request'.members = request.members
  BY <1>1 DEF TypeOK
<1>5. TypeOK'
  BY <1>1, <1>3, <1>4 DEF TypeOK, Cleanups
<1>6. RequestRecorded'
  BY <1>1, <1>4 DEF RequestRecorded, Family, Closed, Subtree, Queued, Roots, Named, HostedMembers
<1> QED
  BY <1>1, <1>3, <1>5, <1>6, RequestKeeps

LEMMA RolloutStep ==
  ASSUME DeletionInvariant, DeleteRollout \/ DeleteShutdownFails
  PROVE  DeletionInvariant'
<1> USE DEF DeletionInvariant
<1>1. /\ UNCHANGED <<row, record, outbox, refs, runtime, checkpoint, cleanup, drain>>
      /\ \/ request' = Idle
         \/ \E t : request' = [request EXCEPT !.todo = @ \ {t}]
      /\ \/ UNCHANGED rollout
         \/ \E t : rollout' = [rollout EXCEPT ![t] = FALSE]
  BY DEF DeleteRollout, DeleteShutdownFails, Fail, local, memory
<1>2. rollout' \in [Threads -> BOOLEAN]
  BY <1>1 DEF TypeOK
<1>3. CASE request' = Idle
  <2>1. TypeOK' /\ Leased'
    BY <1>1, <1>2, <1>3, IdleType DEF TypeOK, Leased
  <2> QED
    BY <1>1, <1>3, <2>1, IdleRecorded, RequestKeeps
<1>4. ASSUME NEW t, request' = [request EXCEPT !.todo = @ \ {t}]
      PROVE  DeletionInvariant'
  <2>1. /\ request' \in [pc : {"idle", "remove", "rollouts", "drain"}, root : 0..NThreads,
                         members : SUBSET Threads, todo : SUBSET Threads]
        /\ request'.pc = request.pc /\ request'.root = request.root /\ request'.members = request.members
    BY <1>4 DEF TypeOK
  <2>2. TypeOK' /\ Leased'
    BY <1>1, <1>2, <2>1 DEF TypeOK, Leased
  <2>3. RequestRecorded'
    BY <1>1, <2>1 DEF RequestRecorded, Family, Closed, Subtree, Queued, Roots, Named, HostedMembers
  <2> QED
    BY <1>1, <2>2, <2>3, RequestKeeps
<1> QED
  BY <1>1, <1>3, <1>4

(* What a new batch adds to the outbox. *)
LEMMA NewBatch ==
  ASSUME DeletionInvariant, NEW root \in Threads \ Queued, NEW M \in SUBSET Threads, root \in M,
         outbox' = Enqueued(root, M)
  PROVE  /\ outbox' \in [Threads -> Batches] /\ Queued' = Queued \cup {root}
         /\ outbox'[root].members = M /\ outbox'[root].tried = FALSE
         /\ outbox'[root].ahead = {q \in Queued : ~outbox[q].tried}
         /\ HostedMembers(outbox'[root]) = {t \in M \cap Hosted : row[t]}
         /\ \A r \in Threads \ {root} :
              /\ outbox'[r].members = outbox[r].members /\ outbox'[r].tried = outbox[r].tried
              /\ outbox'[r].ahead = outbox[r].ahead \cup (IF outbox[r].tried THEN {root} ELSE {})
              /\ HostedMembers(outbox'[r]) = HostedMembers(outbox[r])
<1> USE DEF DeletionInvariant
<1> DEFINE old == {q \in Queued : ~outbox[q].tried}
           new == [members |-> M, fences |-> Fences(M), tried |-> FALSE, ahead |-> old]
           moved(r) == [outbox[r] EXCEPT !.ahead = @ \cup {root}]
<1>1. outbox' = [r \in Threads |-> IF r = root THEN new
                                   ELSE IF outbox[r].tried THEN moved(r) ELSE outbox[r]]
  BY DEF Enqueued
<1>2. Fences(M) \in [Threads -> [lease : 0..MaxLease, rev : Nat]]
  <2>1. \A t \in Threads : record[t].lease \in 0..MaxLease /\ record[t].rev \in Nat
    BY DEF TypeOK, Runtimes
  <2>2. NoFence \in [lease : 0..MaxLease, rev : Nat]
    BY DeletionAssumption DEF NoFence
  <2> QED
    BY <2>1, <2>2 DEF Fences
<1>3. old \subseteq Threads
  BY DEF Queued, Roots
<1>4. new \in Batches
  BY <1>2, <1>3 DEF Batches
<1>5. ASSUME NEW r \in Threads
      PROVE  /\ moved(r) \in Batches /\ moved(r).members = outbox[r].members
             /\ moved(r).fences = outbox[r].fences /\ moved(r).tried = outbox[r].tried
             /\ moved(r).ahead = outbox[r].ahead \cup {root}
  <2>1. outbox[r] \in Batches
    BY DEF TypeOK
  <2> QED
    BY <2>1 DEF Batches
<1>6. HostedMembers(new) = {t \in M \cap Hosted : row[t]}
  <2>1. \A t \in Threads : record[t].lease # 0
    BY DEF Leased
  <2>2. \A t \in Threads : Fences(M)[t] # NoFence <=> t \in M \cap Hosted /\ row[t]
    BY <2>1 DEF Fences, NoFence
  <2>3. new.fences = Fences(M)
    OBVIOUS
  <2> QED
    BY <2>2, <2>3 DEF HostedMembers
<1> HIDE DEF new, moved, old
<1>7. \A r \in Threads \ {root} : outbox'[r] = IF outbox[r].tried THEN moved(r) ELSE outbox[r]
  BY <1>1
<1>8. outbox'[root] = new
  BY <1>1
<1>9. \A r \in Threads \ {root} :
        /\ outbox'[r].members = outbox[r].members /\ outbox'[r].tried = outbox[r].tried
        /\ outbox'[r].fences = outbox[r].fences
        /\ outbox'[r].ahead = outbox[r].ahead \cup (IF outbox[r].tried THEN {root} ELSE {})
  BY <1>5, <1>7
<1>10. outbox' \in [Threads -> Batches]
  BY <1>1, <1>4, <1>5 DEF TypeOK
<1>11. new.members = M /\ new.tried = FALSE /\ new.ahead = old
  BY DEF new
<1>12. Queued' = Queued \cup {root}
  BY <1>8, <1>9, <1>11 DEF Queued, Roots
<1>13. \A r \in Threads \ {root} : HostedMembers(outbox'[r]) = HostedMembers(outbox[r])
  BY <1>9 DEF HostedMembers
<1> QED
  BY <1>6, <1>8, <1>9, <1>10, <1>11, <1>12, <1>13 DEF old

LEMMA EnqueuesStep ==
  ASSUME DeletionInvariant, DeleteEnqueues
  PROVE  DeletionInvariant'
<1> USE DEF DeletionInvariant
<1>1. /\ request.pc = "remove"
      /\ UNCHANGED <<row, rollout, record, refs, runtime, checkpoint, cleanup, drain>>
      /\ \/ request' = Idle /\ outbox' = outbox
         \/ /\ outbox' = Enqueued(request.root, request.members)
            /\ request' = [request EXCEPT !.pc = "rollouts", !.todo = request.members]
  BY DEF DeleteEnqueues, Fail, memory
<1>2. CASE request' = Idle /\ outbox' = outbox
  <2>1. TypeOK' /\ Leased'
    BY <1>1, <1>2, IdleType DEF TypeOK, Leased
  <2> QED
    BY <1>1, <1>2, <2>1, IdleRecorded, RequestKeeps
<1>3. CASE /\ outbox' = Enqueued(request.root, request.members)
           /\ request' = [request EXCEPT !.pc = "rollouts", !.todo = request.members]
  <2>0. PICK root, M : root = request.root /\ M = request.members
    OBVIOUS
  <2>1. /\ request' \in [pc : {"idle", "remove", "rollouts", "drain"}, root : 0..NThreads,
                         members : SUBSET Threads, todo : SUBSET Threads]
        /\ request'.pc = "rollouts" /\ request'.root = root /\ request'.members = M
        /\ M \subseteq Threads
    BY <1>3, <2>0 DEF TypeOK
  <2>2. Family(root, M) /\ root \in M /\ root \in Threads /\ outbox' = Enqueued(root, M)
    BY <1>1, <1>3, <2>0, <2>1 DEF RequestRecorded, Family
  <2>3. Family(root, M)'
    BY <1>1, <2>2 DEF Family, Closed, Subtree
  <2>4. CASE root \in Queued
    <3>1. outbox' = outbox
      BY <2>2, <2>4 DEF Enqueued
    <3>2. TypeOK' /\ Leased'
      BY <1>1, <2>1, <3>1 DEF TypeOK, Leased
    <3>3. \A t \in M \cap Hosted : row[t] => t \in HostedMembers(outbox[root])
      BY <1>1, <2>0, <2>4 DEF RequestRecorded, WholeBatches
    <3>4. \A t \in M \cap Hosted : row'[t] => Named(t)'
      BY <1>1, <2>2, <3>1, <3>3 DEF Named, HostedMembers
    <3>5. RequestRecorded'
      BY <2>1, <2>3, <3>4 DEF RequestRecorded
    <3> QED
      BY <1>1, <3>1, <3>2, <3>5, RequestKeeps
  <2>5. CASE root \notin Queued
    <3>1. /\ outbox' \in [Threads -> Batches] /\ Queued' = Queued \cup {root}
          /\ outbox'[root].members = M /\ outbox'[root].tried = FALSE
          /\ outbox'[root].ahead = {q \in Queued : ~outbox[q].tried}
          /\ HostedMembers(outbox'[root]) = {t \in M \cap Hosted : row[t]}
          /\ \A r \in Threads \ {root} :
               /\ outbox'[r].members = outbox[r].members /\ outbox'[r].tried = outbox[r].tried
               /\ outbox'[r].ahead = outbox[r].ahead \cup (IF outbox[r].tried THEN {root} ELSE {})
               /\ HostedMembers(outbox'[r]) = HostedMembers(outbox[r])
      <4>1. root \in Threads \ Queued /\ M \in SUBSET Threads /\ root \in M /\ outbox' = Enqueued(root, M)
        BY <2>1, <2>2, <2>5
      <4> HIDE DEF DeletionInvariant
      <4> QED
        BY <4>1, NewBatch, Zenon
    <3>2. TypeOK' /\ Leased'
      BY <1>1, <2>1, <3>1 DEF TypeOK, Leased
    <3>3. HostedMembers(outbox[root]) = {}
      BY <2>2, <2>5 DEF FencedAreMembers, Queued, Roots
    <3>4. \A r \in Threads : HostedMembers(outbox[r]) \subseteq HostedMembers(outbox'[r])
      BY <3>1, <3>3
    <3>5. \A t : Named(t) => Named(t)'
      BY <3>4 DEF Named, HostedMembers
    <3>6. RequestRecorded'
      <4>1. \A t \in M \cap Hosted : row'[t] => Named(t)'
        BY <1>1, <2>2, <3>1 DEF Named, HostedMembers
      <4> QED
        BY <2>1, <2>3, <4>1 DEF RequestRecorded
    <3>7. WholeBatches'
      <4>1. ASSUME NEW r \in Queued, r # root
            PROVE  /\ Family(r, outbox[r].members)'
                   /\ \A t \in outbox'[r].members \cap Hosted : row'[t] => t \in HostedMembers(outbox'[r])
        <5>1. r \in Threads
          BY DEF Queued, Roots
        <5> QED
          BY <1>1, <3>1, <4>1, <5>1 DEF WholeBatches, Family, Closed, Subtree
      <4>2. /\ Family(root, outbox[root].members)'
            /\ \A t \in outbox'[root].members \cap Hosted : row'[t] => t \in HostedMembers(outbox'[root])
        BY <1>1, <2>3, <3>1 DEF Family, Closed, Subtree
      <4> QED
        BY <3>1, <4>1, <4>2 DEF WholeBatches, HostedMembers
    <3>8. FencedAreMembers'
      BY <3>1 DEF FencedAreMembers, HostedMembers
    <3>9. Lined'
      <4>1. ASSUME NEW r \in Threads
            PROVE  /\ outbox'[r].ahead \subseteq Queued' \ {r}
                   /\ r \notin Queued' => ~outbox'[r].tried
                   /\ outbox'[r].tried => {q \in Queued' : ~outbox'[q].tried} \subseteq outbox'[r].ahead
                   /\ ~outbox'[r].tried => \A q \in outbox'[r].ahead : ~outbox'[q].tried
        BY <2>2, <2>5, <3>1 DEF Lined, Queued, Roots
      <4>2. ASSUME NEW r \in Threads, NEW q \in outbox'[r].ahead
            PROVE  outbox'[q].ahead \subseteq outbox'[r].ahead
        <5>0. q \in Threads /\ Queued \subseteq Threads
          BY <3>1, <4>2 DEF Batches, Queued, Roots
        <5>1. CASE r = root
          BY <2>2, <2>5, <3>1, <4>2, <5>0, <5>1 DEF Lined
        <5>2. CASE r # root /\ q = root
          BY <2>2, <2>5, <3>1, <4>2, <5>0, <5>2 DEF Lined
        <5>3. CASE r # root /\ q # root
          BY <2>2, <2>5, <3>1, <4>2, <5>0, <5>3 DEF Lined
        <5> QED
          BY <5>1, <5>2, <5>3
      <4> QED
        BY <4>1, <4>2 DEF Lined
    <3>10. ListedAreGone'
      <4>1. ASSUME NEW d \in Drainers, NEW r \in Roots(drain[d].batches)
            PROVE  HostedMembers(outbox'[r]) \subseteq HostedMembers(drain[d].batches[r])
        <5>1. /\ r \in Threads /\ r \in drain[d].batches[r].members /\ Ready(drain[d].batches[r])
              /\ HostedMembers(outbox[r]) \subseteq HostedMembers(drain[d].batches[r])
          BY DEF ListedAreGone, Roots
        <5>2. CASE r = root
          <6>1. ~row[root]
            BY <5>1, <5>2 DEF Ready
          <6>2. \A t \in M : ~row[t]
            BY <2>2, <6>1, RootLast DEF Family
          <6> QED
            BY <3>1, <5>2, <6>2
        <5>3. CASE r # root
          BY <3>1, <5>1, <5>3
        <5> QED
          BY <5>2, <5>3
      <4> QED
        BY <1>1, <4>1 DEF ListedAreGone, Ready, Roots, HostedMembers
    <3>11. ListedInLine' /\ TakenAreCleared'
      BY <1>1 DEF ListedInLine, TakenAreCleared, Roots, HostedMembers
    <3>12. DeletedIsNamed' /\ ClearedRootsStayGone'
      BY <1>1, <3>5 DEF DeletedIsNamed, ClearedRootsStayGone
    <3> QED
      BY <3>2, <3>6, <3>7, <3>8, <3>9, <3>10, <3>11, <3>12
  <2> QED
    BY <2>4, <2>5
<1> QED
  BY <1>1, <1>2, <1>3

Drains == [pc : {"off", "sleep", "list", "clear", "done"}, batches : [Threads -> Batches],
           root : 0..NThreads, todo : SUBSET Threads, complete : BOOLEAN, pending : BOOLEAN]

(* Rows that go in a closed set leave every family one. *)
LEMMA FamilyShrinks ==
  ASSUME TypeOK, NEW gone \in SUBSET Threads, Closed(gone),
         row' = [t \in Threads |-> row[t] /\ t \notin gone],
         NEW root \in Threads, NEW members \in SUBSET Threads, Family(root, members)
  PROVE  Family(root, members)'
<1>1. \A t \in Threads : row'[t] => row[t] /\ t \notin gone
  OBVIOUS
<1>2. Closed(members)'
  <2>1. ASSUME NEW c \in Threads, Parent[c] \in members, row'[Parent[c]], row'[c]
        PROVE  c \in members
    BY <1>1, <2>1 DEF Family, Closed
  <2> QED
    BY <2>1 DEF Closed
<1>3. ASSUME NEW t \in members, row'[t]
      PROVE  t \in Subtree(root)'
  <2>1. t \in Subtree(root) /\ t \notin gone
    BY <1>1, <1>3 DEF Family
  <2> QED
    BY <2>1, SubtreeShrinks
<1> QED
  BY <1>2, <1>3 DEF Family

LEMMA RowsStep ==
  ASSUME DeletionInvariant, DeleteRows
  PROVE  DeletionInvariant'
<1> USE DEF DeletionInvariant
<1>1. /\ request.pc = "rollouts"
      /\ UNCHANGED <<rollout, record, outbox, refs, runtime, checkpoint, cleanup>>
      /\ \/ request' = Idle /\ UNCHANGED <<row, drain>>
         \/ /\ row' = [t \in Threads |-> row[t] /\ t \notin request.members]
            /\ request' = [request EXCEPT !.pc = "drain"]
            /\ drain' = [drain EXCEPT !["request"].pc = "list"]
  BY DEF DeleteRows, Fail, memory
<1>2. CASE request' = Idle /\ UNCHANGED <<row, drain>>
  <2>1. TypeOK' /\ Leased'
    BY <1>1, <1>2, IdleType DEF TypeOK, Leased
  <2> QED
    BY <1>1, <1>2, <2>1, IdleRecorded, RequestKeeps
<1>3. CASE /\ row' = [t \in Threads |-> row[t] /\ t \notin request.members]
           /\ request' = [request EXCEPT !.pc = "drain"]
           /\ drain' = [drain EXCEPT !["request"].pc = "list"]
  <2>0. PICK gone : gone = request.members
    OBVIOUS
  <2>1. /\ gone \in SUBSET Threads /\ Closed(gone)
        /\ row' = [t \in Threads |-> row[t] /\ t \notin gone]
        /\ \A t \in gone \cap Hosted : row[t] => Named(t)
    BY <1>1, <1>3, <2>0 DEF RequestRecorded, Family, TypeOK
  <2>2. \A t \in Threads : row'[t] => row[t] /\ t \notin gone
    BY <2>1
  <2>3. /\ request' \in [pc : {"idle", "remove", "rollouts", "drain"}, root : 0..NThreads,
                         members : SUBSET Threads, todo : SUBSET Threads]
        /\ request'.pc = "drain"
    BY <1>3 DEF TypeOK
  <2>4. /\ drain' \in [Drainers -> Drains]
        /\ \A d \in Drainers : drain'[d].batches = drain[d].batches
        /\ \A d \in Drainers \ {"request"} : drain'[d] = drain[d]
        /\ drain'["request"].pc = "list"
    <3>1. "request" \in Drainers /\ drain \in [Drainers -> Drains]
      BY DEF Drainers, TypeOK, Drains
    <3>2. drain["request"] \in Drains
      BY <3>1
    <3>3. /\ [drain["request"] EXCEPT !.pc = "list"] \in Drains
          /\ [drain["request"] EXCEPT !.pc = "list"].batches = drain["request"].batches
          /\ [drain["request"] EXCEPT !.pc = "list"].pc = "list"
      BY <3>2 DEF Drains
    <3> QED
      BY <1>3, <3>1, <3>3
  <2>5. row' \in [Threads -> BOOLEAN]
    BY <2>1 DEF TypeOK
  <2>6. TypeOK' /\ Leased'
    BY <1>1, <2>3, <2>4, <2>5 DEF TypeOK, Leased, Drains
  <2>7. Queued' = Queued /\ FencedAreMembers' /\ Lined'
    BY <1>1 DEF Queued, Roots, FencedAreMembers, Lined, HostedMembers
  <2>8. WholeBatches'
    <3>1. ASSUME NEW r \in Queued
          PROVE  /\ Family(r, outbox[r].members)'
                 /\ \A t \in outbox[r].members \cap Hosted : row'[t] => t \in HostedMembers(outbox[r])
      <4>1. r \in Threads /\ outbox[r].members \in SUBSET Threads
        BY DEF Queued, Roots, TypeOK, Batches
      <4>2. Family(r, outbox[r].members)
        BY DEF WholeBatches
      <4>3. PICK members : members = outbox[r].members
        OBVIOUS
      <4>4. Family(r, members)'
        BY <2>1, <4>1, <4>2, <4>3, FamilyShrinks
      <4> QED
        BY <1>1, <2>2, <4>1, <4>3, <4>4 DEF WholeBatches, Family, Closed, Subtree
    <3> QED
      BY <1>1, <2>7, <3>1 DEF WholeBatches, HostedMembers
  <2>9. RequestRecorded'
    BY <2>3 DEF RequestRecorded
  <2>10. ListedAreGone' /\ ListedInLine'
    <3>1. ASSUME NEW d \in Drainers, NEW r \in Roots(drain[d].batches)
          PROVE  Ready(drain[d].batches[r])'
      <4>1. Ready(drain[d].batches[r]) /\ drain[d].batches[r].members \subseteq Threads
        BY DEF ListedAreGone, Roots, TypeOK, Batches
      <4> QED
        BY <2>2, <2>4, <4>1 DEF Ready
    <3> QED
      BY <1>1, <2>4, <3>1 DEF ListedAreGone, ListedInLine, Roots, HostedMembers
  <2>11. TakenAreCleared'
    BY <1>1, <2>4 DEF TakenAreCleared, Roots, HostedMembers
  <2>12. DeletedIsNamed' /\ ClearedRootsStayGone'
    BY <1>1, <2>1, DeletionAssumption DEF DeletedIsNamed, ClearedRootsStayGone, Named, HostedMembers
  <2> QED
    BY <2>6, <2>7, <2>8, <2>9, <2>10, <2>11, <2>12
<1> QED
  BY <1>1, <1>2, <1>3

-------------------------------------------------------------------------------
(* The drains. *)

(* A list a drain may work on. *)
GoodList(batches) ==
  /\ \A r \in Roots(batches) :
       /\ r \in batches[r].members /\ Ready(batches[r])
       /\ HostedMembers(outbox[r]) \subseteq HostedMembers(batches[r])
  /\ \A r \in Threads : /\ r \notin batches[r].ahead
                        /\ \A q \in batches[r].ahead : batches[q].ahead \subseteq batches[r].ahead

(* A drain that has moved on: its list is good, and the members of its      *)
(* batch it has taken are cleared by now.                                   *)
MovedOn(D) ==
  /\ GoodList(D.batches)
  /\ D.pc = "clear" =>
       /\ D.root \in Roots(D.batches)
       /\ D.complete => \A t \in HostedMembers(D.batches[D.root]) \ D.todo : refs'[t].cleared

LEMMA DrainsMove ==
  ASSUME DeletionInvariant, UNCHANGED row,
         \A r \in Threads : HostedMembers(outbox'[r]) \subseteq HostedMembers(outbox[r]),
         \A t \in Threads : refs[t].cleared => refs'[t].cleared,
         \A d \in Drainers : drain'[d] = drain[d] \/ MovedOn(drain'[d])
  PROVE  ListedAreGone' /\ ListedInLine' /\ TakenAreCleared'
<1> USE DEF DeletionInvariant
<1>1. ASSUME NEW d \in Drainers
      PROVE  GoodList(drain'[d].batches)
  <2>1. GoodList(drain[d].batches)
    BY DEF GoodList, ListedAreGone, ListedInLine
  <2> QED
    BY <2>1 DEF MovedOn
<1>2. ListedAreGone'
  <2>1. ASSUME NEW d \in Drainers, NEW r \in Roots(drain'[d].batches)
        PROVE  /\ r \in drain'[d].batches[r].members
               /\ \A t \in drain'[d].batches[r].members : ~row'[t]
               /\ HostedMembers(outbox'[r]) \subseteq HostedMembers(drain'[d].batches[r])
    <3>1. r \in Threads
      BY DEF Roots
    <3> QED
      BY <1>1, <3>1 DEF GoodList, Ready
  <2> QED
    BY <2>1 DEF ListedAreGone, Roots, Ready, HostedMembers
<1>3. ListedInLine'
  BY <1>1 DEF GoodList, ListedInLine
<1>4. TakenAreCleared'
  <2>1. ASSUME NEW d \in Drainers, drain'[d].pc = "clear"
        PROVE  /\ drain'[d].root \in Roots(drain'[d].batches)
               /\ drain'[d].complete =>
                    \A t \in HostedMembers(drain'[d].batches[drain'[d].root]) \ drain'[d].todo :
                      refs'[t].cleared
    <3>1. CASE drain'[d] = drain[d]
      <4>1. \A b : \A t \in HostedMembers(b) : t \in Threads
        BY DEF HostedMembers
      <4> QED
        BY <2>1, <3>1, <4>1 DEF TakenAreCleared
    <3>2. CASE MovedOn(drain'[d])
      BY <2>1, <3>2 DEF MovedOn
    <3> QED
      BY <3>1, <3>2
  <2> QED
    BY <2>1 DEF TakenAreCleared, Roots, HostedMembers
<1> QED
  BY <1>2, <1>3, <1>4

LEMMA EmptyType ==
  /\ NoBatch \in Batches /\ Empty \in [Threads -> Batches] /\ Roots(Empty) = {}
  /\ \A r \in Threads : Empty[r].ahead = {}
<1>1. NoFence \in [lease : 0..MaxLease, rev : Nat]
  BY DeletionAssumption DEF NoFence
<1>2. [t \in Threads |-> NoFence] \in [Threads -> [lease : 0..MaxLease, rev : Nat]]
  BY <1>1
<1>3. NoBatch \in Batches /\ NoBatch.members = {} /\ NoBatch.ahead = {}
  BY <1>2 DEF NoBatch, Batches
<1> QED
  BY <1>3 DEF Empty, Roots

(* A drain without a list. *)
Resting(D) == D \in Drains /\ D.batches = Empty /\ D.pc # "clear"

LEMMA RestingMovedOn == ASSUME NEW D, Resting(D) PROVE MovedOn(D)
<1>1. GoodList(Empty)
  BY EmptyType DEF GoodList
<1> QED
  BY <1>1 DEF Resting, MovedOn

LEMMA RestType ==
  /\ Resting(Off) /\ Resting([Off EXCEPT !.pc = "sleep"]) /\ Resting([Off EXCEPT !.pc = "list"])
  /\ \A pending \in BOOLEAN : Resting([Off EXCEPT !.pc = "done", !.pending = pending])
<1>1. Off \in Drains /\ Off.batches = Empty /\ Off.pc = "off"
  BY EmptyType, DeletionAssumption DEF Off, Drains
<1> HIDE DEF Off
<1> QED
  BY <1>1 DEF Resting, Drains

LEMMA EndsType == ASSUME NEW d, NEW pending \in BOOLEAN PROVE Resting(DrainEnds(d, pending))
  BY RestType DEF DrainEnds

LEMMA NextType ==
  ASSUME NEW d, NEW pending \in BOOLEAN, NEW batches \in [Threads -> Batches], GoodList(batches)
  PROVE  NextBatch(d, batches, pending) \in Drains /\ MovedOn(NextBatch(d, batches, pending))
<1>1. CASE Roots(batches) = {}
  <2>1. NextBatch(d, batches, pending) = DrainEnds(d, pending)
    BY <1>1 DEF NextBatch
  <2> QED
    BY <2>1, EndsType, RestingMovedOn DEF Resting
<1>2. CASE Roots(batches) # {}
  <2>0. PICK next : next = CHOOSE root \in Roots(batches) : batches[root].ahead \cap Roots(batches) = {}
    OBVIOUS
  <2>1. \E root \in Roots(batches) : batches[root].ahead \cap Roots(batches) = {}
    BY <1>2, FirstInLine DEF GoodList
  <2>2. next \in Roots(batches)
    BY <2>0, <2>1
  <2>3. next \in 0..NThreads /\ HostedMembers(batches[next]) \subseteq Threads
    BY <2>2, DeletionAssumption DEF Roots, Threads, HostedMembers
  <2>4. PICK D : D = [pc |-> "clear", batches |-> batches, root |-> next,
                      todo |-> HostedMembers(batches[next]), complete |-> TRUE, pending |-> pending]
    OBVIOUS
  <2>5. NextBatch(d, batches, pending) = D
    BY <1>2, <2>0, <2>4 DEF NextBatch
  <2>6. D \in Drains
    BY <2>3, <2>4 DEF Drains
  <2>7. /\ D.batches = batches /\ D.root = next /\ D.todo = HostedMembers(batches[next])
    BY <2>4
  <2>8. MovedOn(D)
    BY <2>2, <2>7 DEF MovedOn
  <2> QED
    BY <2>5, <2>6, <2>8
<1> QED
  BY <1>1, <1>2

(* A step that leaves the rows, the outbox and the references alone answers *)
(* for the request and the drains.                                          *)
LEMMA DrainKeeps ==
  ASSUME DeletionInvariant, UNCHANGED <<row, outbox, refs>>, TypeOK', Leased', RequestRecorded',
         \A d \in Drainers : drain'[d] = drain[d] \/ MovedOn(drain'[d])
  PROVE  DeletionInvariant'
<1>0. \A r \in Threads : HostedMembers(outbox'[r]) \subseteq HostedMembers(outbox[r])
  OBVIOUS
<1>1. ListedAreGone' /\ ListedInLine' /\ TakenAreCleared'
  BY <1>0, DrainsMove
<1> USE DEF DeletionInvariant
<1>2. WholeBatches' /\ FencedAreMembers' /\ Lined'
  BY DEF WholeBatches, FencedAreMembers, Lined, Family, Closed, Subtree, Queued, Roots, HostedMembers
<1>3. DeletedIsNamed' /\ ClearedRootsStayGone'
  BY DEF DeletedIsNamed, ClearedRootsStayGone, Named, HostedMembers
<1> QED
  BY <1>1, <1>2, <1>3

LEMMA WakeStep ==
  ASSUME DeletionInvariant, NEW l \in Loops, Wake(l)
  PROVE  DeletionInvariant'
<1> USE DEF DeletionInvariant
<1>1. /\ drain' = [drain EXCEPT ![l] = [Off EXCEPT !.pc = "list"]] /\ l \in Drainers
      /\ UNCHANGED <<row, rollout, record, outbox, refs, runtime, checkpoint, cleanup, request>>
  BY DEF Wake, local, memory, Drainers
<1>2. /\ \A d \in Drainers : drain'[d] = drain[d] \/ MovedOn(drain'[d])
      /\ drain' \in [Drainers -> Drains]
  <2>1. Resting([Off EXCEPT !.pc = "list"]) /\ MovedOn([Off EXCEPT !.pc = "list"])
    BY RestType, RestingMovedOn
  <2> QED
    BY <1>1, <2>1 DEF Resting, TypeOK, Drains
<1>3. TypeOK' /\ Leased'
  BY <1>1, <1>2 DEF TypeOK, Leased, Drains
<1>4. RequestRecorded'
  BY <1>1 DEF RequestRecorded, Family, Closed, Subtree, Queued, Roots, Named, HostedMembers
<1> QED
  BY <1>1, <1>2, <1>3, <1>4, DrainKeeps

LEMMA RepliesStep ==
  ASSUME DeletionInvariant, NEW l \in Loops, DeleteReplies(l)
  PROVE  DeletionInvariant'
<1> USE DEF DeletionInvariant
<1>0. PICK D : D = IF drain["request"].pending THEN [Off EXCEPT !.pc = "sleep"] ELSE drain[l]
  OBVIOUS
<1>1. /\ drain' = [drain EXCEPT !["request"] = Off, ![l] = D]
      /\ request' = Idle /\ l \in Drainers /\ "request" \in Drainers /\ l # "request"
      /\ UNCHANGED <<row, rollout, record, outbox, refs, runtime, checkpoint, cleanup>>
  BY <1>0, DeletionAssumption DEF DeleteReplies, local, memory, Drainers
<1>2. /\ \A d \in Drainers : drain'[d] = drain[d] \/ MovedOn(drain'[d])
      /\ drain' \in [Drainers -> Drains]
  <2>1. /\ Resting(Off) /\ Resting([Off EXCEPT !.pc = "sleep"])
        /\ MovedOn(Off) /\ MovedOn([Off EXCEPT !.pc = "sleep"])
    BY RestType, RestingMovedOn
  <2>2. drain \in [Drainers -> Drains]
    BY DEF TypeOK, Drains
  <2>3. D \in Drains /\ (D = drain[l] \/ MovedOn(D))
    BY <1>0, <1>1, <2>1, <2>2 DEF Resting
  <2> QED
    BY <1>1, <2>1, <2>2, <2>3 DEF Resting
<1>3. TypeOK' /\ Leased'
  BY <1>1, <1>2, IdleType DEF TypeOK, Leased, Drains
<1> QED
  BY <1>1, <1>2, <1>3, IdleRecorded, DrainKeeps

LEMMA CrashStep ==
  ASSUME DeletionInvariant, NEW l \in Loops, Crash(l)
  PROVE  DeletionInvariant'
<1> USE DEF DeletionInvariant
<1>1. /\ runtime' = [t \in Threads |-> Gone] /\ checkpoint' = [t \in Threads |-> "off"]
      /\ cleanup' = [t \in Threads |-> NoCleanup] /\ request' = Idle
      /\ drain' = [d \in Drainers |-> IF d = l THEN [Off EXCEPT !.pc = "list"] ELSE Off]
      /\ UNCHANGED <<row, rollout, record, outbox, refs>>
  BY DEF Crash, local
<1>2. /\ \A d \in Drainers : drain'[d] = drain[d] \/ MovedOn(drain'[d])
      /\ drain' \in [Drainers -> Drains]
  <2>1. /\ Resting(Off) /\ Resting([Off EXCEPT !.pc = "list"])
        /\ MovedOn(Off) /\ MovedOn([Off EXCEPT !.pc = "list"])
    BY RestType, RestingMovedOn
  <2> QED
    BY <1>1, <2>1 DEF Resting
<1>3. /\ runtime' \in [Threads -> Runtimes] /\ cleanup' \in [Threads -> Cleanups]
      /\ \A t \in Threads : runtime'[t].at = "none" /\ cleanup'[t].pc = "off"
  <2>1. Gone \in Runtimes /\ Gone.at = "none"
    BY DeletionAssumption DEF Gone, Runtimes
  <2>2. NoCleanup \in Cleanups /\ NoCleanup.pc = "off"
    BY DEF NoCleanup, Cleanups
  <2> QED
    BY <1>1, <2>1, <2>2
<1>4. TypeOK'
  BY <1>1, <1>2, <1>3, IdleType DEF TypeOK, Drains, Cleanups
<1>5. Leased'
  BY <1>1, <1>3 DEF Leased
<1> QED
  BY <1>1, <1>2, <1>4, <1>5, IdleRecorded, DrainKeeps

(* What the outbox lists as ready is good to work on. *)
LEMMA ReadyIsGood ==
  ASSUME DeletionInvariant
  PROVE  ReadyBatches \in [Threads -> Batches] /\ GoodList(ReadyBatches)
<1> USE DEF DeletionInvariant
<1> DEFINE ready == {root \in Queued : Ready(outbox[root])}
           page  == {root \in ready : Cardinality(outbox[root].ahead \cap ready) < Limit}
<1>1. PICK P : P = page /\ P \subseteq ready
  OBVIOUS
<1>2. PICK B : B = [root \in Threads |-> IF root \in P THEN outbox[root] ELSE NoBatch]
  OBVIOUS
<1>3. ReadyBatches = B
  BY <1>1, <1>2 DEF ReadyBatches
<1>4. B \in [Threads -> Batches]
  BY <1>2, EmptyType DEF TypeOK
<1>5. NoBatch.members = {} /\ NoBatch.ahead = {}
  BY DEF NoBatch
<1>6. ASSUME NEW r \in Roots(B)
      PROVE  /\ r \in B[r].members /\ Ready(B[r])
             /\ HostedMembers(outbox[r]) \subseteq HostedMembers(B[r])
  <2>1. r \in Threads /\ r \in P /\ B[r] = outbox[r]
    BY <1>2, <1>5 DEF Roots
  <2>2. r \in Queued /\ Ready(outbox[r])
    BY <1>1, <2>1
  <2> QED
    BY <2>1, <2>2 DEF WholeBatches, Family
<1>7. ASSUME NEW r \in Threads
      PROVE  /\ r \notin B[r].ahead
             /\ \A q \in B[r].ahead : B[q].ahead \subseteq B[r].ahead
  <2>1. CASE r \in P
    <3>1. B[r] = outbox[r]
      BY <1>2, <2>1
    <3>2. ASSUME NEW q \in outbox[r].ahead
          PROVE  B[q].ahead \subseteq outbox[r].ahead
      <4>1. q \in Threads /\ outbox[q].ahead \subseteq outbox[r].ahead
        BY <3>2 DEF Lined, Queued, Roots
      <4> QED
        BY <1>2, <1>5, <4>1
    <3> QED
      BY <3>1, <3>2 DEF Lined
  <2>2. CASE r \notin P
    BY <1>2, <1>5, <2>2
  <2> QED
    BY <2>1, <2>2
<1> QED
  BY <1>3, <1>4, <1>6, <1>7 DEF GoodList

LEMMA ListStep ==
  ASSUME DeletionInvariant, NEW d \in Drainers, DrainList(d)
  PROVE  DeletionInvariant'
<1>0. PICK D : /\ drain' = [drain EXCEPT ![d] = D]
               /\ \/ D = NextBatch(d, ReadyBatches, FullPage(ReadyBatches))
                  \/ D = DrainEnds(d, TRUE)
  BY DEF DrainList
<1>1. UNCHANGED <<row, rollout, record, outbox, refs, runtime, checkpoint, cleanup, request>>
  BY DEF DrainList, local, memory
<1>2. D \in Drains /\ MovedOn(D)
  <2>1. CASE D = DrainEnds(d, TRUE)
    BY <2>1, EndsType, RestingMovedOn DEF Resting
  <2>2. CASE D = NextBatch(d, ReadyBatches, FullPage(ReadyBatches))
    <3>1. FullPage(ReadyBatches) \in BOOLEAN
      BY DEF FullPage
    <3> QED
      BY <2>2, <3>1, ReadyIsGood, NextType
  <2> QED
    BY <1>0, <2>1, <2>2
<1> USE DEF DeletionInvariant
<1>3. /\ \A e \in Drainers : drain'[e] = drain[e] \/ MovedOn(drain'[e])
      /\ drain' \in [Drainers -> Drains]
  BY <1>0, <1>2 DEF TypeOK, Drains
<1>4. TypeOK' /\ Leased'
  BY <1>1, <1>3 DEF TypeOK, Leased, Drains
<1>5. RequestRecorded'
  BY <1>1 DEF RequestRecorded, Family, Closed, Subtree, Queued, Roots, Named, HostedMembers
<1> QED
  BY <1>1, <1>3, <1>4, <1>5, DrainKeeps

LEMMA ClearedType ==
  ASSUME NEW r \in RefRows
  PROVE  Cleared(r) \in RefRows /\ Cleared(r).cleared = TRUE /\ Cleared(r).rooted = FALSE
<1> DEFINE n == IF r.cleared THEN r.rev ELSE r.rev + 1
<1>1. n \in Nat
  BY DEF RefRows
<1>2. Cleared(r) = [r EXCEPT !.rev = n, !.cleared = TRUE, !.rooted = FALSE]
  BY DEF Cleared
<1> HIDE DEF n
<1> QED
  BY <1>1, <1>2 DEF RefRows

LEMMA ClearStep ==
  ASSUME DeletionInvariant, NEW d \in Drainers, DrainClear(d)
  PROVE  DeletionInvariant'
<1> USE DEF DeletionInvariant
<1>0. PICK t, old, next, failed :
        /\ t = Min(drain[d].todo) /\ old = drain[d]
        /\ next = [old EXCEPT !.todo = @ \ {t}]
        /\ failed = [next EXCEPT !.complete = FALSE, !.pending = TRUE]
  OBVIOUS
<1>1. /\ old.pc = "clear" /\ old.todo # {} /\ old = drain[d]
      /\ UNCHANGED <<row, rollout, record, outbox, runtime, checkpoint, cleanup, request>>
      /\ \/ refs' = [refs EXCEPT ![t] = Cleared(@)] /\ drain' = [drain EXCEPT ![d] = next]
         \/ /\ drain' = [drain EXCEPT ![d] = failed]
            /\ refs' = [refs EXCEPT ![t] = Cleared(@)] \/ refs' = refs
  BY <1>0 DEF DrainClear, local, memory
<1>2. old \in Drains /\ t \in Threads /\ t \in old.todo
  <2>1. old \in Drains
    BY <1>0 DEF TypeOK, Drains
  <2>2. old.todo \in SUBSET Nat /\ old.todo \subseteq Threads
    BY <2>1, ThreadsFinite DEF Drains
  <2>3. \E n \in old.todo : \A m \in old.todo : n <= m
    BY <1>1, <2>2, LeastNatural
  <2>4. Min(old.todo) \in old.todo
    BY <2>3 DEF Min
  <2> QED
    BY <1>0, <2>1, <2>2, <2>4
<1>3. /\ next \in Drains /\ next.pc = "clear" /\ next.batches = old.batches /\ next.root = old.root
      /\ next.complete = old.complete /\ next.todo = old.todo \ {t}
  BY <1>0, <1>1, <1>2 DEF Drains
<1>4. /\ failed \in Drains /\ failed.pc = "clear" /\ failed.batches = old.batches
      /\ failed.root = old.root /\ failed.complete = FALSE
  BY <1>0, <1>3 DEF Drains
<1>5. /\ refs' \in [Threads -> RefRows]
      /\ \A u \in Threads \ {t} : refs'[u] = refs[u]
      /\ \A u \in Threads : refs[u].cleared => refs'[u].cleared
      /\ \A u \in Threads : refs'[u] = refs[u] \/ refs'[u].rooted = FALSE
  <2>1. refs \in [Threads -> RefRows]
    BY DEF TypeOK, RefRows, Wants
  <2>2. Cleared(refs[t]) \in RefRows /\ Cleared(refs[t]).cleared /\ Cleared(refs[t]).rooted = FALSE
    BY <1>2, <2>1, ClearedType
  <2>3. CASE refs' = [refs EXCEPT ![t] = Cleared(@)]
    BY <1>2, <2>1, <2>2, <2>3
  <2>4. CASE refs' = refs
    BY <1>2, <2>1, <2>4
  <2> QED
    BY <1>1, <2>3, <2>4
<1>6. GoodList(old.batches) /\ old.root \in Roots(old.batches)
      /\ (old.complete =>
            \A u \in HostedMembers(old.batches[old.root]) \ old.todo : refs[u].cleared)
  BY <1>1 DEF GoodList, ListedAreGone, ListedInLine, TakenAreCleared
<1>7. MovedOn(drain'[d]) /\ drain' \in [Drainers -> Drains]
      /\ \A e \in Drainers \ {d} : drain'[e] = drain[e]
  <2>1. drain \in [Drainers -> Drains]
    BY DEF TypeOK, Drains
  <2>2. CASE refs' = [refs EXCEPT ![t] = Cleared(@)] /\ drain' = [drain EXCEPT ![d] = next]
    <3>1. refs'[t].cleared
      <4>1. refs[t] \in RefRows /\ refs'[t] = Cleared(refs[t])
        BY <1>2, <2>2 DEF TypeOK, RefRows, Wants
      <4> QED
        BY <4>1, ClearedType
    <3>2. \A b : \A u \in HostedMembers(b) : u \in Threads
      BY DEF HostedMembers
    <3>3. MovedOn(next)
      BY <1>3, <1>5, <1>6, <3>1, <3>2 DEF MovedOn
    <3> QED
      BY <1>3, <2>1, <2>2, <3>3
  <2>3. CASE drain' = [drain EXCEPT ![d] = failed]
    <3>1. MovedOn(failed)
      BY <1>4, <1>6 DEF MovedOn
    <3> QED
      BY <1>4, <2>1, <2>3, <3>1
  <2> QED
    BY <1>1, <2>2, <2>3
<1>8. TypeOK' /\ Leased'
  <2>1. refs' \in [Threads -> RefRows] /\ drain' \in [Drainers -> Drains]
    BY <1>5, <1>7
  <2>2. Leased'
    BY <1>1 DEF Leased
  <2> QED
    BY <1>1, <2>1, <2>2 DEF TypeOK, Drains, RefRows, Wants
<1>9. RequestRecorded'
  BY <1>1 DEF RequestRecorded, Family, Closed, Subtree, Queued, Roots, Named, HostedMembers
<1>10. WholeBatches' /\ FencedAreMembers' /\ Lined'
  BY <1>1
  DEF WholeBatches, FencedAreMembers, Lined, Family, Closed, Subtree, Queued, Roots, HostedMembers
<1>11. DeletedIsNamed'
  BY <1>1, <1>5, DeletionAssumption DEF DeletedIsNamed, Named, HostedMembers
<1>12. ClearedRootsStayGone'
  BY <1>5, DeletionAssumption DEF ClearedRootsStayGone
<1>13. \A r \in Threads : HostedMembers(outbox'[r]) \subseteq HostedMembers(outbox[r])
  BY <1>1
<1>14. ListedAreGone' /\ ListedInLine' /\ TakenAreCleared'
  <2> HIDE DEF DeletionInvariant
  <2> QED
    BY <1>1, <1>5, <1>7, <1>13, DrainsMove
<1> QED
  BY <1>8, <1>9, <1>10, <1>11, <1>12, <1>14

LEMMA AheadType ==
  ASSUME NEW b \in Batches, NEW A \in SUBSET Threads
  PROVE  /\ [b EXCEPT !.ahead = A] \in Batches /\ [b EXCEPT !.ahead = A].members = b.members
         /\ [b EXCEPT !.ahead = A].fences = b.fences /\ [b EXCEPT !.ahead = A].tried = b.tried
         /\ [b EXCEPT !.ahead = A].ahead = A
  BY DEF Batches

(* A batch that leaves its place, for good or for the end of the queue. *)
LEMMA BatchMoves ==
  ASSUME DeletionInvariant, NEW root \in Threads,
         outbox' = Completed(root) \/ outbox' = Deferred(root) \/ outbox' = outbox
  PROVE  /\ outbox' \in [Threads -> Batches] /\ FencedAreMembers' /\ Lined'
         /\ \A r \in Threads : HostedMembers(outbox'[r]) \subseteq HostedMembers(outbox[r])
         /\ \A r \in Threads \ {root} : HostedMembers(outbox'[r]) = HostedMembers(outbox[r])
         /\ outbox' \in {Deferred(root), outbox} =>
              \A r \in Threads : HostedMembers(outbox'[r]) = HostedMembers(outbox[r])
         /\ \A r \in Queued' : /\ r \in Queued /\ outbox'[r].members = outbox[r].members
                               /\ HostedMembers(outbox'[r]) = HostedMembers(outbox[r])
<1> USE DEF DeletionInvariant
<1>0. ASSUME NEW r \in Threads
      PROVE  outbox[r] \in Batches
  BY DEF TypeOK
<1>1. CASE outbox' = outbox
  BY <1>1, <1>0 DEF TypeOK, FencedAreMembers, Lined, Queued, Roots, HostedMembers
<1> DEFINE left(r) == [outbox[r] EXCEPT !.ahead = @ \ {root}]
           late    == [left(root) EXCEPT !.tried = TRUE, !.ahead = Queued \ {root}]
<1>2. ASSUME NEW r \in Threads
      PROVE  /\ left(r) \in Batches /\ left(r).members = outbox[r].members
             /\ left(r).fences = outbox[r].fences /\ left(r).tried = outbox[r].tried
             /\ left(r).ahead = outbox[r].ahead \ {root}
  <2>1. outbox[r].ahead \ {root} \in SUBSET Threads
    BY <1>0 DEF Batches
  <2> QED
    BY <1>0, <2>1, AheadType
<1>3. /\ late \in Batches /\ late.members = outbox[root].members
      /\ late.fences = outbox[root].fences /\ late.tried = TRUE
      /\ late.ahead = Queued \ {root}
  <2>1. left(root) \in Batches /\ left(root).members = outbox[root].members
        /\ left(root).fences = outbox[root].fences
    BY <1>2
  <2>2. Queued \ {root} \subseteq Threads
    BY DEF Queued, Roots
  <2> HIDE DEF left
  <2> QED
    BY <2>1, <2>2 DEF Batches
<1>4. /\ NoBatch \in Batches /\ NoBatch.members = {} /\ NoBatch.ahead = {} /\ NoBatch.tried = FALSE
      /\ HostedMembers(NoBatch) = {}
  <2>1. NoBatch.members = {} /\ NoBatch.ahead = {} /\ NoBatch.tried = FALSE
        /\ NoBatch.fences = [t \in Threads |-> NoFence]
    BY DEF NoBatch
  <2> QED
    BY <2>1, EmptyType DEF HostedMembers
<1>5. Completed(root) = [r \in Threads |-> IF r = root THEN NoBatch ELSE left(r)]
  BY DEF Completed, Closing
<1>6. root \in Queued => Deferred(root) = [r \in Threads |-> IF r = root THEN late ELSE left(r)]
  BY DEF Deferred, Closing
<1> HIDE DEF left, late
<1>7. CASE outbox' = Completed(root) /\ outbox' \notin {Deferred(root), outbox}
  <2>1. /\ outbox'[root] = NoBatch
        /\ \A r \in Threads \ {root} : outbox'[r] = left(r)
    BY <1>5, <1>7
  <2>2. outbox' \in [Threads -> Batches]
    BY <1>2, <1>4, <1>5, <1>7
  <2>3. Queued' = Queued \ {root}
    BY <1>2, <1>4, <2>1 DEF Queued, Roots
  <2>4. \A r \in Threads \ {root} :
          /\ outbox'[r].members = outbox[r].members /\ outbox'[r].tried = outbox[r].tried
          /\ outbox'[r].ahead = outbox[r].ahead \ {root} /\ outbox'[r].fences = outbox[r].fences
    BY <1>2, <2>1
  <2>5. /\ HostedMembers(outbox'[root]) = {}
        /\ \A r \in Threads \ {root} : HostedMembers(outbox'[r]) = HostedMembers(outbox[r])
    BY <1>4, <2>1, <2>4 DEF HostedMembers
  <2>6. FencedAreMembers'
    BY <2>4, <2>5 DEF FencedAreMembers, HostedMembers
  <2>7. Lined'
    <3>1. Queued \subseteq Threads
      BY DEF Queued, Roots
    <3>2. ASSUME NEW r \in Threads
          PROVE  /\ outbox'[r].ahead \subseteq Queued' \ {r}
                 /\ \A q \in outbox'[r].ahead : outbox'[q].ahead \subseteq outbox'[r].ahead
                 /\ r \notin Queued' => ~outbox'[r].tried
                 /\ outbox'[r].tried => {q \in Queued' : ~outbox'[q].tried} \subseteq outbox'[r].ahead
                 /\ ~outbox'[r].tried => \A q \in outbox'[r].ahead : ~outbox'[q].tried
      <4>1. CASE r = root
        BY <1>4, <2>1, <4>1
      <4>2. CASE r # root
        BY <2>3, <2>4, <3>1, <4>2 DEF Lined
      <4> QED
        BY <4>1, <4>2
    <3> QED
      BY <3>2 DEF Lined
  <2>8. Queued \subseteq Threads
    BY DEF Queued, Roots
  <2> QED
    BY <1>7, <2>2, <2>3, <2>4, <2>5, <2>6, <2>7, <2>8
<1>8. CASE outbox' = Deferred(root) /\ root \in Queued
  <2>1. /\ outbox'[root] = late
        /\ \A r \in Threads \ {root} : outbox'[r] = left(r)
    BY <1>6, <1>8
  <2>2. outbox' \in [Threads -> Batches]
    BY <1>2, <1>3, <1>6, <1>8
  <2>3. \A r \in Threads \ {root} :
          /\ outbox'[r].members = outbox[r].members /\ outbox'[r].tried = outbox[r].tried
          /\ outbox'[r].ahead = outbox[r].ahead \ {root} /\ outbox'[r].fences = outbox[r].fences
    BY <1>2, <2>1
  <2>4. \A r \in Threads :
          outbox'[r].members = outbox[r].members /\ outbox'[r].fences = outbox[r].fences
    BY <1>3, <2>1, <2>3
  <2>5. Queued' = Queued /\ Queued \subseteq Threads
    BY <2>4 DEF Queued, Roots
  <2>6. \A r \in Threads : HostedMembers(outbox'[r]) = HostedMembers(outbox[r])
    BY <2>4 DEF HostedMembers
  <2>7. FencedAreMembers'
    BY <2>4, <2>6 DEF FencedAreMembers, HostedMembers
  <2>8. Lined'
    <3>1. outbox'[root].tried = TRUE /\ outbox'[root].ahead = Queued \ {root}
      BY <1>3, <2>1
    <3>2. ASSUME NEW r \in Threads
          PROVE  /\ outbox'[r].ahead \subseteq Queued' \ {r}
                 /\ \A q \in outbox'[r].ahead : outbox'[q].ahead \subseteq outbox'[r].ahead
                 /\ r \notin Queued' => ~outbox'[r].tried
                 /\ outbox'[r].tried => {q \in Queued' : ~outbox'[q].tried} \subseteq outbox'[r].ahead
                 /\ ~outbox'[r].tried => \A q \in outbox'[r].ahead : ~outbox'[q].tried
      <4>1. CASE r = root
        BY <1>8, <2>3, <2>5, <3>1, <4>1 DEF Lined
      <4>2. CASE r # root
        BY <2>3, <2>5, <3>1, <4>2 DEF Lined
      <4> QED
        BY <4>1, <4>2
    <3> QED
      BY <3>2 DEF Lined
  <2> QED
    BY <2>2, <2>4, <2>5, <2>6, <2>7, <2>8
<1>9. CASE outbox' = Deferred(root) /\ root \notin Queued
  BY <1>1, <1>9 DEF Deferred
<1> QED
  BY <1>1, <1>7, <1>8, <1>9

LEMMA SettleStep ==
  ASSUME DeletionInvariant, NEW d \in Drainers, DrainSettle(d)
  PROVE  DeletionInvariant'
<1>0. PICK root, old, left :
        /\ root = drain[d].root /\ old = drain[d] /\ left = [old.batches EXCEPT ![root] = NoBatch]
  OBVIOUS
<1>1. /\ old = drain[d] /\ old.pc = "clear" /\ old.todo = {}
      /\ UNCHANGED <<row, rollout, record, refs, runtime, checkpoint, cleanup, request>>
      /\ outbox' = Completed(root) \/ outbox' \in {Deferred(root), outbox}
      /\ outbox' \notin {Deferred(root), outbox} => old.complete
      /\ \/ drain' = [drain EXCEPT ![d] = NextBatch(d, left, old.pending)]
         \/ drain' = [drain EXCEPT ![d] = NextBatch(d, left, TRUE)]
  BY <1>0 DEF DrainSettle, memory, Settled
<1> USE DEF DeletionInvariant
<1>2. /\ old \in Drains /\ GoodList(old.batches) /\ root \in Roots(old.batches) /\ root \in Threads
      /\ old.complete => \A t \in HostedMembers(old.batches[root]) : refs[t].cleared
  <2>1. old \in Drains
    BY <1>0 DEF TypeOK, Drains
  <2>2. GoodList(old.batches)
    BY <1>0 DEF GoodList, ListedAreGone, ListedInLine
  <2> QED
    BY <1>0, <1>1, <2>1, <2>2 DEF TakenAreCleared, Roots
<1>3. left \in [Threads -> Batches] /\ GoodList(left)
  <2>1. old.batches \in [Threads -> Batches]
    BY <1>2 DEF Drains
  <2>2. left \in [Threads -> Batches] /\ left[root] = NoBatch
        /\ \A r \in Threads \ {root} : left[r] = old.batches[r]
    BY <1>0, <1>2, <2>1, EmptyType
  <2>3. NoBatch.members = {} /\ NoBatch.ahead = {}
    BY DEF NoBatch
  <2>4. Roots(left) = Roots(old.batches) \ {root}
    BY <2>2, <2>3 DEF Roots
  <2>5. \A r \in Threads : old.batches[r].ahead \subseteq Threads
    BY <2>1 DEF Batches
  <2>6. Roots(left) \subseteq Threads
    BY DEF Roots
  <2>7. \A r \in Threads : /\ r \notin left[r].ahead
                           /\ \A q \in left[r].ahead : left[q].ahead \subseteq left[r].ahead
    BY <1>2, <2>2, <2>3, <2>5 DEF GoodList
  <2>8. \A r \in Roots(left) : /\ r \in left[r].members /\ Ready(left[r])
                               /\ HostedMembers(outbox[r]) \subseteq HostedMembers(left[r])
    BY <1>2, <2>2, <2>4, <2>6 DEF GoodList
  <2> QED
    BY <2>2, <2>7, <2>8 DEF GoodList
<1>4. /\ \A e \in Drainers : drain'[e] = drain[e] \/ MovedOn(drain'[e])
      /\ drain' \in [Drainers -> Drains]
  <2>1. PICK D : drain' = [drain EXCEPT ![d] = D] /\ D \in Drains /\ MovedOn(D)
    <3>1. old.pending \in BOOLEAN
      BY <1>2 DEF Drains
    <3> QED
      BY <1>1, <1>3, <3>1, NextType
  <2>2. drain \in [Drainers -> Drains]
    BY DEF TypeOK, Drains
  <2> QED
    BY <2>1, <2>2
<1>5. /\ outbox' \in [Threads -> Batches] /\ FencedAreMembers' /\ Lined'
      /\ \A r \in Threads : HostedMembers(outbox'[r]) \subseteq HostedMembers(outbox[r])
      /\ \A r \in Threads \ {root} : HostedMembers(outbox'[r]) = HostedMembers(outbox[r])
      /\ outbox' \in {Deferred(root), outbox} =>
           \A r \in Threads : HostedMembers(outbox'[r]) = HostedMembers(outbox[r])
      /\ \A r \in Queued' : /\ r \in Queued /\ outbox'[r].members = outbox[r].members
                            /\ HostedMembers(outbox'[r]) = HostedMembers(outbox[r])
  <2> HIDE DEF DeletionInvariant
  <2> QED
    BY <1>1, <1>2, BatchMoves
<1>6. TypeOK' /\ Leased'
  BY <1>1, <1>4, <1>5 DEF TypeOK, Leased, Drains
<1>7. ListedAreGone' /\ ListedInLine' /\ TakenAreCleared'
  <2>1. \A t \in Threads : refs[t].cleared => refs'[t].cleared
    BY <1>1
  <2> HIDE DEF DeletionInvariant
  <2> QED
    BY <1>1, <1>4, <1>5, <2>1, DrainsMove
<1>8. WholeBatches'
  <2>1. ASSUME NEW r \in Queued'
        PROVE  /\ Family(r, outbox[r].members)'
               /\ \A t \in outbox'[r].members \cap Hosted : row'[t] => t \in HostedMembers(outbox'[r])
    <3>1. /\ Family(r, outbox[r].members)
          /\ \A t \in outbox[r].members \cap Hosted : row[t] => t \in HostedMembers(outbox[r])
      BY <1>5 DEF WholeBatches
    <3> QED
      BY <1>1, <1>5, <3>1 DEF Family, Closed, Subtree
  <2> QED
    BY <2>1 DEF WholeBatches, HostedMembers
(* Only members of the completed batch lose their fence, and those are      *)
(* cleared and without a row.                                               *)
<1>9. ASSUME NEW t \in Threads, Named(t), row[t] \/ ~refs[t].cleared
      PROVE  Named(t)'
  <2>1. PICK r \in Threads : t \in HostedMembers(outbox[r])
    BY <1>9 DEF Named
  <2>2. CASE r # root \/ outbox' \in {Deferred(root), outbox}
    <3>1. t \in HostedMembers(outbox'[r])
      BY <1>5, <2>1, <2>2
    <3> QED
      BY <3>1 DEF Named, HostedMembers
  <2>3. CASE r = root /\ old.complete
    <3>1. t \in HostedMembers(old.batches[root]) /\ refs[t].cleared
      BY <1>2, <2>1, <2>3 DEF GoodList
    <3>2. ~row[root]
      BY <1>2 DEF GoodList, Ready
    <3>3. t \in outbox[root].members /\ root \in Queued
      BY <1>2, <2>1, <2>3 DEF FencedAreMembers, Queued, Roots
    <3>4. row[t] => t = root
      BY <1>2, <3>2, <3>3, RootLast DEF WholeBatches, Family
    <3> QED
      BY <1>9, <3>1, <3>2, <3>4
  <2> QED
    BY <1>1, <2>2, <2>3
<1>10. RequestRecorded'
  <2>1. ASSUME request.pc \in {"remove", "rollouts"}
        PROVE  Family(request.root, request.members)'
    BY <1>1, <2>1 DEF RequestRecorded, Family, Closed, Subtree
  <2>2. ASSUME request.pc = "remove", request.root \in Queued'
        PROVE  outbox'[request.root].members = request.members
    BY <1>5, <2>2 DEF RequestRecorded
  <2>3. ASSUME request.pc = "rollouts", NEW t \in request.members \cap Hosted, row[t]
        PROVE  Named(t)'
    <3>1. t \in Threads /\ Named(t)
      BY <2>3, DeletionAssumption DEF RequestRecorded
    <3> QED
      BY <1>9, <2>3, <3>1
  <2> QED
    BY <1>1, <2>1, <2>2, <2>3 DEF RequestRecorded
<1>11. DeletedIsNamed' /\ ClearedRootsStayGone'
  <2>1. ASSUME NEW t \in Hosted, ~row'[t], ~refs'[t].cleared
        PROVE  Named(t)'
    <3>1. t \in Threads /\ Named(t) /\ ~refs[t].cleared
      BY <1>1, <2>1, DeletionAssumption DEF DeletedIsNamed
    <3> QED
      BY <1>9, <3>1
  <2> QED
    BY <1>1, <2>1 DEF DeletedIsNamed, ClearedRootsStayGone
<1> QED
  BY <1>5, <1>6, <1>7, <1>8, <1>10, <1>11

-------------------------------------------------------------------------------
(* The whole system. *)

LEMMA StartedType ==
  /\ Durable(Started) \in Runtimes /\ Durable(Started).lease = 1
  /\ Started \in Runtimes /\ Started.lease = 1 /\ Gone \in Runtimes /\ Gone.at = "none"
  /\ Want(Started) \in Wants
<1>1. 0 \in 0..MaxLatest /\ 1 \in 0..MaxLease /\ 0 \in 0..MaxLease
  BY DeletionAssumption
<1>2. Started \in Runtimes /\ Started.lease = 1 /\ Gone \in Runtimes /\ Gone.at = "none"
  BY <1>1 DEF Started, Gone, Runtimes
<1> QED
  BY <1>2, DurableType, WantType

LEMMA DeletionStarts == Init => DeletionInvariant
<1> SUFFICES ASSUME Init PROVE DeletionInvariant
  OBVIOUS
<1>1. /\ row = [t \in Threads |-> TRUE] /\ rollout = [t \in Threads |-> TRUE]
      /\ record = [t \in Threads |-> Durable(Started)] /\ outbox = Empty
      /\ refs = [t \in Threads |-> References(IF t \in Hosted THEN 1 ELSE 0, Want(Started))]
      /\ runtime = [t \in Threads |-> IF t \in Hosted THEN Started ELSE Gone]
      /\ checkpoint = [t \in Threads |-> "off"] /\ cleanup = [t \in Threads |-> NoCleanup]
      /\ request = Idle /\ drain = [d \in Drainers |-> Off]
  BY DEF Init
<1>2. /\ Queued = {} /\ outbox \in [Threads -> Batches]
      /\ \A r \in Threads : outbox[r].ahead = {} /\ HostedMembers(outbox[r]) = {} /\ ~outbox[r].tried
  <2>1. \A r \in Threads : Empty[r] = NoBatch
    BY DEF Empty
  <2>2. NoBatch.ahead = {} /\ NoBatch.tried = FALSE /\ NoBatch.fences = [t \in Threads |-> NoFence]
    BY DEF NoBatch
  <2>3. HostedMembers(NoBatch) = {}
    BY <2>2 DEF HostedMembers
  <2> QED
    BY <1>1, <2>1, <2>2, <2>3, EmptyType DEF Queued
<1>3. /\ refs \in [Threads -> RefRows] /\ \A t \in Threads : ~refs[t].cleared
  <2>1. ASSUME NEW t \in Threads
        PROVE  refs[t] \in RefRows /\ ~refs[t].cleared
    <3>1. PICK n : n = (IF t \in Hosted THEN 1 ELSE 0) /\ n \in Nat
      OBVIOUS
    <3>2. References(n, Want(Started)) \in RefRows /\ ~References(n, Want(Started)).cleared
      BY <3>1, StartedType DEF References, RefRows
    <3> QED
      BY <1>1, <3>1, <3>2
  <2> QED
    BY <1>1, <2>1
<1>4. /\ \A d \in Drainers : drain[d] = Off /\ Off \in Drains /\ Off.pc = "off" /\ Off.batches = Empty
      /\ drain \in [Drainers -> Drains]
  <2>1. Off \in Drains /\ Off.batches = Empty
    BY RestType DEF Resting
  <2>2. Off.pc = "off"
    BY DEF Off
  <2> QED
    BY <1>1, <2>1, <2>2
<1>5. /\ record \in [Threads -> Runtimes] /\ runtime \in [Threads -> Runtimes]
      /\ \A t \in Threads : /\ record[t].lease = 1
                            /\ runtime[t].at # "none" => runtime[t].lease = 1
  BY <1>1, StartedType
<1>6. cleanup \in [Threads -> Cleanups] /\ \A t \in Threads : cleanup[t].pc = "off"
  BY <1>1 DEF NoCleanup, Cleanups
<1>7. TypeOK
  BY <1>1, <1>2, <1>3, <1>4, <1>5, <1>6, IdleType DEF TypeOK, Drains, Cleanups, RefRows, Wants
<1>8. Leased
  BY <1>1, <1>5, <1>6 DEF Leased
<1>9. WholeBatches /\ FencedAreMembers /\ Lined
  BY <1>2 DEF WholeBatches, FencedAreMembers, Lined
<1>10. RequestRecorded
  BY <1>1 DEF RequestRecorded, Idle
<1>11. ListedAreGone /\ ListedInLine /\ TakenAreCleared
  BY <1>4, EmptyType DEF ListedAreGone, ListedInLine, TakenAreCleared
<1>12. DeletedIsNamed /\ ClearedRootsStayGone
  BY <1>1, <1>3, DeletionAssumption DEF DeletedIsNamed, ClearedRootsStayGone
<1> QED
  BY <1>7, <1>8, <1>9, <1>10, <1>11, <1>12 DEF DeletionInvariant

LEMMA DeletionStutters ==
  ASSUME DeletionInvariant, UNCHANGED vars
  PROVE  DeletionInvariant'
<1> USE DEF DeletionInvariant
<1>1. UNCHANGED <<row, rollout, record, outbox, refs, runtime, checkpoint, cleanup, request, drain>>
  BY DEF vars
<1>2. TypeOK' /\ Leased'
  BY <1>1 DEF TypeOK, Leased
<1>3. RequestRecorded'
  BY <1>1 DEF RequestRecorded, Family, Closed, Subtree, Queued, Roots, Named, HostedMembers
<1> QED
  BY <1>1, <1>2, <1>3, RequestKeeps

LEMMA DeletionMoves ==
  ASSUME DeletionInvariant, Next
  PROVE  DeletionInvariant'
<1>1. CASE Hosting
  BY <1>1, HostingStep
<1>2. CASE Deleting
  BY <1>2, BeginStep, RolloutStep, RemovesStep, EnqueuesStep, RowsStep, RepliesStep DEF Deleting
<1>3. CASE \E d \in Drainers : DrainStep(d)
  BY <1>3, ListStep, ClearStep, SettleStep DEF DrainStep
<1>4. CASE \E l \in Loops : Wake(l)
  BY <1>4, WakeStep
<1>5. CASE \E l \in Loops : Crash(l)
  BY <1>5, CrashStep
<1> QED
  BY <1>1, <1>2, <1>3, <1>4, <1>5 DEF Next

(* The outbox, the request and the drains of thread deletion stay in step,  *)
(* whatever fails and wherever the process crashes.                         *)
THEOREM DeletionInvariantHolds == Spec => []DeletionInvariant
<1>1. Init => DeletionInvariant
  BY DeletionStarts
<1>2. DeletionInvariant /\ [Next]_vars => DeletionInvariant'
  BY DeletionMoves, DeletionStutters
<1> QED
  BY <1>1, <1>2, PTL DEF Spec

(* Type correctness of the deletion machinery (thread_delete.rs and         *)
(* thread_deletion_outbox.rs).                                              *)
THEOREM DeletionTypeCorrect == Spec => []TypeOK
<1>1. DeletionInvariant => TypeOK
  BY DEF DeletionInvariant
<1> QED
  BY <1>1, DeletionInvariantHolds, PTL

(* A deleted hosted thread that still has roots at the service is named by  *)
(* a batch of the outbox: an uncleared set is, and a cleared one has none.  *)
THEOREM NoRootIsForgottenHolds == Spec => []NoRootIsForgotten
<1>1. DeletionInvariant => NoRootIsForgotten
  BY DEF DeletionInvariant, DeletedIsNamed, ClearedRootsStayGone, Named, NoRootIsForgotten
<1> QED
  BY <1>1, DeletionInvariantHolds, PTL

(* The tombstone of clear (postgres-reference-retention.ts): no retain that *)
(* was in flight roots a cleared set again.                                 *)
THEOREM ClearedRootsStayGoneHolds == Spec => []ClearedRootsStayGone
<1>1. DeletionInvariant => ClearedRootsStayGone
  BY DEF DeletionInvariant
<1> QED
  BY <1>1, DeletionInvariantHolds, PTL
===============================================================================
