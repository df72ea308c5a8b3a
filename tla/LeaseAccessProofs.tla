-------------------------- MODULE LeaseAccessProofs --------------------------
(***************************************************************************)
(* TLAPS proofs about access to a lease's sandbox, for every set of         *)
(* replicas, workers, keys and connections and every limit.                 *)
(***************************************************************************)
EXTENDS LeaseAccess, TLAPS

(* A transaction that is open over a provider call holds the lease lock, so *)
(* what it read of the lease is still true when it commits.                 *)
LockedLeaseIsStable ==
  \A w \in Workers :
    /\ worker[w].pc = "connecting" => lock = w /\ Reconnectable(lease)
    /\ worker[w].pc = "killed" =>
         lock = w /\ lease.state = "release_pending" /\ sandbox = "gone"

(* A worker about to kill the sandbox follows a release that was begun. *)
KillersRelease ==
  \A w \in Workers :
    /\ worker[w].then \in {"idle", "issuing", "killing"}
    /\ worker[w].pc = "killing" \/ worker[w].then = "killing" =>
         lease.state \in {"release_pending", "released"}

(* No replica closes sockets for a commit that is still to come. *)
BarriersAreReached ==
  /\ \A w \in Workers : worker[w].pc = "revoking" => worker[w].generation <= Barrier(lease)
  /\ \A r \in Replicas : barrier[r] <= Barrier(lease)

(* Only the newest ticket is live. *)
NewestTicketOnly == \A t \in DOMAIN tickets : tickets[t].status = "live" => t = Len(tickets)

(* A connection was admitted on some replica, by a ticket that is used up   *)
(* and that admitted no other one.                                          *)
ConnectionsHaveTickets ==
  /\ \A c \in Conns :
       IF conn[c].phase = "idle" THEN conn[c].ticket = 0
       ELSE /\ conn[c].replica \in Replicas /\ conn[c].ticket \in DOMAIN tickets
            /\ tickets[conn[c].ticket].status = "dead"
  /\ \A c, d \in Conns : conn[c].phase # "idle" /\ conn[c].ticket = conn[d].ticket => c = d

(* The ticket of the last reply exists, with the generation it was given. *)
RepliesHaveTickets ==
  reply.kind = "reconnect" => /\ reply.ticket \in DOMAIN tickets
                              /\ reply.generation = tickets[reply.ticket].generation

(* Every open socket is in its replica's active map, where revoke finds it, *)
(* and one whose last read of the lease passed is not behind the barrier.   *)
OpenSocketsAreListed ==
  \A c \in Conns : conn[c].socket = "open" =>
    /\ conn[c].phase # "idle" /\ c \in active[conn[c].replica]
    /\ conn[c].phase \in {"passed", "ready"} =>
         conn[c].generation >= barrier[conn[c].replica]

(* The inductive invariant. *)
AccessInvariant ==
  /\ TypeOK
  /\ LockedLeaseIsStable /\ KillersRelease /\ BarriersAreReached
  /\ NewestTicketOnly /\ ConnectionsHaveTickets /\ RepliesHaveTickets
  /\ OpenSocketsAreListed

-----------------------------------------------------------------------------
Ticket == [status : {"live", "dead"}, generation : Nat]

WorkerRecord == [pc : WorkerStates, key : Keys \cup {NoKey}, generation : Nat,
                 then : WorkerStates]

WorkerStep(w) ==
  ReconnectStep(w) \/ TicketStep(w) \/ ReleaseStep(w) \/ CloseLocalSockets(w)

(* The statements on the lease row map rows to rows, and none of them lowers *)
(* the barrier of a row it applies to.                                       *)
LEMMA LeaseUpdates ==
  ASSUME NEW l \in Lease
  PROVE  /\ Barrier(l) \in Nat
         /\ CompletedReconnect(l) \in Lease
         /\ MarkedLost(l) \in Lease
         /\ RotatedAccess(l) \in Lease
         /\ BegunRelease(l) \in Lease
         /\ CompletedRelease(l) \in Lease
<1>1. l.generation + 1 \in Nat
  BY DEF Lease
<1> QED
  BY <1>1
     DEF Lease, LeaseStates, Barrier, CompletedReconnect, MarkedLost, RotatedAccess,
         BegunRelease, CompletedRelease

LEMMA BarrierGrows ==
  ASSUME lease \in Lease, [LL!Next]_<<lease, sandbox>>
  PROVE  /\ Barrier(lease) <= Barrier(lease)'
         /\ lease.state \in {"release_pending", "released"} =>
              lease'.state \in {"release_pending", "released"}
         /\ sandbox = "gone" => sandbox' = "gone"
<1>1. lease.generation \in Nat
  BY DEF Lease
<1> QED
  BY <1>1
     DEF LL!Next, LL!Reconnect, LL!RotateAccess, LL!Lose, LL!BeginRelease,
         LL!FinishRelease, LL!SandboxEnds, Lease, Barrier

(* Where a step leaves the worker that takes it. *)
LEMMA GotoWorker ==
  ASSUME TypeOK, NEW w \in Workers, NEW s \in WorkerStates, Goto(w, s)
  PROVE  /\ worker' \in [Workers -> WorkerRecord]
         /\ worker'[w].pc = s /\ worker'[w].then = worker[w].then
         /\ worker'[w].generation = worker[w].generation
         /\ \A v \in Workers \ {w} : worker'[v] = worker[v]
  BY ZenonT(60) DEF TypeOK, Goto, WorkerRecord

LEMMA StopWorker ==
  ASSUME TypeOK, NEW w \in Workers, Stop(w)
  PROVE  /\ worker' \in [Workers -> WorkerRecord]
         /\ worker'[w].pc = "idle" /\ worker'[w].then = "idle"
         /\ \A v \in Workers \ {w} : worker'[v] = worker[v]
  BY DEF TypeOK, Stop, IdleWorker, WorkerRecord, WorkerStates

LEMMA ClosingWorker ==
  ASSUME TypeOK, NEW w \in Workers, NEW l \in Lease, NEW s \in {"idle", "issuing", "killing"},
         CloseSockets(w, l, s)
  PROVE  /\ worker' \in [Workers -> WorkerRecord]
         /\ worker'[w].pc = "revoking" /\ worker'[w].then = s
         /\ worker'[w].generation = Barrier(l)
         /\ \A v \in Workers \ {w} : worker'[v] = worker[v]
<1>1. Barrier(l) \in Nat
  BY LeaseUpdates
<1> QED
  BY <1>1 DEF TypeOK, CloseSockets, WorkerRecord, WorkerStates

(* RevokeTicketsByLeaseId keeps every ticket, dead. *)
LEMMA RevokedTickets ==
  ASSUME tickets \in Seq(Ticket)
  PROVE  /\ Revoked \in Seq(Ticket) /\ Len(Revoked) = Len(tickets)
         /\ \A t \in 1..Len(tickets) :
              Revoked[t].status = "dead" /\ Revoked[t].generation = tickets[t].generation
<1>1. \A t \in 1..Len(tickets) : tickets[t] \in Ticket
  OBVIOUS
<1>2. Revoked \in [1..Len(tickets) -> Ticket]
  BY <1>1 DEF Revoked, Ticket
<1>3. Revoked \in Seq(Ticket) /\ Len(Revoked) = Len(tickets)
  BY <1>2
<1> QED
  BY <1>1, <1>3 DEF Revoked, Ticket

(* What may happen to the tickets: they stay, keep their generation and are  *)
(* never live again, and a live one is the newest.                           *)
TicketMove ==
  /\ tickets' \in Seq(Ticket) /\ Len(tickets) <= Len(tickets')
  /\ \A t \in 1..Len(tickets) :
       /\ tickets'[t].generation = tickets[t].generation
       /\ tickets[t].status = "dead" => tickets'[t].status = "dead"
  /\ \A t \in 1..Len(tickets') : tickets'[t].status = "live" => t = Len(tickets')

LEMMA TicketMoves ==
  ASSUME TypeOK, NewestTicketOnly,
         \/ tickets' = tickets
         \/ tickets' = Revoked
         \/ \E t \in DOMAIN tickets : tickets' = [tickets EXCEPT ![t].status = "dead"]
         \/ tickets' = Append(Revoked, [status |-> "live", generation |-> lease.generation])
  PROVE  TicketMove
<1> USE DEF TicketMove
<1>1. tickets \in Seq(Ticket) /\ \A t \in 1..Len(tickets) : tickets[t] \in Ticket
  <2>1. tickets \in Seq(Ticket)
    BY DEF TypeOK, Ticket
  <2> QED
    BY <2>1
<1>2. CASE tickets' = tickets
  BY <1>1, <1>2 DEF NewestTicketOnly
<1>3. CASE tickets' = Revoked
  BY <1>1, <1>3, RevokedTickets
<1>4. ASSUME NEW t \in DOMAIN tickets, tickets' = [tickets EXCEPT ![t].status = "dead"]
      PROVE  TicketMove
  <2>1. t \in 1..Len(tickets) /\ tickets' \in [1..Len(tickets) -> Ticket]
    <3>1. t \in 1..Len(tickets) /\ DOMAIN tickets = 1..Len(tickets)
      BY <1>1
    <3>2. [tickets[t] EXCEPT !.status = "dead"] \in Ticket
      BY <1>1, <3>1 DEF Ticket
    <3> QED
      BY <1>1, <1>4, <3>1, <3>2
  <2>2. tickets' \in Seq(Ticket) /\ Len(tickets') = Len(tickets)
    BY <1>1, <2>1, SMTT(30)
  <2>3. \A u \in 1..Len(tickets) :
          /\ tickets'[u].generation = tickets[u].generation
          /\ tickets'[u].status = "dead" \/ tickets'[u].status = tickets[u].status
    BY <1>1, <1>4, <2>1 DEF Ticket
  <2> QED
    BY <1>1, <2>2, <2>3, SMTT(30) DEF NewestTicketOnly
<1>5. CASE tickets' = Append(Revoked, [status |-> "live", generation |-> lease.generation])
  <2>1. [status |-> "live", generation |-> lease.generation] \in Ticket
    BY DEF Ticket, TypeOK, Lease
  <2>2. /\ tickets' \in Seq(Ticket) /\ Len(tickets') = Len(tickets) + 1
        /\ \A t \in 1..Len(tickets) : tickets'[t] = Revoked[t]
    BY <1>1, <1>5, <2>1, RevokedTickets
  <2>3. Len(tickets) \in Nat
    BY <1>1
  <2> QED
    BY <1>1, <2>2, <2>3, RevokedTickets
<1> QED
  BY <1>2, <1>3, <1>4, <1>5

-----------------------------------------------------------------------------
(* The disjuncts of Next. *)
LEMMA NextCases ==
  ASSUME Next
  PROVE  \/ \E w \in Workers : WorkerStep(w)
         \/ \E c \in Conns : ConnStep(c)
         \/ \E t \in DOMAIN tickets : TicketExpires(t)
         \/ SandboxLost
         \/ \E r \in Replicas : ReplicaCrash(r)
  BY DEF Next, WorkerStep

(* What a worker is after its own step: it holds the lease lock when it is   *)
(* in the middle of a transaction, and its generation is that of its commit. *)
WorkerMoved(w) ==
  /\ worker' \in [Workers -> WorkerRecord]
  /\ \A v \in Workers \ {w} : worker'[v] = worker[v]
  /\ worker'[w].then \in {"idle", "issuing", "killing"}
  /\ worker'[w].pc = "connecting" =>
       lock' = w /\ Reconnectable(lease) /\ UNCHANGED lease
  /\ worker'[w].pc = "killed" =>
       lock' = w /\ lease.state # "released" /\ worker[w].pc = "killing" /\ sandbox' = "gone"
       /\ UNCHANGED lease
  /\ worker'[w].pc = "killing" \/ worker'[w].then = "killing" =>
       \/ worker[w].then = "killing"
       \/ lease'.state \in {"release_pending", "released"}
  /\ worker'[w].pc = "revoking" => worker'[w].generation <= Barrier(lease)'

LEMMA WorkerGoesOn ==
  ASSUME AccessInvariant, NEW w \in Workers,
         \/ \E s \in {"claimed", "recovering", "replaying", "issuing", "unbound"} : Goto(w, s)
         \/ Goto(w, "killing") /\ lease'.state \in {"release_pending", "released"}
         \/ Stop(w)
         \/ \E k \in Keys, s \in {"claimed", "replaying"} :
              worker' = [worker EXCEPT ![w].pc = s, ![w].key = k]
         \/ /\ lease' \in Lease
            /\ \E s \in {"idle", "issuing"} : CloseSockets(w, lease', s)
         \/ /\ lease' \in Lease /\ lease'.state \in {"release_pending", "released"}
            /\ CloseSockets(w, lease', "killing")
  PROVE  WorkerMoved(w)
<1> USE DEF AccessInvariant, WorkerMoved
<1>1. /\ worker[w].then \in {"idle", "issuing", "killing"} /\ worker[w] \in WorkerRecord
      /\ worker \in [Workers -> WorkerRecord]
  BY DEF TypeOK, KillersRelease, WorkerRecord
<1>2. ASSUME NEW s \in {"claimed", "recovering", "replaying", "issuing", "unbound", "killing"},
             Goto(w, s), s = "killing" => lease'.state \in {"release_pending", "released"}
      PROVE  WorkerMoved(w)
  BY <1>1, <1>2, GotoWorker DEF WorkerStates
<1>3. CASE Stop(w)
  BY <1>3, StopWorker
<1>4. ASSUME NEW k \in Keys, NEW s \in {"claimed", "replaying"},
             worker' = [worker EXCEPT ![w].pc = s, ![w].key = k]
      PROVE  WorkerMoved(w)
  BY <1>1, <1>4 DEF WorkerRecord, WorkerStates
<1>5. ASSUME NEW s \in {"idle", "issuing", "killing"}, CloseSockets(w, lease', s), lease' \in Lease,
             s = "killing" => lease'.state \in {"release_pending", "released"}
      PROVE  WorkerMoved(w)
  <2>1. /\ worker' \in [Workers -> WorkerRecord]
        /\ worker'[w].pc = "revoking" /\ worker'[w].then = s
        /\ worker'[w].generation = Barrier(lease')
        /\ \A v \in Workers \ {w} : worker'[v] = worker[v]
    BY <1>5, ClosingWorker
  <2>2. Barrier(lease') \in Nat /\ Barrier(lease)' = Barrier(lease')
    BY <1>5, LeaseUpdates DEF Barrier
  <2> QED
    BY <1>5, <2>1, <2>2
<1> QED
  BY <1>2, <1>3, <1>4, <1>5

LEMMA ReconnectMovesWorker ==
  ASSUME AccessInvariant, NEW w \in Workers, ReconnectStep(w)
  PROVE  WorkerMoved(w)
<1> USE DEF AccessInvariant
<1>1. /\ lease \in Lease /\ CompletedReconnect(lease) \in Lease /\ MarkedLost(lease) \in Lease
      /\ RotatedAccess(lease) \in Lease
  BY LeaseUpdates DEF TypeOK
<1>2. CASE \E k \in Keys : ClaimReconnect(w, k) \/ TakeOverReconnect(w, k) \/ RetryReconnect(w, k)
  BY <1>2, WorkerGoesOn DEF ClaimReconnect, TakeOverReconnect, RetryReconnect
<1>3. CASE StartReconnect(w)
  <2>1. CASE lock' = w /\ Goto(w, "connecting") /\ Reconnectable(lease) /\ UNCHANGED lease
    BY <2>1, GotoWorker DEF WorkerMoved, WorkerStates, KillersRelease
  <2>2. CASE UNCHANGED lease /\ (CloseSockets(w, lease, "idle") \/ Stop(w))
    BY <1>1, <2>2, WorkerGoesOn
  <2> QED
    BY <1>3, <2>1, <2>2 DEF StartReconnect
<1>4. CASE LostOwnership(w) \/ ReconnectAborts(w) \/ RecoverReconnect(w) \/ ReplayUnavailable(w)
  BY <1>4, WorkerGoesOn
     DEF LostOwnership, ReconnectAborts, RecoverReconnect, ReplayUnavailable
<1>5. CASE ReconnectSucceeds(w) \/ ReconnectFindsMissing(w)
  BY <1>1, <1>5, WorkerGoesOn
     DEF ReconnectSucceeds, ReconnectFindsMissing, CommitReconnect
<1>6. CASE ReplayReconnect(w) \/ ReplayMissing(w)
  BY <1>1, <1>6, WorkerGoesOn DEF ReplayReconnect, ReplayMissing
<1> QED
  BY <1>2, <1>3, <1>4, <1>5, <1>6 DEF ReconnectStep

LEMMA StepMovesWorker ==
  ASSUME AccessInvariant, NEW w \in Workers, WorkerStep(w)
  PROVE  WorkerMoved(w)
<1> USE DEF AccessInvariant
<1>1. /\ lease \in Lease /\ BegunRelease(lease) \in Lease
      /\ BegunRelease(lease).state \in {"release_pending", "released"}
  BY LeaseUpdates DEF TypeOK, BegunRelease, Lease
<1>2. CASE IssueTicketHash(w) \/ IssueFails(w) \/ IssueUnbound(w)
  BY <1>2, WorkerGoesOn DEF IssueTicketHash, IssueFails, IssueUnbound, Issue
<1>3. CASE ReplayProvision(w)
  <2>1. lease.generation \in Nat
    BY <1>1 DEF Lease
  <2>2. /\ worker' \in [Workers -> WorkerRecord]
        /\ worker'[w].pc = "unbound" /\ worker'[w].then = worker[w].then
        /\ \A v \in Workers \ {w} : worker'[v] = worker[v]
    <3>1. worker' = [worker EXCEPT ![w].pc = "unbound", ![w].generation = lease.generation]
      BY <1>3 DEF ReplayProvision
    <3>2. worker \in [Workers -> WorkerRecord]
      BY DEF TypeOK, WorkerRecord
    <3> QED
      BY <2>1, <3>1, <3>2, ZenonT(60) DEF WorkerRecord, WorkerStates
  <2> QED
    BY <2>2 DEF WorkerMoved, KillersRelease
<1>4. CASE BeginRelease(w)
  <2>1. lease' = BegunRelease(lease)
    BY <1>4 DEF BeginRelease
  <2>2. \/ Stop(w) \/ Goto(w, "killing")
        \/ \E s \in {"idle", "killing"} : CloseSockets(w, BegunRelease(lease), s)
    BY <1>4 DEF BeginRelease
  <2> QED
    BY <1>1, <2>1, <2>2, WorkerGoesOn
<1>5. CASE ReleasePreparationFails(w)
  <2>1. lease' = lease /\ 0 <= Barrier(lease)
    BY <1>1, <1>5, LeaseUpdates DEF ReleasePreparationFails
  <2>2. /\ worker' \in [Workers -> WorkerRecord]
        /\ worker'[w].pc = "revoking" /\ worker'[w].then = worker[w].then
        /\ worker'[w].generation = 0
        /\ \A v \in Workers \ {w} : worker'[v] = worker[v]
    BY <1>5, ZenonT(60) DEF ReleasePreparationFails, WorkerRecord, WorkerStates, TypeOK
  <2>3. Barrier(lease)' = Barrier(lease)
    BY <2>1 DEF Barrier
  <2> QED
    BY <2>1, <2>2, <2>3 DEF WorkerMoved, KillersRelease
<1>6. CASE Kill(w)
  <2>1. CASE Stop(w)
    BY <2>1, WorkerGoesOn
  <2>2. CASE /\ lock' = w /\ sandbox' = "gone" /\ Goto(w, "killed") /\ UNCHANGED lease
             /\ worker[w].pc = "killing" /\ lease.state # "released"
    BY <2>2, GotoWorker DEF WorkerMoved, WorkerStates, KillersRelease
  <2> QED
    BY <1>6, <2>1, <2>2 DEF Kill
<1>7. CASE CompleteRelease(w) \/ ReleaseAborts(w)
  BY <1>7, WorkerGoesOn DEF CompleteRelease, ReleaseAborts
<1>8. CASE CloseLocalSockets(w)
  <2>1. CASE Stop(w)
    BY <2>1, WorkerGoesOn
  <2>2. CASE worker[w].then \in {"issuing", "killing"} /\ Goto(w, worker[w].then) /\ lease' = lease
    BY <2>2, WorkerGoesOn DEF KillersRelease
  <2> QED
    BY <1>8, <2>1, <2>2 DEF CloseLocalSockets, KillersRelease
<1> QED
  BY <1>2, <1>3, <1>4, <1>5, <1>6, <1>7, <1>8, ReconnectMovesWorker
     DEF WorkerStep, TicketStep, ReleaseStep

-----------------------------------------------------------------------------
(* A worker changes the lease only while nobody else holds its lock. *)
LEMMA LockIsRespected ==
  ASSUME AccessInvariant, NEW w \in Workers, NEW v \in Workers \ {w}, lock = v, WorkerStep(w)
  PROVE  UNCHANGED <<lock, lease>>
<1> USE DEF AccessInvariant
<1>1. lock # Free /\ lock # w
  BY WorkersAssumption
<1>2. worker[w].pc \notin {"connecting", "killed"}
  BY <1>1 DEF LockedLeaseIsStable
<1> QED
  BY <1>1, <1>2
     DEF WorkerStep, ReconnectStep, TicketStep, ReleaseStep, ClaimReconnect,
         TakeOverReconnect, RetryReconnect, StartReconnect, LostOwnership,
         ReconnectSucceeds, ReconnectFindsMissing, CommitReconnect, ReconnectAborts,
         RecoverReconnect, ReplayReconnect, ReplayMissing, ReplayUnavailable,
         IssueTicketHash, IssueFails, ReplayProvision, IssueUnbound, BeginRelease,
         ReleasePreparationFails, Kill, CompleteRelease, ReleaseAborts, CloseLocalSockets

(* Every step of the model is a step of LeaseLife, or leaves the lease and   *)
(* its sandbox alone.                                                        *)
LEMMA LeaseLifeStep ==
  ASSUME AccessInvariant, [Next]_vars
  PROVE  [LL!Next]_<<lease, sandbox>>
<1> USE DEF AccessInvariant, LL!Next
<1>1. lease \in Lease
  BY DEF TypeOK
<1>2. ASSUME NEW w \in Workers, ReconnectSucceeds(w)
      PROVE  LL!Reconnect
  BY <1>2
     DEF ReconnectSucceeds, CommitReconnect, CompletedReconnect, LockedLeaseIsStable,
         Reconnectable, LL!Reconnect
<1>3. ASSUME NEW w \in Workers, ReconnectFindsMissing(w)
      PROVE  LL!Lose
  BY <1>3
     DEF ReconnectFindsMissing, CommitReconnect, MarkedLost, LockedLeaseIsStable,
         Reconnectable, LL!Lose
<1>4. ASSUME NEW w \in Workers, ReplayReconnect(w)
      PROVE  LL!RotateAccess
  BY <1>4 DEF ReplayReconnect, RotatedAccess, LL!RotateAccess
<1>5. ASSUME NEW w \in Workers, BeginRelease(w)
      PROVE  [LL!Next]_<<lease, sandbox>>
  <2>1. CASE lease.state \in {"released", "release_pending"}
    BY <1>1, <1>5, <2>1 DEF BeginRelease, BegunRelease, Lease
  <2>2. CASE lease.state \notin {"released", "release_pending"}
    BY <1>1, <1>5, <2>2
       DEF BeginRelease, BegunRelease, Lease, LeaseStates, LL!BeginRelease
  <2> QED
    BY <2>1, <2>2
<1>6. ASSUME NEW w \in Workers, Kill(w)
      PROVE  [LL!Next]_<<lease, sandbox>>
  BY <1>6 DEF Kill, TypeOK, LL!SandboxEnds
<1>7. ASSUME NEW w \in Workers, CompleteRelease(w)
      PROVE  LL!FinishRelease
  BY <1>7 DEF CompleteRelease, CompletedRelease, LockedLeaseIsStable, LL!FinishRelease
<1>8. CASE SandboxLost
  BY <1>8 DEF SandboxLost, LL!SandboxEnds
<1>9. CASE \/ \E c \in Conns : ConnStep(c)
           \/ \E t \in DOMAIN tickets : TicketExpires(t)
           \/ \E r \in Replicas : ReplicaCrash(r)
           \/ UNCHANGED vars
  BY <1>9
     DEF ConnStep, ConsumeTicket, ReadTarget, Upgrade, FirstCheck, ExecUpstream,
         UpstreamOpens, UpstreamReady, ConnectionEnds, Revalidate, Check, Proceed, Reject,
         Close, control, TicketExpires, ReplicaCrash, vars
<1>10. ASSUME NEW w \in Workers, WorkerStep(w)
       PROVE  [LL!Next]_<<lease, sandbox>>
  <2>1. CASE \/ \E k \in Keys : ClaimReconnect(w, k) \/ TakeOverReconnect(w, k)
                                \/ RetryReconnect(w, k)
             \/ StartReconnect(w) \/ LostOwnership(w) \/ ReconnectAborts(w)
             \/ RecoverReconnect(w) \/ ReplayMissing(w) \/ ReplayUnavailable(w)
             \/ TicketStep(w) \/ ReleasePreparationFails(w) \/ ReleaseAborts(w)
             \/ CloseLocalSockets(w)
    BY <2>1
       DEF TicketStep, ClaimReconnect, TakeOverReconnect, RetryReconnect, StartReconnect,
           LostOwnership, ReconnectAborts, RecoverReconnect, ReplayMissing,
           ReplayUnavailable, IssueTicketHash, IssueFails, ReplayProvision, IssueUnbound,
           ReleasePreparationFails, ReleaseAborts, CloseLocalSockets
  <2> QED
    BY <1>2, <1>3, <1>4, <1>5, <1>6, <1>7, <1>10, <2>1
       DEF WorkerStep, ReconnectStep, ReleaseStep
<1> QED
  BY <1>8, <1>9, <1>10, NextCases

(* The lease side of the invariant is kept. *)
LEMMA LeaseInvariantStep ==
  ASSUME AccessInvariant, [Next]_vars
  PROVE  /\ worker' \in [Workers -> WorkerRecord] /\ lease' \in Lease
         /\ LockedLeaseIsStable' /\ KillersRelease'
         /\ \A w \in Workers : worker'[w].pc = "revoking" =>
              worker'[w].generation <= Barrier(lease)'
<1> USE DEF AccessInvariant
<1>1. /\ Barrier(lease) <= Barrier(lease)' /\ Barrier(lease) \in Nat
      /\ lease.state \in {"release_pending", "released"} =>
           lease'.state \in {"release_pending", "released"}
      /\ sandbox = "gone" => sandbox' = "gone"
  BY BarrierGrows, LeaseLifeStep, LeaseUpdates DEF TypeOK
<1>2. lease' \in Lease
  <2>1. lease \in Lease /\ [LL!Next]_<<lease, sandbox>>
    BY LeaseLifeStep DEF TypeOK
  <2>2. lease.generation + 1 \in Nat
    BY <2>1 DEF Lease
  <2> QED
    BY <2>1, <2>2
       DEF LL!Next, LL!Reconnect, LL!RotateAccess, LL!Lose, LL!BeginRelease,
           LL!FinishRelease, LL!SandboxEnds, Lease, LeaseStates
<1>3. ASSUME NEW w \in Workers, WorkerStep(w)
      PROVE  /\ worker' \in [Workers -> WorkerRecord]
             /\ LockedLeaseIsStable' /\ KillersRelease'
             /\ \A v \in Workers : worker'[v].pc = "revoking" =>
                  worker'[v].generation <= Barrier(lease)'
  <2>1. WorkerMoved(w)
    BY <1>3, StepMovesWorker
  <2>2. \A v \in Workers \ {w} : lock = v => UNCHANGED <<lock, lease>>
    BY <1>3, LockIsRespected
  <2>3. LockedLeaseIsStable'
    <3>1. ASSUME NEW v \in Workers \ {w}
          PROVE  /\ worker'[v].pc = "connecting" => lock' = v /\ Reconnectable(lease)'
                 /\ worker'[v].pc = "killed" =>
                      lock' = v /\ lease'.state = "release_pending" /\ sandbox' = "gone"
      BY <1>1, <2>1, <2>2 DEF LockedLeaseIsStable, WorkerMoved, Reconnectable
    <3>2. /\ worker'[w].pc = "connecting" => lock' = w /\ Reconnectable(lease)'
          /\ worker'[w].pc = "killed" =>
               lock' = w /\ lease'.state = "release_pending" /\ sandbox' = "gone"
      BY <2>1 DEF KillersRelease, WorkerMoved, Reconnectable
    <3> QED
      BY <3>1, <3>2 DEF LockedLeaseIsStable
  <2>4. KillersRelease'
    BY <1>1, <2>1 DEF KillersRelease, WorkerMoved
  <2>5. \A v \in Workers \ {w} : worker'[v].pc = "revoking" =>
          worker'[v].generation <= Barrier(lease)'
    <3>1. \A v \in Workers : worker[v].generation \in Nat
      BY DEF TypeOK
    <3>2. Barrier(lease)' \in Nat
      BY <1>2, LeaseUpdates
    <3> QED
      BY <1>1, <2>1, <3>1, <3>2 DEF BarriersAreReached, WorkerMoved
  <2> QED
    BY <2>1, <2>3, <2>4, <2>5 DEF WorkerMoved
<1>4. CASE \E r \in Replicas : ReplicaCrash(r)
  <2>1. PICK r \in Replicas : ReplicaCrash(r)
    BY <1>4
  <2>2. /\ worker' \in [Workers -> WorkerRecord] /\ UNCHANGED <<lease, sandbox>>
        /\ \A w \in Workers : \/ worker'[w].pc = "idle" /\ worker'[w].then = "idle"
                              \/ worker'[w] = worker[w] /\ (lock = w => lock' = lock)
    BY <2>1 DEF ReplicaCrash, TypeOK, WorkerRecord, WorkerStates, IdleWorker
  <2>3. Barrier(lease)' = Barrier(lease)
    BY <2>2 DEF Barrier
  <2>4. LockedLeaseIsStable' /\ KillersRelease'
    BY <2>2 DEF LockedLeaseIsStable, KillersRelease, Reconnectable
  <2> QED
    BY <1>2, <2>2, <2>3, <2>4 DEF BarriersAreReached
<1>5. CASE \/ \E c \in Conns : ConnStep(c)
           \/ \E t \in DOMAIN tickets : TicketExpires(t)
           \/ SandboxLost
           \/ UNCHANGED vars
  <2>1. UNCHANGED <<worker, lease, lock>>
    BY <1>5
       DEF ConnStep, ConsumeTicket, ReadTarget, Upgrade, FirstCheck, ExecUpstream,
           UpstreamOpens, UpstreamReady, ConnectionEnds, Revalidate, Check, Proceed,
           Reject, Close, control, TicketExpires, SandboxLost, vars
  <2>2. Barrier(lease)' = Barrier(lease)
    BY <2>1 DEF Barrier
  <2>3. LockedLeaseIsStable' /\ KillersRelease'
    BY <1>1, <2>1 DEF LockedLeaseIsStable, KillersRelease, Reconnectable
  <2> QED
    BY <1>2, <2>1, <2>2, <2>3 DEF BarriersAreReached, TypeOK, WorkerRecord
<1> QED
  BY <1>2, <1>3, <1>4, <1>5, NextCases

-----------------------------------------------------------------------------
(* A step of a worker that leaves the gateways alone. *)
LEMMA WorkerKeepsGateway ==
  ASSUME NEW w \in Workers, WorkerStep(w), ~CloseLocalSockets(w)
  PROVE  UNCHANGED <<conn, active, barrier>>
  BY DEF WorkerStep, ReconnectStep, TicketStep, ReleaseStep, ClaimReconnect,
         TakeOverReconnect, RetryReconnect, StartReconnect, LostOwnership,
         ReconnectSucceeds, ReconnectFindsMissing, CommitReconnect, ReconnectAborts,
         RecoverReconnect, ReplayReconnect, ReplayMissing, ReplayUnavailable,
         IssueTicketHash, IssueFails, ReplayProvision, IssueUnbound, BeginRelease,
         ReleasePreparationFails, Kill, CompleteRelease, ReleaseAborts, gateway

(* What a worker's step does to the tickets and to the last reply. *)
LEMMA WorkerMovesTickets ==
  ASSUME NEW w \in Workers, WorkerStep(w)
  PROVE  \/ tickets' \in {tickets, Revoked} /\ UNCHANGED reply
         \/ /\ tickets' = Append(Revoked, [status |-> "live", generation |-> lease.generation])
            /\ \E kind \in {"reconnect", "provision"} :
                 /\ reply' = [kind |-> kind, generation |-> worker[w].generation,
                              ticket |-> Len(tickets) + 1]
                 /\ kind = "reconnect" => lease.generation = worker[w].generation
  BY DEF WorkerStep, ReconnectStep, TicketStep, ReleaseStep, ClaimReconnect,
         TakeOverReconnect, RetryReconnect, StartReconnect, LostOwnership,
         ReconnectSucceeds, ReconnectFindsMissing, CommitReconnect, ReconnectAborts,
         RecoverReconnect, ReplayReconnect, ReplayMissing, ReplayUnavailable,
         IssueTicketHash, IssueFails, ReplayProvision, IssueUnbound, Issue, BeginRelease,
         ReleasePreparationFails, Kill, CompleteRelease, ReleaseAborts, CloseLocalSockets

(* The ticket a step appends is at the position its reply names. *)
LEMMA AppendedTicket ==
  ASSUME TypeOK,
         tickets' = Append(Revoked, [status |-> "live", generation |-> lease.generation])
  PROVE  /\ Len(tickets) + 1 \in DOMAIN tickets' /\ Len(tickets) + 1 \in Nat
         /\ tickets'[Len(tickets) + 1].generation = lease.generation
<1>1. tickets \in Seq(Ticket)
  BY DEF TypeOK, Ticket
<1>2. Revoked \in Seq(Ticket) /\ Len(Revoked) = Len(tickets)
  BY <1>1, RevokedTickets
<1>3. [status |-> "live", generation |-> lease.generation] \in Ticket
  BY DEF TypeOK, Lease, Ticket
<1>4. Len(tickets') = Len(tickets) + 1 /\ tickets' \in Seq(Ticket)
  BY <1>2, <1>3
<1>5. tickets'[Len(tickets) + 1] = [status |-> "live", generation |-> lease.generation]
  BY <1>2, <1>3
<1> QED
  BY <1>1, <1>4, <1>5

ConnRecord == [phase : Phases, socket : {"none", "open", "closing"},
               replica : Replicas \cup {NoKey}, ticket : Nat, generation : Nat]

(* What every step but an admission does to a connection: it ends, or it     *)
(* keeps its ticket and its replica.                                         *)
ConnectionsMoved ==
  /\ conn' \in [Conns -> ConnRecord]
  /\ \A c \in Conns :
       \/ conn'[c].phase = "idle" /\ conn'[c].ticket = 0 /\ conn'[c].socket = "none"
       \/ /\ conn'[c].phase = "idle" <=> conn[c].phase = "idle"
          /\ conn'[c].ticket = conn[c].ticket /\ conn'[c].replica = conn[c].replica
          /\ conn'[c].generation = conn[c].generation

LEMMA ConnectionEnded ==
  ASSUME TypeOK, NEW c \in Conns, conn' = [conn EXCEPT ![c] = IdleConn]
  PROVE  /\ ConnectionsMoved
         /\ conn'[c].socket = "none" /\ \A d \in Conns \ {c} : conn'[d] = conn[d]
<1>1. conn \in [Conns -> ConnRecord] /\ IdleConn \in ConnRecord
  BY DEF TypeOK, ConnRecord, IdleConn, Phases
<1>2. IdleConn.phase = "idle" /\ IdleConn.ticket = 0 /\ IdleConn.socket = "none"
  BY DEF IdleConn
<1> QED
  BY <1>1, <1>2 DEF ConnectionsMoved

LEMMA ConnectionProceeds ==
  ASSUME TypeOK, NEW c \in Conns, NEW s \in Phases \ {"idle"}, conn[c].phase # "idle",
         NEW k \in {"none", "open", "closing"},
         \/ conn' = [conn EXCEPT ![c].phase = s] /\ k = conn[c].socket
         \/ conn' = [conn EXCEPT ![c].phase = s, ![c].socket = k]
  PROVE  /\ ConnectionsMoved
         /\ conn'[c].phase = s /\ conn'[c].socket = k
         /\ conn'[c].replica = conn[c].replica /\ conn'[c].generation = conn[c].generation
         /\ \A d \in Conns \ {c} : conn'[d] = conn[d]
<1>1. conn \in [Conns -> ConnRecord]
  BY DEF TypeOK, ConnRecord
<1> QED
  BY <1>1 DEF ConnectionsMoved, ConnRecord

-----------------------------------------------------------------------------
(* What every step establishes about the gateways. *)
GatewayKept ==
  /\ active' \in [Replicas -> SUBSET Conns] /\ barrier' \in [Replicas -> Nat]
  /\ \A r \in Replicas : barrier'[r] <= Barrier(lease)'
  /\ OpenSocketsAreListed'

(* The barriers and the lease they are compared with are left alone. *)
LEMMA SameBarriers ==
  ASSUME AccessInvariant, UNCHANGED <<barrier, lease>>
  PROVE  barrier' \in [Replicas -> Nat] /\ \A r \in Replicas : barrier'[r] <= Barrier(lease)'
  BY DEF AccessInvariant, TypeOK, BarriersAreReached, Barrier

(* A connection's own steps. *)
LEMMA ConnKeepsGateway ==
  ASSUME AccessInvariant, NEW c \in Conns,
         ConnStep(c), ~(\E r \in Replicas, t \in DOMAIN tickets : ConsumeTicket(c, r, t))
  PROVE  ConnectionsMoved /\ GatewayKept /\ UNCHANGED <<tickets, reply>>
<1> USE DEF AccessInvariant
<1>1. UNCHANGED <<barrier, lease, lock, tickets, reconnect, sandbox, worker, reply>>
  BY DEF ConnStep, ReadTarget, Upgrade, FirstCheck, ExecUpstream, UpstreamOpens,
         UpstreamReady, ConnectionEnds, Revalidate, Check, Proceed, Reject, Close, control
<1>2. CASE Reject(c) \/ Close(c)
  <2>1. /\ ConnectionsMoved
        /\ conn'[c].socket = "none" /\ \A d \in Conns \ {c} : conn'[d] = conn[d]
    BY <1>2, ConnectionEnded DEF Reject, Close, Cleanup
  <2>2. /\ active' \in [Replicas -> SUBSET Conns]
        /\ \A r \in Replicas : active[r] \ {c} \subseteq active'[r]
    BY <1>2 DEF Reject, Close, Cleanup, TypeOK
  <2>3. OpenSocketsAreListed'
    BY <1>1, <2>1, <2>2 DEF OpenSocketsAreListed, ConnectionsHaveTickets
  <2> QED
    BY <1>1, <2>1, <2>2, <2>3, SameBarriers DEF GatewayKept
<1>3. ASSUME NEW s \in Phases \ {"idle"}, conn[c].phase # "idle", Proceed(c, s),
             s = "passed" => SameTarget(c), s = "ready" => conn[c].phase = "passed"
      PROVE  ConnectionsMoved /\ GatewayKept
  <2>1. /\ conn' = [conn EXCEPT ![c].phase = s] /\ UNCHANGED active
        /\ conn[c].socket \in {"none", "open", "closing"}
    BY <1>3 DEF Proceed, TypeOK
  <2>2. /\ ConnectionsMoved
        /\ conn'[c].phase = s /\ conn'[c].socket = conn[c].socket
        /\ conn'[c].replica = conn[c].replica /\ conn'[c].generation = conn[c].generation
        /\ \A d \in Conns \ {c} : conn'[d] = conn[d]
    BY <1>3, <2>1, ConnectionProceeds
  <2>3. s = "passed" => conn[c].generation >= barrier[conn[c].replica]
    <3>1. SameTarget(c) => conn[c].generation = Barrier(lease)
      BY DEF SameTarget, Barrier
    <3>2. conn[c].replica \in Replicas
      BY <1>3 DEF ConnectionsHaveTickets
    <3>3. barrier[conn[c].replica] <= Barrier(lease)
      BY <3>2 DEF BarriersAreReached
    <3> QED
      BY <1>3, <3>1, <3>3
  <2>4. OpenSocketsAreListed'
    BY <1>1, <1>3, <2>1, <2>2, <2>3 DEF OpenSocketsAreListed
  <2> QED
    BY <1>1, <2>1, <2>2, <2>4, SameBarriers DEF GatewayKept, TypeOK
<1>4. CASE /\ conn[c].phase = "targeted"
           /\ conn' = [conn EXCEPT ![c].phase = "proxied", ![c].socket = "open"]
           /\ active' = [active EXCEPT ![conn[c].replica] = @ \cup {c}]
  <2>1. /\ ConnectionsMoved
        /\ conn'[c].phase = "proxied" /\ conn'[c].replica = conn[c].replica
        /\ \A d \in Conns \ {c} : conn'[d] = conn[d]
    BY <1>4, ConnectionProceeds DEF Phases
  <2>2. conn[c].replica \in Replicas
    BY <1>4 DEF ConnectionsHaveTickets
  <2>3. /\ active' \in [Replicas -> SUBSET Conns] /\ c \in active'[conn[c].replica]
        /\ \A r \in Replicas : active[r] \subseteq active'[r]
    BY <1>4, <2>2 DEF TypeOK
  <2>4. OpenSocketsAreListed'
    BY <1>1, <2>1, <2>2, <2>3 DEF OpenSocketsAreListed, ConnectionsHaveTickets
  <2> QED
    BY <1>1, <2>1, <2>3, <2>4, SameBarriers DEF GatewayKept
<1>5. \/ Reject(c) \/ Close(c)
      \/ /\ conn[c].phase = "targeted"
         /\ conn' = [conn EXCEPT ![c].phase = "proxied", ![c].socket = "open"]
         /\ active' = [active EXCEPT ![conn[c].replica] = @ \cup {c}]
      \/ \E s \in Phases \ {"idle"} :
           /\ conn[c].phase # "idle" /\ Proceed(c, s)
           /\ s = "passed" => SameTarget(c)
           /\ s = "ready" => conn[c].phase = "passed"
  <2>1. CASE ReadTarget(c)
    BY <2>1 DEF ReadTarget, Phases
  <2>2. CASE Upgrade(c)
    BY <2>2 DEF Upgrade
  <2>3. CASE FirstCheck(c) \/ ExecUpstream(c) \/ UpstreamOpens(c) \/ UpstreamReady(c)
    BY <2>3 DEF FirstCheck, ExecUpstream, UpstreamOpens, UpstreamReady, Check, Phases
  <2>4. CASE ConnectionEnds(c) \/ Revalidate(c)
    BY <2>4 DEF ConnectionEnds, Revalidate
  <2> QED
    BY <2>1, <2>2, <2>3, <2>4 DEF ConnStep
<1> QED
  BY <1>1, <1>2, <1>3, <1>4, <1>5

(* The admission of a connection by a live ticket, which it uses up. *)
LEMMA AdmissionKeepsGateway ==
  ASSUME AccessInvariant, NEW c \in Conns, NEW r \in Replicas, NEW t \in DOMAIN tickets,
         ConsumeTicket(c, r, t)
  PROVE  /\ conn' \in [Conns -> ConnRecord] /\ GatewayKept /\ UNCHANGED reply
         /\ conn'[c].phase # "idle" /\ conn'[c].replica = r /\ conn'[c].ticket = t
         /\ \A d \in Conns \ {c} : conn'[d] = conn[d]
<1> USE DEF AccessInvariant
<1>1. UNCHANGED <<barrier, active, lease, reply>>
  BY DEF ConsumeTicket
<1>2. t \in Nat /\ lease.generation \in Nat
  BY DEF TypeOK, Lease
<1>3. [phase |-> "validated", socket |-> "none", replica |-> r, ticket |-> t,
       generation |-> lease.generation] \in ConnRecord
  BY <1>2 DEF ConnRecord, Phases
<1>4. conn \in [Conns -> ConnRecord]
  BY DEF TypeOK, ConnRecord
<1>5. /\ conn' \in [Conns -> ConnRecord]
      /\ conn'[c].phase = "validated" /\ conn'[c].replica = r /\ conn'[c].ticket = t
      /\ conn'[c].socket = "none"
      /\ \A d \in Conns \ {c} : conn'[d] = conn[d]
  BY <1>3, <1>4 DEF ConsumeTicket
<1>6. OpenSocketsAreListed'
  BY <1>1, <1>5 DEF OpenSocketsAreListed
<1> QED
  BY <1>1, <1>5, <1>6, SameBarriers DEF GatewayKept, TypeOK

(* A replica closes its sockets after a commit: whatever was let through    *)
(* under an older access is in its active map and closes with it.           *)
LEMMA ClosingKeepsGateway ==
  ASSUME AccessInvariant, NEW w \in Workers, CloseLocalSockets(w)
  PROVE  ConnectionsMoved /\ GatewayKept
<1> USE DEF AccessInvariant
<1> DEFINE r == Home[w]
<1>1. r \in Replicas /\ UNCHANGED <<lease, lock, tickets, reconnect, sandbox, reply>>
  BY WorkersAssumption DEF CloseLocalSockets
<1>2. /\ conn' \in [Conns -> ConnRecord]
      /\ \A c \in Conns :
           /\ conn'[c].phase = conn[c].phase /\ conn'[c].ticket = conn[c].ticket
           /\ conn'[c].replica = conn[c].replica /\ conn'[c].generation = conn[c].generation
           /\ conn'[c].socket = IF c \in active[r] THEN "closing" ELSE conn[c].socket
  <2>1. conn \in [Conns -> ConnRecord]
    BY DEF TypeOK, ConnRecord
  <2>2. conn' = [c \in Conns |-> IF c \in active[r]
                                   THEN [conn[c] EXCEPT !.socket = "closing"] ELSE conn[c]]
    BY DEF CloseLocalSockets
  <2> QED
    BY <2>1, <2>2 DEF ConnRecord
<1>3. /\ active' \in [Replicas -> SUBSET Conns]
      /\ \A q \in Replicas \ {r} : active'[q] = active[q]
  BY <1>1 DEF CloseLocalSockets, TypeOK
<1>4. /\ barrier' \in [Replicas -> Nat]
      /\ barrier'[r] = barrier[r] \/ barrier'[r] = worker[w].generation
      /\ \A q \in Replicas \ {r} : barrier'[q] = barrier[q]
  BY <1>1 DEF CloseLocalSockets, TypeOK
<1>5. \A q \in Replicas : barrier'[q] <= Barrier(lease)'
  BY <1>1, <1>4 DEF BarriersAreReached, CloseLocalSockets, Barrier
<1>6. OpenSocketsAreListed'
  <2>1. ASSUME NEW c \in Conns, conn'[c].socket = "open"
        PROVE  conn[c].socket = "open" /\ conn[c].replica \in Replicas \ {r}
    BY <1>2, <2>1 DEF OpenSocketsAreListed, ConnectionsHaveTickets
  <2> QED
    BY <1>2, <1>3, <1>4, <2>1 DEF OpenSocketsAreListed
<1> QED
  BY <1>2, <1>3, <1>4, <1>5, <1>6 DEF ConnectionsMoved, GatewayKept

(* A replica that stops loses its connections. *)
LEMMA CrashKeepsGateway ==
  ASSUME AccessInvariant, NEW r \in Replicas, ReplicaCrash(r)
  PROVE  ConnectionsMoved /\ GatewayKept
<1> USE DEF AccessInvariant
<1>1. UNCHANGED <<lease, barrier>>
  BY DEF ReplicaCrash
<1>2. /\ conn' \in [Conns -> ConnRecord]
      /\ \A c \in Conns :
           \/ conn'[c].phase = "idle" /\ conn'[c].ticket = 0 /\ conn'[c].socket = "none"
           \/ conn'[c] = conn[c] /\ conn[c].replica # r
  BY DEF ReplicaCrash, TypeOK, ConnRecord, IdleConn, Phases
<1>3. /\ active' \in [Replicas -> SUBSET Conns]
      /\ \A q \in Replicas \ {r} : active'[q] = active[q]
  BY DEF ReplicaCrash, TypeOK
<1>4. OpenSocketsAreListed'
  BY <1>1, <1>2, <1>3 DEF OpenSocketsAreListed, ConnectionsHaveTickets
<1> QED
  BY <1>1, <1>2, <1>3, <1>4, SameBarriers DEF ConnectionsMoved, GatewayKept

-----------------------------------------------------------------------------
(* Connections keep their tickets, which stay used up. *)
LEMMA ConnectionsKeepTickets ==
  ASSUME AccessInvariant, TicketMove, ConnectionsMoved
  PROVE  ConnectionsHaveTickets'
<1> USE DEF AccessInvariant
<1>1. tickets \in Seq(Ticket) /\ tickets' \in Seq(Ticket)
  BY DEF TypeOK, Ticket, TicketMove
<1>2. DOMAIN tickets = 1..Len(tickets) /\ DOMAIN tickets' = 1..Len(tickets')
  BY <1>1
<1>3. Len(tickets) \in Nat /\ Len(tickets') \in Nat
  BY <1>1
<1>4. ASSUME NEW c \in Conns, conn'[c].phase # "idle"
      PROVE  /\ conn[c].phase # "idle" /\ conn'[c].ticket = conn[c].ticket
             /\ conn'[c].replica \in Replicas /\ conn'[c].ticket \in DOMAIN tickets'
             /\ tickets'[conn'[c].ticket].status = "dead" /\ conn'[c].ticket # 0
  <2>1. /\ conn[c].phase # "idle" /\ conn'[c].ticket = conn[c].ticket
        /\ conn'[c].replica = conn[c].replica
    BY <1>4 DEF ConnectionsMoved
  <2>2. /\ conn[c].replica \in Replicas /\ conn[c].ticket \in 1..Len(tickets)
        /\ tickets[conn[c].ticket].status = "dead"
    BY <1>2, <2>1 DEF ConnectionsHaveTickets
  <2>3. /\ Len(tickets) <= Len(tickets')
        /\ \A t \in 1..Len(tickets) : tickets[t].status = "dead" => tickets'[t].status = "dead"
    BY DEF TicketMove
  <2>4. conn[c].ticket \in 1..Len(tickets') /\ conn[c].ticket # 0
    BY <1>3, <2>2, <2>3
  <2> QED
    BY <1>2, <2>1, <2>2, <2>3, <2>4
<1>5. \A c \in Conns : conn'[c].phase = "idle" => conn'[c].ticket = 0
  BY DEF ConnectionsMoved, ConnectionsHaveTickets
<1>6. ASSUME NEW c \in Conns, NEW d \in Conns, conn'[c].phase # "idle",
             conn'[c].ticket = conn'[d].ticket
      PROVE  c = d
  <2>1. conn'[d].phase # "idle"
    BY <1>4, <1>5, <1>6
  <2> QED
    BY <1>4, <1>6, <2>1 DEF ConnectionsHaveTickets
<1> QED
  BY <1>4, <1>5, <1>6 DEF ConnectionsHaveTickets

LEMMA AdmissionKeepsTickets ==
  ASSUME AccessInvariant, NEW c \in Conns, NEW r \in Replicas, NEW t \in DOMAIN tickets,
         ConsumeTicket(c, r, t), TicketMove
  PROVE  ConnectionsHaveTickets'
<1> USE DEF AccessInvariant
<1>1. tickets \in Seq(Ticket) /\ tickets' \in Seq(Ticket)
  BY DEF TypeOK, Ticket, TicketMove
<1>2. DOMAIN tickets = 1..Len(tickets) /\ DOMAIN tickets' = 1..Len(tickets')
  BY <1>1
<1>3. Len(tickets) \in Nat /\ Len(tickets') \in Nat /\ Len(tickets) <= Len(tickets')
  BY <1>1 DEF TicketMove
<1>4. /\ conn'[c].phase # "idle" /\ conn'[c].replica = r /\ conn'[c].ticket = t
      /\ \A d \in Conns \ {c} : conn'[d] = conn[d]
  BY AdmissionKeepsGateway
<1>5. tickets[t].status = "live" /\ tickets'[t].status = "dead" /\ t # 0
  <2>1. tickets' = [tickets EXCEPT ![t].status = "dead"] /\ tickets[t].status = "live"
    BY DEF ConsumeTicket
  <2>2. tickets[t] \in Ticket
    BY <1>1
  <2> QED
    BY <1>1, <1>2, <1>3, <2>1, <2>2 DEF Ticket
<1>6. \A d \in Conns \ {c} : conn'[d].ticket # t
  BY <1>2, <1>3, <1>4, <1>5 DEF ConnectionsHaveTickets
<1>7. \A d \in Conns \ {c} :
        IF conn'[d].phase = "idle" THEN conn'[d].ticket = 0
        ELSE /\ conn'[d].replica \in Replicas /\ conn'[d].ticket \in DOMAIN tickets'
             /\ tickets'[conn'[d].ticket].status = "dead"
  <2>1. \A u \in 1..Len(tickets) :
          u \in DOMAIN tickets' /\ (tickets[u].status = "dead" => tickets'[u].status = "dead")
    <3>1. \A u \in 1..Len(tickets) : tickets[u].status = "dead" => tickets'[u].status = "dead"
      BY DEF TicketMove
    <3>2. \A u \in 1..Len(tickets) : u \in DOMAIN tickets'
      BY <1>2, <1>3
    <3> QED
      BY <3>1, <3>2
  <2> QED
    BY <1>2, <1>4, <2>1 DEF ConnectionsHaveTickets
<1>8. t \in DOMAIN tickets'
  BY <1>2, <1>3
<1>9. \A d, e \in Conns : conn'[d].phase # "idle" /\ conn'[d].ticket = conn'[e].ticket => d = e
  BY <1>4, <1>6 DEF ConnectionsHaveTickets
<1> QED
  BY <1>4, <1>5, <1>7, <1>8, <1>9 DEF ConnectionsHaveTickets

(* The last reply keeps its ticket's generation. *)
LEMMA RepliesKeepTickets ==
  ASSUME AccessInvariant, TicketMove, UNCHANGED reply
  PROVE  RepliesHaveTickets'
<1>1. tickets \in Seq(Ticket) /\ tickets' \in Seq(Ticket)
  BY DEF AccessInvariant, TypeOK, Ticket, TicketMove
<1> QED
  BY <1>1 DEF AccessInvariant, RepliesHaveTickets, TicketMove

(* The rest of the type invariant. *)
LEMMA TypesKept ==
  ASSUME AccessInvariant, [Next]_vars
  PROVE  /\ lock' \in Workers \cup {Free}
         /\ reconnect' \in [Keys -> [state : {"absent", "in_progress", "succeeded",
                                              "failed_terminal"},
                                     owner : Workers \cup {Free}, generation : Nat]]
         /\ sandbox' \in {"running", "gone"}
         /\ reply' \in [kind : {"none", "reconnect", "provision"}, generation : Nat,
                        ticket : Nat]
<1> USE DEF AccessInvariant
<1>1. /\ lock \in Workers \cup {Free} /\ sandbox \in {"running", "gone"}
      /\ reconnect \in [Keys -> [state : {"absent", "in_progress", "succeeded",
                                          "failed_terminal"},
                                 owner : Workers \cup {Free}, generation : Nat]]
      /\ reply \in [kind : {"none", "reconnect", "provision"}, generation : Nat, ticket : Nat]
  BY DEF TypeOK
<1>2. ASSUME NEW w \in Workers, WorkerStep(w)
      PROVE  lock' \in Workers \cup {Free} /\ sandbox' \in {"running", "gone"}
  BY <1>1, <1>2
     DEF WorkerStep, ReconnectStep, TicketStep, ReleaseStep, ClaimReconnect,
         TakeOverReconnect, RetryReconnect, StartReconnect, LostOwnership,
         ReconnectSucceeds, ReconnectFindsMissing, CommitReconnect, ReconnectAborts,
         RecoverReconnect, ReplayReconnect, ReplayMissing, ReplayUnavailable,
         IssueTicketHash, IssueFails, ReplayProvision, IssueUnbound, BeginRelease,
         ReleasePreparationFails, Kill, CompleteRelease, ReleaseAborts, CloseLocalSockets
<1>3. ASSUME NEW w \in Workers, WorkerStep(w)
      PROVE  reconnect' \in [Keys -> [state : {"absent", "in_progress", "succeeded",
                                               "failed_terminal"},
                                      owner : Workers \cup {Free}, generation : Nat]]
  <2>1. CASE UNCHANGED reconnect
    BY <1>1, <2>1
  <2>2. CASE \E k \in Keys : ClaimReconnect(w, k) \/ TakeOverReconnect(w, k)
    BY <1>1, <2>2 DEF ClaimReconnect, TakeOverReconnect
  <2>3. CASE reconnect' = [reconnect EXCEPT ![worker[w].key].state = "failed_terminal",
                                            ![worker[w].key].owner = Free]
    <3>1. CASE worker[w].key \in Keys
      BY <1>1, <2>3, <3>1
    <3>2. CASE worker[w].key \notin Keys
      BY <1>1, <2>3, <3>2
    <3> QED
      BY <3>1, <3>2
  <2>4. ASSUME NEW row \in Lease, NEW state \in {"succeeded", "failed_terminal"},
               reconnect' = [reconnect EXCEPT ![worker[w].key] =
                               [state |-> state, owner |-> Free, generation |-> row.generation]]
        PROVE  reconnect' \in [Keys -> [state : {"absent", "in_progress", "succeeded",
                                                 "failed_terminal"},
                                        owner : Workers \cup {Free}, generation : Nat]]
    BY <1>1, <2>4 DEF Lease
  <2>5. CompletedReconnect(lease) \in Lease /\ MarkedLost(lease) \in Lease
    BY LeaseUpdates DEF TypeOK
  <2>6. CASE ReconnectSucceeds(w) \/ ReconnectFindsMissing(w)
    BY <2>4, <2>5, <2>6 DEF ReconnectSucceeds, ReconnectFindsMissing, CommitReconnect
  <2>7. CASE StartReconnect(w)
    BY <2>1, <2>3, <2>7 DEF StartReconnect
  <2> QED
    BY <1>3, <2>1, <2>2, <2>6, <2>7
       DEF WorkerStep, ReconnectStep, TicketStep, ReleaseStep, RetryReconnect,
           LostOwnership, ReconnectAborts, RecoverReconnect, ReplayReconnect,
           ReplayMissing, ReplayUnavailable, IssueTicketHash, IssueFails, ReplayProvision,
           IssueUnbound, BeginRelease, ReleasePreparationFails, Kill, CompleteRelease,
           ReleaseAborts, CloseLocalSockets
<1>4. ASSUME NEW w \in Workers, WorkerStep(w)
      PROVE  reply' \in [kind : {"none", "reconnect", "provision"}, generation : Nat,
                         ticket : Nat]
  <2>1. worker[w].generation \in Nat
    BY DEF TypeOK
  <2>2. Len(tickets) + 1 \in Nat
    BY DEF TypeOK
  <2> QED
    BY <1>1, <1>4, <2>1, <2>2, WorkerMovesTickets
<1>5. CASE \/ \E c \in Conns : ConnStep(c)
           \/ \E t \in DOMAIN tickets : TicketExpires(t)
           \/ SandboxLost
           \/ \E r \in Replicas : ReplicaCrash(r)
           \/ UNCHANGED vars
  <2>1. lock' \in {lock, Free} /\ sandbox' \in {sandbox, "gone"} /\ UNCHANGED <<reconnect, reply>>
    BY <1>5
       DEF ConnStep, ConsumeTicket, ReadTarget, Upgrade, FirstCheck, ExecUpstream,
           UpstreamOpens, UpstreamReady, ConnectionEnds, Revalidate, Check, Proceed,
           Reject, Close, control, TicketExpires, SandboxLost, ReplicaCrash, vars
  <2> QED
    BY <1>1, <2>1
<1> QED
  BY <1>2, <1>3, <1>4, <1>5, NextCases

(* What a step does to tickets, connections and gateways together. *)
LEMMA AccessStep ==
  ASSUME AccessInvariant, [Next]_vars
  PROVE  /\ TicketMove /\ conn' \in [Conns -> ConnRecord] /\ GatewayKept
         /\ ConnectionsHaveTickets' /\ RepliesHaveTickets'
<1> USE DEF AccessInvariant
<1>1. TypeOK /\ NewestTicketOnly /\ conn \in [Conns -> ConnRecord]
  BY DEF TypeOK, ConnRecord
<1>2. UNCHANGED conn => ConnectionsMoved
  BY <1>1 DEF ConnectionsMoved
<1>3. UNCHANGED <<conn, active, barrier>> => GatewayKept
  <2>1. Barrier(lease) <= Barrier(lease)' /\ Barrier(lease) \in Nat /\ Barrier(lease)' \in Nat
    BY BarrierGrows, LeaseLifeStep, LeaseUpdates, LeaseInvariantStep DEF TypeOK
  <2> QED
    BY <2>1 DEF GatewayKept, OpenSocketsAreListed, BarriersAreReached, TypeOK
<1>4. ASSUME NEW w \in Workers, WorkerStep(w)
      PROVE  /\ TicketMove /\ ConnectionsMoved /\ GatewayKept
             /\ RepliesHaveTickets'
  <2>1. TicketMove
    BY <1>1, <1>4, WorkerMovesTickets, TicketMoves
  <2>2. ConnectionsMoved /\ GatewayKept
    BY <1>2, <1>3, <1>4, ClosingKeepsGateway, WorkerKeepsGateway
  <2>3. RepliesHaveTickets'
    <3>1. CASE UNCHANGED reply
      BY <2>1, <3>1, RepliesKeepTickets
    <3>2. CASE /\ tickets' = Append(Revoked, [status |-> "live",
                                              generation |-> lease.generation])
               /\ \E kind \in {"reconnect", "provision"} :
                    /\ reply' = [kind |-> kind, generation |-> worker[w].generation,
                                 ticket |-> Len(tickets) + 1]
                    /\ kind = "reconnect" => lease.generation = worker[w].generation
      BY <1>1, <3>2, AppendedTicket DEF RepliesHaveTickets
    <3> QED
      BY <1>4, <3>1, <3>2, WorkerMovesTickets
  <2> QED
    BY <2>1, <2>2, <2>3
<1>5. ASSUME NEW c \in Conns, ConnStep(c),
             ~(\E r \in Replicas, t \in DOMAIN tickets : ConsumeTicket(c, r, t))
      PROVE  TicketMove /\ ConnectionsMoved /\ GatewayKept /\ RepliesHaveTickets'
  BY <1>1, <1>5, ConnKeepsGateway, TicketMoves, RepliesKeepTickets
<1>6. ASSUME NEW c \in Conns, NEW r \in Replicas, NEW t \in DOMAIN tickets,
             ConsumeTicket(c, r, t)
      PROVE  /\ TicketMove /\ conn' \in [Conns -> ConnRecord] /\ GatewayKept
             /\ ConnectionsHaveTickets' /\ RepliesHaveTickets'
  <2>1. TicketMove
    BY <1>1, <1>6, TicketMoves DEF ConsumeTicket
  <2> QED
    BY <1>6, <2>1, AdmissionKeepsGateway, AdmissionKeepsTickets, RepliesKeepTickets
<1>7. CASE \/ \E t \in DOMAIN tickets : TicketExpires(t)
           \/ SandboxLost \/ UNCHANGED vars
  <2>1. /\ UNCHANGED <<conn, active, barrier, reply>>
        /\ \/ tickets' = tickets
           \/ \E t \in DOMAIN tickets : tickets' = [tickets EXCEPT ![t].status = "dead"]
    BY <1>7 DEF TicketExpires, SandboxLost, gateway, vars
  <2>2. TicketMove /\ ConnectionsMoved /\ GatewayKept
    BY <1>1, <1>2, <1>3, <2>1, TicketMoves
  <2> QED
    BY <2>1, <2>2, ConnectionsKeepTickets, RepliesKeepTickets DEF ConnectionsMoved
<1>8. ASSUME NEW r \in Replicas, ReplicaCrash(r)
      PROVE  TicketMove /\ ConnectionsMoved /\ GatewayKept /\ RepliesHaveTickets'
  <2>1. UNCHANGED <<tickets, reply>>
    BY <1>8 DEF ReplicaCrash
  <2> QED
    BY <1>1, <1>8, <2>1, CrashKeepsGateway, TicketMoves, RepliesKeepTickets
<1>9. TicketMove /\ ConnectionsMoved => ConnectionsHaveTickets' /\ conn' \in [Conns -> ConnRecord]
  BY ConnectionsKeepTickets DEF ConnectionsMoved
<1> QED
  BY <1>4, <1>5, <1>6, <1>7, <1>8, <1>9, NextCases

(* Every step keeps the invariant. *)
LEMMA InvariantStep ==
  ASSUME AccessInvariant, [Next]_vars
  PROVE  AccessInvariant'
<1>1. TypeOK'
  BY TypesKept, AccessStep, LeaseInvariantStep
     DEF TypeOK, TicketMove, GatewayKept, Ticket, ConnRecord, WorkerRecord
<1>2. NewestTicketOnly'
  <2>1. DOMAIN tickets' = 1..Len(tickets')
    BY AccessStep DEF TicketMove
  <2> QED
    BY <2>1, AccessStep DEF TicketMove, NewestTicketOnly
<1>3. BarriersAreReached'
  BY AccessStep, LeaseInvariantStep DEF BarriersAreReached, GatewayKept
<1> QED
  BY <1>1, <1>2, <1>3, AccessStep, LeaseInvariantStep DEF AccessInvariant, GatewayKept

(* The initial state satisfies the invariant. *)
LEMMA InitInvariant == Init => AccessInvariant
<1> SUFFICES ASSUME Init PROVE AccessInvariant
  OBVIOUS
<1>1. /\ lease \in Lease /\ Barrier(lease) = 0
      /\ \A w \in Workers : worker[w].pc = "idle" /\ worker[w].then = "idle"
      /\ \A c \in Conns : conn[c].phase = "idle" /\ conn[c].ticket = 0 /\ conn[c].socket = "none"
      /\ \A r \in Replicas : barrier[r] = 0
      /\ reply.kind = "none"
  BY DEF Init, NewLease, Lease, LeaseStates, Barrier, IdleWorker, IdleConn, NoReply
<1>2. /\ tickets \in Seq([status : {"live", "dead"}, generation : Nat])
      /\ Len(tickets) = 1
  BY DEF Init
<1>3. TypeOK
  <2>1. worker \in [Workers -> [pc : WorkerStates, key : Keys \cup {NoKey},
                                generation : Nat, then : WorkerStates]]
    BY DEF Init, IdleWorker, WorkerStates
  <2>2. conn \in [Conns -> [phase : Phases, socket : {"none", "open", "closing"},
                            replica : Replicas \cup {NoKey}, ticket : Nat, generation : Nat]]
    BY DEF Init, IdleConn, Phases
  <2> QED
    BY <1>1, <1>2, <2>1, <2>2 DEF Init, TypeOK, NoReply
<1>4. LockedLeaseIsStable /\ KillersRelease /\ BarriersAreReached
  BY <1>1 DEF LockedLeaseIsStable, KillersRelease, BarriersAreReached
<1>5. NewestTicketOnly
  BY <1>2 DEF NewestTicketOnly
<1>6. ConnectionsHaveTickets /\ RepliesHaveTickets /\ OpenSocketsAreListed
  BY <1>1 DEF ConnectionsHaveTickets, RepliesHaveTickets, OpenSocketsAreListed
<1> QED
  BY <1>3, <1>4, <1>5, <1>6 DEF AccessInvariant

-----------------------------------------------------------------------------
(* The inductive invariant, however reconnects, replays, releases, tickets,  *)
(* connections and crashes of any number of replicas interleave.             *)
THEOREM AccessInvariantHolds == Spec => []AccessInvariant
  BY InitInvariant, InvariantStep, PTL DEF Spec

(* Every variable keeps to the values the code gives it. *)
THEOREM TypeCorrect == Spec => []TypeOK
<1>1. AccessInvariant => TypeOK
  BY DEF AccessInvariant
<1> QED
  BY <1>1, AccessInvariantHolds, PTL

(* Once a replica has closed its sockets for a commit, none of its open      *)
(* connections carries frames for an older access (gateway.ts revoke).       *)
THEOREM RevokedAccessStaysClosedHolds == Spec => []RevokedAccessStaysClosed
<1>1. AccessInvariant => RevokedAccessStaysClosed
  BY DEF AccessInvariant, OpenSocketsAreListed, RevokedAccessStaysClosed
<1> QED
  BY <1>1, AccessInvariantHolds, PTL

(* One ticket at a time admits, and each admits one connection at most       *)
(* (postgres-state.ts issueTicketHash, consumeTicketHash).                   *)
THEOREM SoleBearerHolds == Spec => []SoleBearer
<1>1. AccessInvariant => SoleBearer
  BY DEF AccessInvariant, NewestTicketOnly, ConnectionsHaveTickets, SoleBearer, Usable
<1> QED
  BY <1>1, AccessInvariantHolds, PTL

(* The generation in a reconnect response is that of the ticket in it        *)
(* (postgres-reconnect.ts withConnection).                                   *)
THEOREM ReconnectReplyMatchesTicketHolds == Spec => []ReconnectReplyMatchesTicket
<1>1. AccessInvariant => ReconnectReplyMatchesTicket
  BY DEF AccessInvariant, RepliesHaveTickets, ReconnectReplyMatchesTicket
<1> QED
  BY <1>1, AccessInvariantHolds, PTL

(* The row does only what LeaseLife promises, whatever reconnects, replays   *)
(* and releases overlap.                                                     *)
THEOREM ImplementsLeaseLifeHolds == Spec => ImplementsLeaseLife
<1>1. Init => LL!Init
  BY DEF Init, LL!Init, NewLease, LL!NewLease
<1> QED
  BY <1>1, AccessInvariantHolds, LeaseLifeStep, PTL DEF Spec, ImplementsLeaseLife, LL!Spec
=============================================================================
