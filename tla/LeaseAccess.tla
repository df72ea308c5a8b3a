----------------------------- MODULE LeaseAccess -----------------------------
(***************************************************************************)
(* Who may talk to a lease's sandbox.  Control-plane workers reconnect and  *)
(* release one lease (postgres-reconnect.ts, postgres-release.ts and their  *)
(* paths in postgres-reconciler.ts), each commit revoking its tickets and   *)
(* moving its connection generation; the replica that committed then closes *)
(* its own sockets and may issue a new ticket.  Gateway replicas            *)
(* (gateway.ts) exchange a ticket for a connection and, over several reads  *)
(* of the lease, either let it through to the sandbox or close it.          *)
(*                                                                          *)
(* A transaction that holds the lease lock over a provider call is two      *)
(* steps; every other transaction is one.  consumeTicket is one step        *)
(* although it does not lock the lease: a concurrent transaction that       *)
(* changes the lease revokes the ticket too, and the UPDATE re-reads the    *)
(* ticket row it waited for.                                                *)
(***************************************************************************)
EXTENDS LeaseRow, FiniteSets, Sequences

CONSTANTS
  Replicas,       \* processes, each with a gateway and a control plane
  Coordinators,   \* request handlers
  Reconcilers,    \* reconciler passes
  Home,           \* the replica of each worker
  Keys,           \* idempotency keys of reconnect requests
  Conns,          \* connection slots of the gateways
  MaxTickets,     \* bound: tickets issued
  MaxConnectionsPerLease

Workers == Coordinators \cup Reconcilers
Free    == "free"
NoKey   == "nokey"

ASSUME WorkersAssumption ==
  /\ Coordinators \cap Reconcilers = {}
  /\ Free \notin Workers /\ NoKey \notin Keys
  /\ Home \in [Workers -> Replicas]
  /\ MaxTickets \in Nat \ {0} /\ MaxConnectionsPerLease \in Nat \ {0}

VARIABLES
  lease,      \* the durable lease row
  lock,       \* the worker whose open transaction holds the lease lock
  tickets,    \* the ticket hashes issued so far, in order
  reconnect,  \* the journal row of each reconnect request
  sandbox,    \* the provider's sandbox
  worker,     \* each worker's locals
  reply,      \* the last access given to a client
  conn,       \* each gateway connection
  active,     \* each gateway's entry for the lease in its active map
  barrier     \* history: the newest commit each replica closed sockets for

control == <<lease, lock, tickets, reconnect, sandbox, worker, reply>>
gateway == <<conn, active, barrier>>
vars    == <<lease, lock, tickets, reconnect, sandbox, worker, reply, conn, active, barrier>>

WorkerStates == {"idle", "claimed", "connecting", "recovering", "replaying", "revoking",
                 "issuing", "unbound", "killing", "killed"}
Phases       == {"idle", "validated", "targeted", "proxied", "upstream", "connecting",
                 "passed", "ready"}

IdleWorker == [pc |-> "idle", key |-> NoKey, generation |-> 0, then |-> "idle"]
IdleConn   == [phase |-> "idle", socket |-> "none", replica |-> NoKey,
               ticket |-> 0, generation |-> 0]
NoReply    == [kind |-> "none", generation |-> 0, ticket |-> 0]

Init ==
  /\ lease = NewLease
  /\ lock = Free
  /\ tickets = <<[status |-> "live", generation |-> 0]>>  \* provision's own
  /\ reconnect = [k \in Keys |-> [state |-> "absent", owner |-> Free, generation |-> 0]]
  /\ sandbox = "running"
  /\ worker = [w \in Workers |-> IdleWorker]
  /\ reply = NoReply
  /\ conn = [c \in Conns |-> IdleConn]
  /\ active = [r \in Replicas |-> {}]
  /\ barrier = [r \in Replicas |-> 0]

Goto(w, pc) == worker' = [worker EXCEPT ![w].pc = pc]
Stop(w)     == worker' = [worker EXCEPT ![w] = IdleWorker]

Owns(w) == LET k == worker[w].key IN
  reconnect[k].state = "in_progress" /\ reconnect[k].owner = w

(* Mutant: earlier tickets stay valid. *)
MutRevoked == tickets

(* RevokeTicketsByLeaseId *)
Revoked == [t \in DOMAIN tickets |-> [tickets[t] EXCEPT !.status = "dead"]]

(* After a commit that left row l: close local sockets, then go on. *)
CloseSockets(w, l, then) ==
  worker' = [worker EXCEPT ![w] = [pc |-> "revoking", key |-> NoKey,
                                   generation |-> Barrier(l), then |-> then]]

-----------------------------------------------------------------------------
(* Reconnect: the coordinator, and the reconciler's reconcileReconnect. *)

ClaimReconnect(w, k) ==
  /\ w \in Coordinators /\ worker[w].pc = "idle" /\ reconnect[k].state = "absent"
  /\ reconnect' = [reconnect EXCEPT ![k].state = "in_progress", ![k].owner = w]
  /\ worker' = [worker EXCEPT ![w].pc = "claimed", ![w].key = k]
  /\ UNCHANGED <<lease, lock, tickets, sandbox, reply>> /\ UNCHANGED gateway

(* claimStaleOperations skips a row its owner's open transaction locked. *)
TakeOverReconnect(w, k) ==
  /\ w \in Reconcilers /\ worker[w].pc = "idle" /\ reconnect[k].state = "in_progress"
  /\ lock # Free => worker[lock].key # k
  /\ reconnect' = [reconnect EXCEPT ![k].owner = w]
  /\ worker' = [worker EXCEPT ![w].pc = "claimed", ![w].key = k]
  /\ UNCHANGED <<lease, lock, tickets, sandbox, reply>> /\ UNCHANGED gateway

(* The transaction: an unavailable lease fails the operation in it, an      *)
(* available one is held over the provider calls.                           *)
StartReconnect(w) ==
  /\ worker[w].pc = "claimed" /\ lock = Free /\ Owns(w)
  /\ IF Reconnectable(lease)
       THEN lock' = w /\ Goto(w, "connecting") /\ UNCHANGED reconnect
       ELSE /\ reconnect' = [reconnect EXCEPT ![worker[w].key].state = "failed_terminal",
                                              ![worker[w].key].owner = Free]
            /\ IF w \in Coordinators /\ Missing(lease)
                 THEN CloseSockets(w, lease, "idle")
                 ELSE Stop(w)
            /\ UNCHANGED lock
  /\ UNCHANGED <<lease, tickets, sandbox, reply>> /\ UNCHANGED gateway

(* heartbeatOperation finds another owner: roll back. *)
LostOwnership(w) ==
  /\ worker[w].pc = "claimed" /\ ~Owns(w)
  /\ IF w \in Coordinators THEN Goto(w, "recovering") ELSE Stop(w)
  /\ UNCHANGED <<lease, lock, tickets, reconnect, sandbox, reply>> /\ UNCHANGED gateway

(* The commit of a reconnect: connect, start and probe succeeded, or the    *)
(* sandbox is confirmed missing.  Its acknowledgement may be lost: the      *)
(* coordinator then reads the outcome back, the reconciler gives up.        *)
CommitReconnect(w, row, state) ==
  /\ worker[w].pc = "connecting"
  /\ lease' = row
  /\ tickets' = Revoked
  /\ reconnect' = [reconnect EXCEPT ![worker[w].key] =
                     [state |-> state, owner |-> Free, generation |-> row.generation]]
  /\ lock' = Free
  /\ \/ CloseSockets(w, row, IF w \in Coordinators /\ state = "succeeded"
                               THEN "issuing" ELSE "idle")
     \/ IF w \in Coordinators THEN Goto(w, "recovering") ELSE Stop(w)
  /\ UNCHANGED <<sandbox, reply>> /\ UNCHANGED gateway

ReconnectSucceeds(w) ==
  sandbox = "running" /\ CommitReconnect(w, CompletedReconnect(lease), "succeeded")

ReconnectFindsMissing(w) ==
  sandbox = "gone" /\ CommitReconnect(w, MarkedLost(lease), "failed_terminal")

(* A provider or database outage rolls the transaction back. *)
ReconnectAborts(w) ==
  /\ worker[w].pc = "connecting"
  /\ lock' = Free
  /\ IF w \in Coordinators THEN Goto(w, "recovering") ELSE Stop(w)
  /\ UNCHANGED <<lease, tickets, reconnect, sandbox, reply>> /\ UNCHANGED gateway

(* recoverCommitOutcome: only a terminal row is answered from. *)
RecoverReconnect(w) ==
  /\ worker[w].pc = "recovering"
  /\ IF reconnect[worker[w].key].state \in {"succeeded", "failed_terminal"}
       THEN Goto(w, "replaying") ELSE Stop(w)
  /\ UNCHANGED <<lease, lock, tickets, reconnect, sandbox, reply>> /\ UNCHANGED gateway

(* The client sends a decided key again. *)
RetryReconnect(w, k) ==
  /\ w \in Coordinators /\ worker[w].pc = "idle"
  /\ reconnect[k].state \in {"succeeded", "failed_terminal"}
  /\ worker' = [worker EXCEPT ![w].pc = "replaying", ![w].key = k]
  /\ UNCHANGED <<lease, lock, tickets, reconnect, sandbox, reply>> /\ UNCHANGED gateway

(* The stored response, which holds the generation, must equal the one the  *)
(* lease would give now.                                                    *)
SameResponse(w) == reconnect[worker[w].key].generation = lease.generation

ReplayReconnect(w) ==
  /\ worker[w].pc = "replaying" /\ lock = Free
  /\ reconnect[worker[w].key].state = "succeeded"
  /\ lease.state = "active" /\ SameResponse(w)
  /\ lease' = RotatedAccess(lease)
  /\ tickets' = Revoked
  /\ CloseSockets(w, RotatedAccess(lease), "issuing")
  /\ UNCHANGED <<lock, reconnect, sandbox, reply>> /\ UNCHANGED gateway

(* A stored 404, or a lease that went missing since: 404 and no access.     *)
ReplayMissing(w) ==
  /\ worker[w].pc = "replaying"
  /\ \/ reconnect[worker[w].key].state = "failed_terminal"
     \/ lock = Free /\ Missing(lease)
  /\ CloseSockets(w, lease, "idle")
  /\ UNCHANGED <<lease, lock, tickets, reconnect, sandbox, reply>> /\ UNCHANGED gateway

(* Any other error of the replay transaction: 503. *)
ReplayUnavailable(w) ==
  /\ worker[w].pc = "replaying" /\ reconnect[worker[w].key].state = "succeeded"
  /\ Stop(w)
  /\ UNCHANGED <<lease, lock, tickets, reconnect, sandbox, reply>> /\ UNCHANGED gateway

-----------------------------------------------------------------------------
(* Tickets. *)

(* issueTicketHash: earlier tickets are revoked, the new one carries the    *)
(* lease's generation.                                                      *)
Issue(w, kind) ==
  /\ tickets' = Append(Revoked, [status |-> "live", generation |-> lease.generation])
  /\ reply' = [kind |-> kind, generation |-> worker[w].generation,
               ticket |-> Len(tickets) + 1]
  /\ Stop(w)

(* Mutant: the ticket is issued for whatever generation is current. *)
MutIssueTicketHash(w) ==
  /\ worker[w].pc = "issuing" /\ lock = Free /\ Len(tickets) < MaxTickets
  /\ lease.state = "active"
  /\ Issue(w, "reconnect")
  /\ UNCHANGED <<lease, lock, reconnect, sandbox>> /\ UNCHANGED gateway

(* withConnection of a reconnect binds the ticket to its own generation. *)
IssueTicketHash(w) ==
  /\ worker[w].pc = "issuing" /\ lock = Free /\ Len(tickets) < MaxTickets
  /\ lease.state = "active" /\ lease.generation = worker[w].generation
  /\ Issue(w, "reconnect")
  /\ UNCHANGED <<lease, lock, reconnect, sandbox>> /\ UNCHANGED gateway

(* The lease moved on, or the database fails: 503. *)
IssueFails(w) ==
  /\ worker[w].pc \in {"issuing", "unbound"}
  /\ Stop(w)
  /\ UNCHANGED <<lease, lock, tickets, reconnect, sandbox, reply>> /\ UNCHANGED gateway

(* A provision answered again reads the lease and then issues a ticket      *)
(* without naming the generation it read.                                   *)
ReplayProvision(w) ==
  /\ w \in Coordinators /\ worker[w].pc = "idle" /\ lease.state = "active"
  /\ worker' = [worker EXCEPT ![w].pc = "unbound", ![w].generation = lease.generation]
  /\ UNCHANGED <<lease, lock, tickets, reconnect, sandbox, reply>> /\ UNCHANGED gateway

IssueUnbound(w) ==
  /\ worker[w].pc = "unbound" /\ lock = Free /\ Len(tickets) < MaxTickets
  /\ lease.state = "active"
  /\ Issue(w, "provision")
  /\ UNCHANGED <<lease, lock, reconnect, sandbox>> /\ UNCHANGED gateway

TicketExpires(t) ==
  /\ tickets[t].status = "live"
  /\ tickets' = [tickets EXCEPT ![t].status = "dead"]
  /\ UNCHANGED <<lease, lock, reconnect, sandbox, worker, reply>> /\ UNCHANGED gateway

-----------------------------------------------------------------------------
(* Release, as the lease and the gateways see it. *)

(* The first transaction.  The reconciler does not close sockets. *)
BeginRelease(w) ==
  /\ worker[w].pc = "idle" /\ lock = Free
  /\ lease' = BegunRelease(lease)
  /\ tickets' = Revoked
  /\ IF w \in Coordinators
       THEN \/ CloseSockets(w, BegunRelease(lease),
                            IF lease.state = "released" THEN "idle" ELSE "killing")
            \/ CloseSockets(w, BegunRelease(lease), "idle")  \* acknowledgement lost
       ELSE IF lease.state = "released" THEN Stop(w) ELSE Goto(w, "killing")
  /\ UNCHANGED <<lock, reconnect, sandbox, reply>> /\ UNCHANGED gateway

(* The first transaction fails: local sockets are closed all the same. *)
ReleasePreparationFails(w) ==
  /\ w \in Coordinators /\ worker[w].pc = "idle"
  /\ worker' = [worker EXCEPT ![w].pc = "revoking", ![w].generation = 0]
  /\ UNCHANGED <<lease, lock, tickets, reconnect, sandbox, reply>> /\ UNCHANGED gateway

(* The second transaction, unless another release completed: kill,         *)
(* accepting a sandbox that is gone, under the lease lock; then commit or   *)
(* roll back.                                                               *)
Kill(w) ==
  /\ worker[w].pc = "killing" /\ lock = Free
  /\ IF lease.state = "released"
       THEN Stop(w) /\ UNCHANGED <<lock, sandbox>>
       ELSE lock' = w /\ sandbox' = "gone" /\ Goto(w, "killed")
  /\ UNCHANGED <<lease, tickets, reconnect, reply>> /\ UNCHANGED gateway

CompleteRelease(w) ==
  /\ worker[w].pc = "killed"
  /\ lease' = CompletedRelease(lease)
  /\ tickets' = Revoked
  /\ lock' = Free /\ Stop(w)
  /\ UNCHANGED <<reconnect, sandbox, reply>> /\ UNCHANGED gateway

ReleaseAborts(w) ==
  /\ worker[w].pc \in {"killing", "killed"}
  /\ lock' = IF lock = w THEN Free ELSE lock
  /\ Stop(w)
  /\ UNCHANGED <<lease, tickets, reconnect, sandbox, reply>> /\ UNCHANGED gateway

SandboxLost ==
  /\ sandbox = "running"
  /\ sandbox' = "gone"
  /\ UNCHANGED <<lease, lock, tickets, reconnect, worker, reply>> /\ UNCHANGED gateway

-----------------------------------------------------------------------------
(* The gateway. *)

(* ExecGateway.revoke on the worker's own replica: the entry leaves the     *)
(* active map and its sockets start closing.                                *)
CloseLocalSockets(w) ==
  LET r == Home[w] IN
  /\ worker[w].pc = "revoking"
  /\ conn' = [c \in Conns |-> IF c \in active[r]
                                THEN [conn[c] EXCEPT !.socket = "closing"] ELSE conn[c]]
  /\ active' = [active EXCEPT ![r] = {}]
  /\ barrier' = [barrier EXCEPT ![r] = IF @ < worker[w].generation
                                         THEN worker[w].generation ELSE @]
  /\ IF worker[w].then = "idle" THEN Stop(w) ELSE Goto(w, worker[w].then)
  /\ UNCHANGED <<lease, lock, tickets, reconnect, sandbox, reply>>

(* consumeTicketHash *)
ConsumeTicket(c, r, t) ==
  /\ conn[c].phase = "idle"
  /\ tickets[t].status = "live"
  /\ lease.state = "active" /\ tickets[t].generation = lease.generation
  /\ tickets' = [tickets EXCEPT ![t].status = "dead"]
  /\ conn' = [conn EXCEPT ![c] = [phase |-> "validated", socket |-> "none", replica |-> r,
                                  ticket |-> t, generation |-> lease.generation]]
  /\ UNCHANGED <<lease, lock, reconnect, sandbox, worker, reply, active, barrier>>

(* Mutant: a connection is compared by its sandbox alone. *)
MutSameTarget(c) == lease.state = "active"

(* sameTarget of activeLeaseTarget: same sandbox, same generation. *)
SameTarget(c) == lease.state = "active" /\ lease.generation = conn[c].generation

(* Mutant: the last connection of a Set clears whatever Set is in the map.  *)
MutCleanup(c) ==
  /\ conn' = [conn EXCEPT ![c] = IdleConn]
  /\ active' = [r \in Replicas |->
                  IF r = conn[c].replica /\ c \notin active[r]
                    THEN {} ELSE active[r] \ {c}]

(* cleanup: both sockets close and the connection leaves its own Set. *)
Cleanup(c) ==
  /\ conn' = [conn EXCEPT ![c] = IdleConn]
  /\ active' = [r \in Replicas |-> active[r] \ {c}]

Close(c) == Cleanup(c) /\ UNCHANGED barrier /\ UNCHANGED control

Proceed(c, phase) ==
  conn' = [conn EXCEPT ![c].phase = phase] /\ UNCHANGED <<active, barrier>> /\ UNCHANGED control

Reject(c) ==
  conn' = [conn EXCEPT ![c] = IdleConn] /\ UNCHANGED <<active, barrier>> /\ UNCHANGED control

(* upgrade reads the target and compares its generation. *)
ReadTarget(c) ==
  /\ conn[c].phase = "validated"
  /\ IF SameTarget(c) THEN Proceed(c, "targeted") ELSE Reject(c)

(* The limit, the handshake and the entry in the active map are one step of *)
(* the event loop.                                                          *)
Upgrade(c) ==
  LET r == conn[c].replica IN
  /\ conn[c].phase = "targeted"
  /\ IF Cardinality(active[r]) >= MaxConnectionsPerLease
       THEN Reject(c)
       ELSE /\ conn' = [conn EXCEPT ![c].phase = "proxied", ![c].socket = "open"]
            /\ active' = [active EXCEPT ![r] = @ \cup {c}]
            /\ UNCHANGED barrier /\ UNCHANGED control

(* A read that finds another target closes the connection when it returns;  *)
(* the target never becomes the same again, so read and close are one step. *)
Check(c, phase, next) ==
  /\ conn[c].phase = phase
  /\ IF SameTarget(c) THEN Proceed(c, next) ELSE Close(c)

(* Before the provider is asked; after execUpstream returns; and when the   *)
(* upstream socket opens.                                                   *)
FirstCheck(c) == Check(c, "proxied", "upstream")

ExecUpstream(c) == sandbox = "running" /\ Check(c, "upstream", "connecting")

UpstreamOpens(c) == sandbox = "running" /\ Check(c, "connecting", "passed")

(* The continuation of the last read: frames flow in both directions. *)
UpstreamReady(c) == conn[c].phase = "passed" /\ Proceed(c, "ready")

Proxied(c) == conn[c].socket # "none"

(* Either side closes or fails, a limit is exceeded, or a read throws. *)
ConnectionEnds(c) == Proxied(c) /\ Close(c)

(* The interval timer of a connection. *)
Revalidate(c) == Proxied(c) /\ ~SameTarget(c) /\ Close(c)

-----------------------------------------------------------------------------
(* A replica stops: its open transaction rolls back, its sockets close. *)
ReplicaCrash(r) ==
  LET gone == {w \in Workers : Home[w] = r} IN
  /\ worker' = [w \in Workers |-> IF w \in gone THEN IdleWorker ELSE worker[w]]
  /\ lock' = IF lock \in gone THEN Free ELSE lock
  /\ conn' = [c \in Conns |-> IF conn[c].replica = r THEN IdleConn ELSE conn[c]]
  /\ active' = [active EXCEPT ![r] = {}]
  /\ UNCHANGED <<lease, tickets, reconnect, sandbox, reply, barrier>>

ReconnectStep(w) ==
  \/ \E k \in Keys : ClaimReconnect(w, k) \/ TakeOverReconnect(w, k) \/ RetryReconnect(w, k)
  \/ StartReconnect(w) \/ LostOwnership(w) \/ ReconnectSucceeds(w)
  \/ ReconnectFindsMissing(w) \/ ReconnectAborts(w) \/ RecoverReconnect(w)
  \/ ReplayReconnect(w) \/ ReplayMissing(w) \/ ReplayUnavailable(w)

TicketStep(w) ==
  IssueTicketHash(w) \/ IssueFails(w) \/ ReplayProvision(w) \/ IssueUnbound(w)

ReleaseStep(w) ==
  \/ BeginRelease(w) \/ ReleasePreparationFails(w) \/ Kill(w)
  \/ CompleteRelease(w) \/ ReleaseAborts(w)

ConnStep(c) ==
  \/ \E r \in Replicas, t \in DOMAIN tickets : ConsumeTicket(c, r, t)
  \/ ReadTarget(c) \/ Upgrade(c) \/ FirstCheck(c) \/ ExecUpstream(c)
  \/ UpstreamOpens(c) \/ UpstreamReady(c)
  \/ ConnectionEnds(c) \/ Revalidate(c)

Next ==
  \/ \E w \in Workers : \/ ReconnectStep(w) \/ TicketStep(w) \/ ReleaseStep(w)
                        \/ CloseLocalSockets(w)
  \/ \E c \in Conns : ConnStep(c)
  \/ \E t \in DOMAIN tickets : TicketExpires(t)
  \/ SandboxLost
  \/ \E r \in Replicas : ReplicaCrash(r)

Spec == Init /\ [][Next]_vars

(* The interval timer of every open connection keeps firing. *)
FairSpec == Spec /\ \A c \in Conns : WF_vars(Revalidate(c))

-----------------------------------------------------------------------------
LL == INSTANCE LeaseLife

(* Every variable keeps to the values the code gives it. *)
TypeOK ==
  /\ lease \in Lease
  /\ lock \in Workers \cup {Free}
  /\ tickets \in Seq([status : {"live", "dead"}, generation : Nat])
  /\ reconnect \in [Keys -> [state : {"absent", "in_progress", "succeeded", "failed_terminal"},
                            owner : Workers \cup {Free}, generation : Nat]]
  /\ sandbox \in {"running", "gone"}
  /\ worker \in [Workers -> [pc : WorkerStates, key : Keys \cup {NoKey},
                             generation : Nat, then : WorkerStates]]
  /\ reply \in [kind : {"none", "reconnect", "provision"}, generation : Nat, ticket : Nat]
  /\ conn \in [Conns -> [phase : Phases, socket : {"none", "open", "closing"},
                         replica : Replicas \cup {NoKey}, ticket : Nat, generation : Nat]]
  /\ active \in [Replicas -> SUBSET Conns]
  /\ barrier \in [Replicas -> Nat]

Current(c) == lease.state = "active" /\ lease.generation = conn[c].generation

(* Once a replica has closed its sockets for a reconnect, loss or release,  *)
(* no open connection of it carries frames to the sandbox for an older      *)
(* access: not one that was admitted, or had read the lease, just before    *)
(* (gateway.ts revoke, upgrade and proxy).                                  *)
RevokedAccessStaysClosed ==
  \A c \in Conns : conn[c].phase = "ready" /\ conn[c].socket = "open" =>
    conn[c].generation >= barrier[conn[c].replica]

(* At most one ticket admits anybody at any time, and no two connections    *)
(* were admitted by the same ticket, on whatever replicas they were         *)
(* presented (postgres-state.ts issueTicketHash and consumeTicketHash).     *)
Usable(t) == /\ tickets[t].status = "live" /\ lease.state = "active"
             /\ tickets[t].generation = lease.generation

SoleBearer ==
  /\ \A t, u \in DOMAIN tickets : Usable(t) /\ Usable(u) => t = u
  /\ \A c, d \in Conns : conn[c].phase # "idle" /\ conn[c].ticket = conn[d].ticket => c = d

(* The generation in a reconnect response is that of the ticket in it,      *)
(* however many reconnects overtook the handler between its commit and its  *)
(* ticket (postgres-reconnect.ts withConnection).                           *)
ReconnectReplyMatchesTicket ==
  reply.kind = "reconnect" => reply.generation = tickets[reply.ticket].generation

(* Whatever reconnects, replays and releases overlap, the row only does     *)
(* what is promised of a lease: in particular a lease whose release began,  *)
(* or that was lost, is never active again (postgres-state.ts).             *)
ImplementsLeaseLife == LL!Spec

(* A connection whose access was revoked by any replica is closed in the    *)
(* end (gateway.ts revalidation).                                           *)
StaleConnectionCloses ==
  \A c \in Conns : (Proxied(c) /\ ~Current(c)) ~> ~Proxied(c)
=============================================================================
