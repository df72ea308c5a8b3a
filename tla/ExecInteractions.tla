--------------------------- MODULE ExecInteractions ---------------------------
(***************************************************************************)
(* The interaction ledger of one lease, and what it is for: a lifecycle     *)
(* operation (checkpoint, child capture, patch apply and its recovery) that *)
(* asserted quiescence under the lease lock captures a workspace nobody is  *)
(* changing.                                                                *)
(*                                                                          *)
(* The gateway tracks every connection (exec-interaction-tracker.ts, proxy  *)
(* of gateway.ts): a mutation is journaled before it is forwarded, and its  *)
(* row (postgres-lease-interactions.ts) is finished only by what the exec   *)
(* server in the sandbox says.  The exec server (codex-rs/exec-server) runs *)
(* the mutations in a session that a later connection may resume.           *)
(*                                                                          *)
(* Every ledger transaction takes the lease lock and is one step; a capture *)
(* holds the lock over provider calls.  A session is named after the        *)
(* connection that created it.  Client process IDs are not reused.          *)
(***************************************************************************)
EXTENDS LeaseRow

CONSTANTS
  Conns,          \* client connections, each proxied to the sandbox
  Ops,            \* mutations a client asks for: their interaction IDs
  Filesystem,     \* the filesystem mutations among them; the rest are processes
  CodeMode,       \* processes started under the code-mode ID of their generation
  MaxGeneration,  \* bound: reconnects
  None

ASSUME OpsAssumption ==
  /\ Filesystem \subseteq Ops /\ CodeMode \subseteq Ops \ Filesystem
  /\ MaxGeneration \in Nat /\ None \notin Conns \cup Ops

VARIABLES
  lease,      \* the durable lease row
  capturing,  \* whether a capture holds the lease lock
  row,        \* the ledger row of each mutation
  conn,       \* the gateway's side of each connection: socket and tracker
  at,         \* where each mutation is
  inbox,      \* frames from the exec server the tracker has not handled
  server,     \* the exec server's side of each connection
  session,    \* the exec server's sessions
  late        \* history: mutations settled by a resume when another connection
              \* was already attached to the session

vars == <<lease, capturing, row, conn, at, inbox, server, session, late>>

Processes == Ops \ Filesystem
Phases    == {"opened", "initializing", "listing", "reattaching", "settling", "ready"}

NoRow   == [state |-> "none", session |-> None, generation |-> 0]
Place(p) == [place |-> p, via |-> None, session |-> None]
NewConn == [life |-> "off", phase |-> "opened", generation |-> 0, resume |-> None,
            processes |-> {}, unforwarded |-> {}, forwarded |-> {},
            quiesced |-> {}, todo |-> {}, detach |-> {}]

Init ==
  /\ lease = NewLease
  /\ capturing = FALSE
  /\ row = [o \in Ops |-> NoRow]
  /\ conn = [c \in Conns |-> NewConn]
  /\ at = [o \in Ops |-> Place("client")]
  /\ inbox = [c \in Conns |-> {}]
  /\ server = [c \in Conns |-> "off"]
  /\ session = [s \in Conns |-> [state |-> "none", attached |-> None]]
  /\ late = {}

Frame(type, o) == [type |-> type, op |-> o]
Unfinished(o)  == row[o].state \in {"active", "detached"}
SessionOf(c)   == IF conn[c].resume = None THEN c ELSE conn[c].resume
Admitted(c)    == lease.state = "active" /\ lease.generation = conn[c].generation

gatewayOnly == <<lease, capturing, at, inbox, server, session, late>>
ledgerStep  == <<lease, capturing, at, server, session, late>>

-----------------------------------------------------------------------------
(* The lease and its captures. *)

Rotate ==
  /\ ~capturing /\ Reconnectable(lease) /\ lease.generation < MaxGeneration
  /\ lease' = CompletedReconnect(lease)
  /\ UNCHANGED <<capturing, row, conn, at, inbox, server, session, late>>

(* Only the code-mode process of the current generation is exempt. *)
Exempt(o) == o \in CodeMode /\ row[o].generation = lease.generation

(* assertQuiescent, under the lease lock. *)
Quiescent == lease.state \in {"active", "paused"} /\ \A o \in Ops : Unfinished(o) => Exempt(o)

StartCapture ==
  /\ ~capturing /\ Quiescent
  /\ capturing' = TRUE
  /\ UNCHANGED <<lease, row, conn, at, inbox, server, session, late>>

(* The transaction of the capture commits or rolls back. *)
EndCapture ==
  /\ capturing
  /\ capturing' = FALSE
  /\ UNCHANGED <<lease, row, conn, at, inbox, server, session, late>>

-----------------------------------------------------------------------------
(* A connection opens, initializes its session, and ends. *)

(* The sandbox connection is made and the client sends initialize, for a    *)
(* new session (None) or one it knows.                                      *)
Open(c, s) ==
  /\ conn[c].life = "off" /\ lease.state = "active"
  /\ s # None => session[s].state # "none"
  /\ conn' = [conn EXCEPT ![c].life = "open", ![c].phase = "initializing",
                          ![c].generation = lease.generation, ![c].resume = s]
  /\ server' = [server EXCEPT ![c] = "open"]
  /\ UNCHANGED <<lease, capturing, row, at, inbox, session, late>>

(* Its initialize was refused: neither the tracker nor the exec server      *)
(* remembers it, and the client may ask again, for this or another session. *)
Reinitialize(c, s) ==
  /\ conn[c].life = "open" /\ conn[c].phase = "opened" /\ server[c] = "refused"
  /\ s # None => session[s].state # "none"
  /\ conn' = [conn EXCEPT ![c].phase = "initializing", ![c].resume = s]
  /\ server' = [server EXCEPT ![c] = "open"]
  /\ UNCHANGED <<lease, capturing, row, at, inbox, session, late>>

(* cleanup: nothing more is forwarded, both sockets close. *)
Closed(c) == [conn[c] EXCEPT !.life = IF @ = "open" THEN "closing" ELSE @]

Close(c) ==
  /\ conn[c].life = "open"
  /\ conn' = [conn EXCEPT ![c] = Closed(c)]
  /\ UNCHANGED gatewayOnly /\ UNCHANGED row

(* The gateway process dies: its trackers are gone, its rows stay. *)
GatewayCrash(c) ==
  /\ conn[c].life \notin {"off", "gone"}
  /\ conn' = [conn EXCEPT ![c] = [NewConn EXCEPT !.life = "gone"]]
  /\ inbox' = [inbox EXCEPT ![c] = {}]
  /\ UNCHANGED <<lease, capturing, row, at, server, session, late>>

(* Mutant: whatever awaits a response counts as never forwarded. *)
MutNeverForwarded(c) == conn[c].unforwarded \cup conn[c].forwarded

NeverForwarded(c) == conn[c].unforwarded

(* detach runs once the frames of the client are through: what was never    *)
(* forwarded is finished, the rest detached, each in its own transaction.   *)
Detaching(c) ==
  [conn[c] EXCEPT !.life = "detaching",
     !.detach = conn[c].processes \cup conn[c].forwarded \cup conn[c].unforwarded]

StartDetach(c) ==
  /\ conn[c].life = "closing"
  /\ conn' = [conn EXCEPT ![c] = Detaching(c)]
  /\ UNCHANGED gatewayOnly /\ UNCHANGED row

(* transition: finished is terminal.  The identity of a finished row is     *)
(* never read again.                                                        *)
Transition(o, state) ==
  [row EXCEPT ![o] = IF "finished" \in {@.state, state}
                       THEN [NoRow EXCEPT !.state = "finished"]
                       ELSE [@ EXCEPT !.state = state]]

DetachRow(c, o) ==
  /\ conn[c].life = "detaching" /\ o \in conn[c].detach
  /\ \/ /\ ~capturing
        /\ row' = Transition(o, IF o \in NeverForwarded(c) THEN "finished" ELSE "detached")
     \/ UNCHANGED row  \* the transaction fails: allSettled
  /\ conn' = [conn EXCEPT ![c].detach = @ \ {o}]
  /\ UNCHANGED gatewayOnly

-----------------------------------------------------------------------------
(* clientFrame: a mutation is journaled, then forwarded. *)

NewRow(c) ==
  [state |-> "active", session |-> SessionOf(c), generation |-> conn[c].generation]

(* Mutant: the row is inserted without the lease lock. *)
MutBegin(c, o) ==
  /\ conn[c].life \in {"open", "closing"} /\ conn[c].phase = "ready"
  /\ conn[c].unforwarded = {} /\ row[o] = NoRow /\ Admitted(c)
  /\ row' = [row EXCEPT ![o] = NewRow(c)]
  /\ conn' = [conn EXCEPT ![c].unforwarded = {o},
                          ![c].processes = @ \cup ({o} \cap Processes)]
  /\ UNCHANGED gatewayOnly

(* begin, which may be waiting for the lock when the connection closes.     *)
(* Client frames are handled one after the other; an error ends them all.   *)
Begin(c, o) ==
  /\ conn[c].life \in {"open", "closing"} /\ conn[c].phase = "ready"
  /\ conn[c].unforwarded = {} /\ row[o] = NoRow /\ ~capturing /\ Admitted(c)
  /\ row' = [row EXCEPT ![o] = NewRow(c)]
  /\ \/ conn' = [conn EXCEPT ![c].unforwarded = {o},
                             ![c].processes = @ \cup ({o} \cap Processes)]
     \/ conn' = [conn EXCEPT ![c] = Detaching(c)]  \* the acknowledgement is lost
  /\ UNCHANGED gatewayOnly

(* markForwarded and send.  A frame for an exec server that is no longer    *)
(* reading this connection is lost.                                         *)
Forward(c, o) ==
  /\ conn[c].life = "open" /\ o \in conn[c].unforwarded
  /\ conn' = [conn EXCEPT ![c].unforwarded = @ \ {o}, ![c].forwarded = @ \cup {o}]
  /\ at' = [at EXCEPT ![o] = IF server[c] = "attached"
                               THEN [place |-> "sent", via |-> c, session |-> SessionOf(c)]
                               ELSE Place("lost")]
  /\ UNCHANGED <<lease, capturing, row, inbox, server, session, late>>

-----------------------------------------------------------------------------
(* serverFrame, frame after frame and whether or not the socket closed. *)

Idle(c)    == conn[c].phase \in {"opened", "initializing", "ready"}
Handled(c, f) == inbox' = [inbox EXCEPT ![c] = @ \ {f}]

(* finishProcess, or finish of a filesystem mutation. *)
Finish(c, o) ==
  /\ ~capturing
  /\ row' = Transition(o, "finished")
  /\ conn' = [conn EXCEPT ![c].processes = @ \ {o}, ![c].forwarded = @ \ {o},
                          ![c].quiesced = @ \ {o}]
  /\ UNCHANGED ledgerStep

(* A filesystem response, a failed start, a read that says quiesced. *)
HandleResponse(c, o) ==
  /\ Idle(c)
  /\ \E type \in {"response", "error", "read"} :
       Frame(type, o) \in inbox[c] /\ Handled(c, Frame(type, o))
  /\ Finish(c, o)

HandleQuiesced(c, o) ==
  /\ Idle(c) /\ Frame("quiesced", o) \in inbox[c] /\ Handled(c, Frame("quiesced", o))
  /\ IF o \in conn[c].processes
       THEN Finish(c, o)
       ELSE /\ conn' = IF conn[c].phase = "initializing" /\ conn[c].resume # None
                         THEN [conn EXCEPT ![c].quiesced = @ \cup {o}] ELSE conn
            /\ UNCHANGED row /\ UNCHANGED ledgerStep

(* The exec server refused to initialize. *)
HandleRefused(c) ==
  /\ conn[c].phase = "initializing" /\ Frame("refused", None) \in inbox[c]
  /\ Handled(c, Frame("refused", None))
  /\ conn' = [conn EXCEPT ![c].phase = "opened", ![c].quiesced = {}]
  /\ UNCHANGED <<lease, capturing, row, at, server, session, late>>

HandleInitialized(c) ==
  /\ conn[c].phase = "initializing" /\ Frame("initialized", None) \in inbox[c]
  /\ Handled(c, Frame("initialized", None))
  /\ conn' = IF conn[c].resume = None
               THEN [conn EXCEPT ![c].phase = "ready"]
               ELSE [conn EXCEPT ![c].phase = "listing"]
  /\ UNCHANGED <<lease, capturing, row, at, server, session, late>>

OfSession(c) == {o \in Ops : Unfinished(o) /\ row[o].session = SessionOf(c)}

(* Mutant: only rows that a disconnect marked are taken up. *)
MutListUnfinishedProcesses(c) == {o \in OfSession(c) \cap Processes : row[o].state = "detached"}

ListUnfinishedProcesses(c) == OfSession(c) \cap Processes

ResumeList(c) ==
  /\ conn[c].phase = "listing" /\ ~capturing /\ Admitted(c)
  /\ conn' = [conn EXCEPT ![c].phase = "reattaching", ![c].todo = ListUnfinishedProcesses(c)]
  /\ UNCHANGED gatewayOnly /\ UNCHANGED row

Reattach(c, o) ==
  /\ conn[c].phase = "reattaching" /\ o \in conn[c].todo
  /\ ~capturing /\ Admitted(c) /\ Unfinished(o)
  /\ row' = Transition(o, "active")
  /\ conn' = [conn EXCEPT ![c].todo = @ \ {o}, ![c].processes = @ \cup {o}]
  /\ UNCHANGED gatewayOnly

(* Notifications that overtook the response of initialize. *)
FinishEarlyQuiesced(c, o) ==
  /\ conn[c].phase = "reattaching" /\ conn[c].todo = {}
  /\ o \in conn[c].quiesced \cap conn[c].processes
  /\ Finish(c, o)
  /\ UNCHANGED inbox

ListFilesystem(c) ==
  /\ conn[c].phase = "reattaching" /\ conn[c].todo = {}
  /\ conn[c].quiesced \cap conn[c].processes = {}
  /\ ~capturing /\ Admitted(c)
  /\ conn' = [conn EXCEPT ![c].phase = "settling", ![c].todo = OfSession(c) \cap Filesystem]
  /\ UNCHANGED gatewayOnly /\ UNCHANGED row

SettleFilesystem(c, o) ==
  /\ conn[c].phase = "settling" /\ o \in conn[c].todo /\ ~capturing
  /\ row' = Transition(o, "finished")
  /\ conn' = [conn EXCEPT ![c].todo = @ \ {o}]
  /\ late' = IF session[SessionOf(c)].attached \in {c, None} THEN late ELSE late \cup {o}
  /\ UNCHANGED <<lease, capturing, at, inbox, server, session>>

Resumed(c) ==
  /\ conn[c].phase = "settling" /\ conn[c].todo = {}
  /\ conn' = [conn EXCEPT ![c].phase = "ready", ![c].quiesced = {}]
  /\ UNCHANGED gatewayOnly /\ UNCHANGED row

(* A ledger call of the resume finds another generation or a finished row,  *)
(* or fails: the connection closes without a session.                       *)
ResumeFails(c) ==
  /\ conn[c].phase \in {"listing", "reattaching", "settling"}
  /\ conn' = [conn EXCEPT ![c] = [Closed(c) EXCEPT !.phase = "opened"]]
  /\ UNCHANGED gatewayOnly /\ UNCHANGED row

-----------------------------------------------------------------------------
(* The exec server. *)

Reply(c, f) == inbox' = [inbox EXCEPT ![c] = IF conn[c].life = "gone" THEN @ ELSE @ \cup {f}]

ServerStep == <<lease, capturing, row, conn, late>>

(* attach: never to a session another connection is attached to, and with   *)
(* success only once per connection.                                        *)
ServerInitialize(c) ==
  LET s == SessionOf(c) IN
  /\ server[c] = "open" /\ conn[c].phase = "initializing"
  /\ IF conn[c].resume = None \/ session[s] = [state |-> "live", attached |-> None]
       THEN /\ session' = [session EXCEPT ![s] = [state |-> "live", attached |-> c]]
            /\ server' = [server EXCEPT ![c] = "attached"]
            /\ Reply(c, Frame("initialized", None))
       ELSE /\ server' = [server EXCEPT ![c] = "refused"]
            /\ Reply(c, Frame("refused", None))
            /\ UNCHANGED session
  /\ UNCHANGED ServerStep /\ UNCHANGED at

Execute(c, o) ==
  /\ server[c] = "attached" /\ at[o].place = "sent" /\ at[o].via = c
  /\ \/ at' = [at EXCEPT ![o].place = "running"] /\ UNCHANGED inbox
     \/ at' = [at EXCEPT ![o] = Place("ended")] /\ Reply(c, Frame("error", o))
  /\ UNCHANGED ServerStep /\ UNCHANGED <<server, session>>

FilesystemEnds(o) ==
  /\ o \in Filesystem /\ at[o].place = "running"
  /\ at' = [at EXCEPT ![o] = Place("ended")]
  /\ IF server[at[o].via] = "attached"
       THEN Reply(at[o].via, Frame("response", o)) ELSE UNCHANGED inbox
  /\ UNCHANGED ServerStep /\ UNCHANGED <<server, session>>

(* A process group is gone: the connection attached to the session hears. *)
ProcessQuiesces(o) ==
  /\ o \in Processes /\ at[o].place = "running"
  /\ at' = [at EXCEPT ![o] = Place("ended")]
  /\ LET c == session[at[o].session].attached IN
       IF c = None THEN UNCHANGED inbox ELSE Reply(c, Frame("quiesced", o))
  /\ UNCHANGED ServerStep /\ UNCHANGED <<server, session>>

(* process/read of a process the tracker knows, answered as quiesced. *)
AnswerRead(c, o) ==
  /\ server[c] = "attached" /\ o \in conn[c].processes /\ at[o].place = "ended"
  /\ Frame("read", o) \notin inbox[c]
  /\ Reply(c, Frame("read", o))
  /\ UNCHANGED ServerStep /\ UNCHANGED <<at, server, session>>

(* The server notices the end of a connection and drops what it did not     *)
(* read.                                                                    *)
ServerDisconnect(c) ==
  /\ server[c] \in {"open", "refused", "attached"}
  /\ server' = [server EXCEPT ![c] = IF @ = "attached" THEN "ending" ELSE "ended"]
  /\ at' = [o \in Ops |-> IF at[o].place = "sent" /\ at[o].via = c
                            THEN Place("lost") ELSE at[o]]
  /\ UNCHANGED ServerStep /\ UNCHANGED <<inbox, session>>

Released(c) == [s \in Conns |-> IF session[s].attached = c
                                  THEN [session[s] EXCEPT !.attached = None] ELSE session[s]]

(* shutdown of the handler: open file reads are closed and the session is   *)
(* released.  Nothing waits for a file system mutation: the request that    *)
(* awaited it is dropped and the blocking task goes on.                     *)
ServerDetach(c) ==
  /\ server[c] = "ending"
  /\ server' = [server EXCEPT ![c] = "ended"]
  /\ session' = Released(c)
  /\ UNCHANGED ServerStep /\ UNCHANGED <<at, inbox>>

(* A detached session that nobody resumes is shut down with its processes. *)
SessionExpires(s) ==
  /\ session[s] = [state |-> "live", attached |-> None]
  /\ session' = [session EXCEPT ![s].state = "expired"]
  /\ at' = [o \in Ops |-> IF o \in Processes /\ at[o].place = "running" /\ at[o].session = s
                            THEN Place("ended") ELSE at[o]]
  /\ UNCHANGED ServerStep /\ UNCHANGED <<inbox, server>>

-----------------------------------------------------------------------------
ClientFrame(c) ==
  \/ \E s \in Conns \cup {None} : Open(c, s) \/ Reinitialize(c, s)
  \/ \E o \in Ops : Begin(c, o) \/ Forward(c, o)

ServerFrame(c) ==
  \/ \E o \in Ops : \/ HandleResponse(c, o) \/ HandleQuiesced(c, o) \/ Reattach(c, o)
                    \/ FinishEarlyQuiesced(c, o) \/ SettleFilesystem(c, o)
  \/ HandleRefused(c) \/ HandleInitialized(c) \/ ResumeList(c) \/ ListFilesystem(c)
  \/ Resumed(c) \/ ResumeFails(c)

Detach(c) == StartDetach(c) \/ \E o \in Ops : DetachRow(c, o)

ExecServer(c) ==
  \/ ServerInitialize(c) \/ ServerDisconnect(c) \/ ServerDetach(c) \/ SessionExpires(c)
  \/ \E o \in Ops : Execute(c, o) \/ AnswerRead(c, o)

Next ==
  \/ Rotate \/ StartCapture \/ EndCapture
  \/ \E c \in Conns : \/ Close(c) \/ GatewayCrash(c)
                      \/ ClientFrame(c) \/ ServerFrame(c) \/ Detach(c) \/ ExecServer(c)
  \/ \E o \in Ops : FilesystemEnds(o) \/ ProcessQuiesces(o)

Spec == Init /\ [][Next]_vars

-----------------------------------------------------------------------------
LedgerRow   == [state : {"none", "active", "detached", "finished"},
                session : Conns \cup {None}, generation : Nat]
Tracker     == [life : {"off", "open", "closing", "detaching", "gone"}, phase : Phases,
                generation : Nat, resume : Conns \cup {None}, processes : SUBSET Ops,
                unforwarded : SUBSET Ops, forwarded : SUBSET Ops, quiesced : SUBSET Ops,
                todo : SUBSET Ops, detach : SUBSET Ops]
Whereabouts == [place : {"client", "sent", "lost", "running", "ended"},
                via : Conns \cup {None}, session : Conns \cup {None}]
Frames      == [type : {"initialized", "refused", "response", "error", "read", "quiesced"},
                op : Ops \cup {None}]
ServerLives == {"off", "open", "refused", "attached", "ending", "ended"}
Sessions    == [state : {"none", "live", "expired"}, attached : Conns \cup {None}]

(* Every variable keeps to the values the code gives it. *)
TypeOK ==
  /\ lease \in Lease /\ capturing \in BOOLEAN
  /\ row \in [Ops -> LedgerRow] /\ conn \in [Conns -> Tracker]
  /\ at \in [Ops -> Whereabouts] /\ inbox \in [Conns -> SUBSET Frames]
  /\ server \in [Conns -> ServerLives] /\ session \in [Conns -> Sessions]
  /\ late \subseteq Filesystem

(* A file system mutation that outlived the handler of its connection. *)
Outlived(o) == o \in Filesystem /\ at[o].place = "running" /\ server[at[o].via] = "ended"

(* A finished row tells the truth: the mutation is over, or was never       *)
(* forwarded, and never runs again.  No disconnect, crash, resume on        *)
(* another gateway or late detach finishes the row of a mutation that is on *)
(* its way to the sandbox or at work in it (exec-interaction-tracker.ts).   *)
(* The exceptions are file system mutations: one that outlived its handler, *)
(* and one of a later connection that the slow resume of an earlier one,    *)
(* whose session has moved on, finds and settles.                           *)
FinishedIsOver ==
  \A o \in Ops : row[o].state = "finished" =>
    at[o].place \notin {"sent", "running"} \/ Outlived(o) \/ o \in late

(* While a capture that asserted quiescence holds the lease lock, nothing   *)
(* else that the gateway let through runs in the workspace but the          *)
(* code-mode process: not a mutation of an older generation, of another     *)
(* gateway, or of one that crashed (postgres-lease-interactions.ts          *)
(* assertQuiescent), with the exceptions of FinishedIsOver.                 *)
CaptureIsAccounted ==
  capturing =>
    \A o \in Ops : at[o].place = "running" => Exempt(o) \/ Outlived(o) \/ o \in late

(* The connection a session is attached to tracks every process that runs   *)
(* in it, so that the end of the process can be recorded: also those an     *)
(* earlier connection, possibly of a gateway that crashed, started          *)
(* (exec-interaction-tracker.ts, the resume branch of serverFrame).         *)
AttachedTracksProcesses ==
  \A c \in Conns, o \in Processes :
    /\ conn[c].life = "open" /\ conn[c].phase = "ready"
    /\ at[o].place = "running" /\ session[at[o].session].attached = c
    => o \in conn[c].processes
=============================================================================
