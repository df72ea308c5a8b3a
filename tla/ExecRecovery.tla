------------------------------ MODULE ExecRecovery ------------------------------
(***************************************************************************)
(* A remote process from its client's side (client.rs, client_recovery.rs), *)
(* composed with the server of ExecProcess.  The client starts a process,   *)
(* routes its notifications to an ordered event stream, writes to its       *)
(* stdin, and when the transport breaks resumes the session on a new one    *)
(* and reads what it missed.  A request waits in the inbox of the server;   *)
(* its reply counts only for the task that still waits for it.              *)
(***************************************************************************)
EXTENDS ExecProcess, ExecEvents

CONSTANT MaxWrite  \* bound: attempts of a write to stdin

ASSUME WriteAssumption == MaxWrite \in Nat

VARIABLES
  events,   \* the session's ordered events
  route,    \* the session in the client's sessions map
  status,   \* ConnectionStatus
  current,  \* the connection of a connected client
  reader,   \* the task that drains a connection's events
  task,     \* the starter, the recovery and a writer of stdin
  inbox,    \* requests at the server
  replies,  \* responses at the client
  writes,   \* attempts of the write
  gapped,   \* a recovery found that events are no longer retained
  accepted, \* accepted_stdin_write_ids holds the write
  stdin     \* times the write reached the child

client == <<events, route, status, current, reader, task>>
vars   == <<server, client, inbox, replies, writes, gapped, accepted, stdin>>

Tasks    == {"start", "recover", "write"}
Requests == {"start", "spawn", "terminate", "initialize", "read", "write"}
Idle     == [pc |-> "idle", c |-> 0]

Init ==
  /\ ServerInit
  /\ events = NoEvents
  /\ route = [state |-> "none", recoverable |-> FALSE]
  /\ status = "connected" /\ current = 1
  /\ reader = [c \in Conns |-> IF c = 1 THEN "on" ELSE "off"]
  /\ task = [k \in Tasks |-> Idle]
  /\ inbox = {} /\ replies = {}
  /\ writes = 0 /\ gapped = FALSE
  /\ accepted = FALSE /\ stdin = 0

rest == <<writes, gapped, accepted, stdin>>

Live == status = "connected" /\ conn[current] = "open"

Request(k, op, c, after) == [task |-> k, op |-> op, c |-> c, after |-> after]
Call(k, op, c, after) ==
  /\ task' = [task EXCEPT ![k] = [pc |-> op, c |-> c]]
  /\ inbox' = inbox \cup {Request(k, op, c, after)}
Goes(k, pc) == task' = [task EXCEPT ![k] = [pc |-> pc, c |-> 0]]

(* The reply of the request that task k waits for. *)
Replied(k, op, result) == [task |-> k, op |-> op, c |-> task[k].c, result |-> result] \in replies
Taken(k) == replies' = {r \in replies : r.task # k}
Lost(k)  == task[k].c # 0 /\ conn[task[k].c] = "dead" /\ Taken(k)

Registered == route.state = "registered"
Unrouted   == IF Registered THEN [state |-> "gone", recoverable |-> FALSE] ELSE route
Routed(o)  == IF Over(o) THEN Unrouted ELSE route

-----------------------------------------------------------------------------
(* Requests at the server, handled on the connection of the session. *)

Answer(r, result) ==
  replies' = IF conn[r.c] = "open" /\ task[r.task].c = r.c
             THEN replies \cup {[task |-> r.task, op |-> r.op, c |-> r.c, result |-> result]}
             ELSE replies

Handle(op, r) == r \in inbox /\ r.op = op /\ inbox' = inbox \ {r}

ServeInitialize(r) ==
  /\ Handle("initialize", r)
  /\ session' = IF AttachResult = "ok" THEN [session EXCEPT !.attached = r.c] ELSE session
  /\ Answer(r, AttachResult)
  /\ UNCHANGED <<proc, worker, conn, wire, client, rest>>

(* start_process: reserve, then spawn; the future may be dropped between.   *)
ServeStart(r) ==
  /\ r \in inbox /\ r.op = "start" /\ session.attached = r.c
  /\ proc' = Reserved
  /\ inbox' = (inbox \ {r}) \cup {[r EXCEPT !.op = "spawn"]}
  /\ UNCHANGED <<worker, session, conn, wire, client, replies, rest>>

ServeSpawn(r) ==
  /\ Handle("spawn", r) /\ session.attached = r.c
  /\ \/ proc' = SpawnedProcess /\ worker' = SpawnedWorkers /\ Answer([r EXCEPT !.op = "start"], "ok")
     \/ /\ proc' = Removed /\ UNCHANGED worker
        /\ Answer([r EXCEPT !.op = "start"], "error")
  /\ UNCHANGED <<session, conn, wire, client, rest>>

ServeTerminate(r) ==
  /\ Handle("terminate", r) /\ session.attached = r.c
  /\ proc' = Terminated /\ Answer(r, "ok")
  /\ UNCHANGED <<worker, session, conn, wire, client, rest>>

ServeRead(r) ==
  /\ Handle("read", r) /\ session.attached = r.c
  /\ Answer(r, ReadAfter(r.after))
  /\ UNCHANGED <<server, client, rest>>

(* Mutant: a retried write is written again. *)
MutWriteAccepted == FALSE

WriteAccepted == accepted

(* exec_write: the id is remembered with the write. *)
ServeWrite(r) ==
  /\ Handle("write", r) /\ session.attached = r.c
  /\ \/ /\ Running /\ ~WriteAccepted
        /\ accepted' = TRUE /\ stdin' = stdin + 1 /\ Answer(r, "accepted")
     \/ Running /\ WriteAccepted /\ Answer(r, "accepted") /\ UNCHANGED <<accepted, stdin>>
     \/ ~Running /\ Answer(r, "unknown") /\ UNCHANGED <<accepted, stdin>>
  /\ UNCHANGED <<server, client, writes, gapped>>

(* The server notices a dead transport: its requests are dropped and its    *)
(* session is detached.                                                     *)
ServeDisconnect(c) ==
  /\ conn[c] = "dead" /\ (session.attached = c \/ \E r \in inbox : r.c = c)
  /\ session' = IF session.attached = c THEN [session EXCEPT !.attached = 0] ELSE session
  /\ inbox' = {r \in inbox : r.c # c}
  /\ UNCHANGED <<proc, worker, conn, wire, client, replies, rest>>

Serve(r) ==
  \/ ServeInitialize(r) \/ ServeStart(r) \/ ServeSpawn(r) \/ ServeTerminate(r)
  \/ ServeRead(r) \/ ServeWrite(r)

-----------------------------------------------------------------------------
(* spawn_rpc_reader, one per connection. *)

ReaderHandles(c) ==
  /\ reader[c] = "on" /\ wire[c] # <<>>
  /\ wire' = [wire EXCEPT ![c] = Tail(@)]
  /\ events' = IF Registered THEN PublishOrdered(events, Head(wire[c])) ELSE events
  /\ route' = Routed(events')
  /\ UNCHANGED <<proc, worker, session, conn, status, current, reader, task, inbox, replies, rest>>

(* The disconnect comes last; only the current connection's starts a        *)
(* recovery.                                                                *)
ReaderEnds(c) ==
  /\ reader[c] = "on" /\ conn[c] = "dead" /\ wire[c] = <<>>
  /\ reader' = [reader EXCEPT ![c] = "off"]
  /\ IF status = "connected" /\ current = c
     THEN status' = "recovering" /\ Goes("recover", "wait")
     ELSE UNCHANGED <<status, task>>
  /\ UNCHANGED <<server, events, route, current, inbox, replies, rest>>

-----------------------------------------------------------------------------
(* start_process, and the task it leaves behind when it cannot know what    *)
(* became of its request: cleanup_process_start, in "cleanup" between its   *)
(* calls and in "terminate" during one.                                     *)

StartBegin ==
  /\ route.state = "none" /\ Live
  /\ route' = [state |-> "registered", recoverable |-> FALSE]
  /\ Call("start", "start", current, 0)
  /\ UNCHANGED <<server, events, status, current, reader, replies, rest>>

(* A start that works is cleaned up as well when its caller is gone. *)
StartReturns ==
  /\ task["start"].pc = "start"
  /\ \/ /\ Replied("start", "start", "ok") /\ Goes("start", "started")
        /\ route' = [route EXCEPT !.recoverable = TRUE]
     \/ Replied("start", "start", "ok") /\ Goes("start", "cleanup") /\ UNCHANGED route
     \/ Replied("start", "start", "error") /\ Goes("start", "over") /\ route' = Unrouted
  /\ Taken("start")
  /\ UNCHANGED <<server, events, status, current, reader, inbox, rest>>

(* Mutant: a start whose reply was lost is taken to have failed. *)
MutStartLost ==
  /\ task["start"].pc = "start" /\ Lost("start") /\ Goes("start", "over")
  /\ route' = Unrouted
  /\ UNCHANGED <<server, events, status, current, reader, inbox, rest>>

(* The caller has its error at once; the clean-up is spawned. *)
StartLost ==
  /\ task["start"].pc = "start" /\ Lost("start") /\ Goes("start", "cleanup")
  /\ UNCHANGED <<server, events, route, status, current, reader, inbox, rest>>

CleanupCalls ==
  /\ task["start"].pc = "cleanup" /\ Live
  /\ Call("start", "terminate", current, 0)
  /\ UNCHANGED <<server, events, route, status, current, reader, replies, rest>>

(* Mutant: a lost reply is noticed only when the client has failed. *)
MutCleanupLost ==
  /\ task["start"].pc = "terminate" /\ status = "failed"
  /\ Lost("start") /\ Goes("start", "cleanup")
  /\ UNCHANGED <<server, events, route, status, current, reader, inbox, rest>>

CleanupLost ==
  /\ task["start"].pc = "terminate" /\ Lost("start") /\ Goes("start", "cleanup")
  /\ UNCHANGED <<server, events, route, status, current, reader, inbox, rest>>

CleanupEnds ==
  /\ \/ task["start"].pc = "terminate" /\ Replied("start", "terminate", "ok")
     \/ task["start"].pc = "cleanup" /\ status = "failed"
  /\ Goes("start", "over") /\ route' = Unrouted /\ Taken("start")
  /\ UNCHANGED <<server, events, status, current, reader, inbox, rest>>

StarterStep == StartReturns \/ StartLost \/ CleanupCalls \/ CleanupLost \/ CleanupEnds

-----------------------------------------------------------------------------
(* Session::write, which retries with the same write id. *)

WriteBegin ==
  /\ task["start"].pc = "started" /\ task["write"].pc \in {"idle", "retry"} /\ Live
  /\ writes < MaxWrite /\ writes' = writes + 1
  /\ Call("write", "write", current, 0)
  /\ UNCHANGED <<server, events, route, status, current, reader, replies, gapped, accepted, stdin>>

WriteReturns ==
  /\ task["write"].pc = "write"
  /\ \/ Replied("write", "write", "accepted") /\ Goes("write", "accepted")
     \/ Replied("write", "write", "unknown") /\ Goes("write", "refused")
     \/ Lost("write") /\ Goes("write", IF status = "failed" THEN "refused" ELSE "retry")
  /\ Taken("write")
  /\ UNCHANGED <<server, events, route, status, current, reader, inbox, rest>>

-----------------------------------------------------------------------------
(* Inner::recover and resume_once. *)

(* The candidate is dropped with its transport and its reader. *)
Abandon(c) ==
  /\ conn' = [conn EXCEPT ![c] = "dead"]
  /\ wire' = [wire EXCEPT ![c] = <<>>]
  /\ reader' = [reader EXCEPT ![c] = "off"]

Retry ==
  /\ Abandon(task["recover"].c) /\ Goes("recover", "connect")
  /\ UNCHANGED <<proc, worker, session, events, route, status, current, inbox, rest>>

(* wait_for_process_starts *)
RecoverWaits ==
  /\ task["recover"].pc = "wait" /\ task["start"].pc # "start"
  /\ Goes("recover", "connect")
  /\ UNCHANGED <<server, events, route, status, current, reader, inbox, replies, rest>>

Connect(c) ==
  /\ task["recover"].pc = "connect" /\ conn[c] = "none" /\ \A d \in 1..(c - 1) : conn[d] # "none"
  /\ conn' = [conn EXCEPT ![c] = "open"] /\ reader' = [reader EXCEPT ![c] = "on"]
  /\ Call("recover", "initialize", c, 0)
  /\ UNCHANGED <<proc, worker, session, wire, events, route, status, current, replies, rest>>

(* fail: the session fails with its client. *)
ClientFails ==
  /\ status' = "failed"
  /\ events' = IF Registered THEN Failed(events) ELSE events
  /\ route' = Unrouted

RecoverFails ==
  /\ ClientFails /\ task' = [task EXCEPT !["recover"] = Idle] /\ Taken("recover")
  /\ IF task["recover"].c # 0 THEN Abandon(task["recover"].c) ELSE UNCHANGED <<conn, wire, reader>>
  /\ UNCHANGED <<proc, worker, session, current, inbox, rest>>

Installs == task' = [task EXCEPT !["recover"].pc = "install"]

(* The processes to read are the recoverable ones registered now. *)
Initialized ==
  /\ task["recover"].pc = "initialize"
  /\ \/ /\ Replied("recover", "initialize", "ok") /\ Registered /\ route.recoverable
        /\ Call("recover", "read", task["recover"].c, LastSeq(events)) /\ Taken("recover")
        /\ UNCHANGED <<server, events, route, status, current, reader, rest>>
     \/ /\ Replied("recover", "initialize", "ok") /\ ~(Registered /\ route.recoverable)
        /\ Installs /\ Taken("recover")
        /\ UNCHANGED <<server, events, route, status, current, reader, inbox, rest>>
     \/ Replied("recover", "initialize", "taken") /\ Taken("recover") /\ Retry
     \/ Replied("recover", "initialize", "unknown") /\ RecoverFails

(* A broken candidate, or an initialize that takes too long. *)
RecoverRetries ==
  /\ task["recover"].pc \in {"initialize", "read", "terminate"}
  /\ conn[task["recover"].c] = "dead" \/ task["recover"].pc = "initialize"
  /\ Taken("recover") /\ Retry

(* recover_processes: a read that does not fit the events kills the process. *)
RecoverReads ==
  /\ task["recover"].pc = "read"
  /\ \E r \in {r \in replies : r.task = "recover" /\ r.c = task["recover"].c} :
       LET out == IF r.result.known THEN Recovered(events, r.result) ELSE [o |-> events, bad |-> TRUE]
       IN /\ events' = out.o
          /\ gapped' = (gapped \/ out.bad)
          /\ IF out.bad THEN Call("recover", "terminate", r.c, 0) /\ UNCHANGED route
             ELSE /\ Installs /\ UNCHANGED inbox
                  /\ route' = Routed(out.o)
  /\ Taken("recover")
  /\ UNCHANGED <<server, status, current, reader, writes, accepted, stdin>>

RecoverKills ==
  /\ task["recover"].pc = "terminate" /\ Replied("recover", "terminate", "ok") /\ Taken("recover")
  /\ events' = Failed(events) /\ route' = Unrouted
  /\ Installs
  /\ UNCHANGED <<server, status, current, reader, inbox, rest>>

(* Mutant: the candidate's transport is not looked at again. *)
MutInstallable(c) == TRUE

Installable(c) == conn[c] = "open"

(* install_recovered_client *)
Install ==
  /\ task["recover"].pc = "install"
  /\ LET c == task["recover"].c IN
     \/ /\ Installable(c)
        /\ status' = "connected" /\ current' = c /\ task' = [task EXCEPT !["recover"] = Idle]
        /\ UNCHANGED <<server, events, route, reader, inbox, replies, rest>>
     \/ ~Installable(c) /\ UNCHANGED replies /\ Retry

(* The deadline of the recovery. *)
RecoverTimesOut == status = "recovering" /\ RecoverFails

(* The environment is removed: shutdown. *)
Shutdown ==
  /\ status = "connected" /\ ClientFails
  /\ conn' = [conn EXCEPT ![current] = "dead"]
  /\ UNCHANGED <<proc, worker, session, wire, current, reader, task, inbox, replies, rest>>

RecoverStep ==
  \/ RecoverWaits \/ (\E c \in Conns : Connect(c)) \/ Initialized \/ RecoverRetries
  \/ RecoverReads \/ RecoverKills \/ Install

-----------------------------------------------------------------------------
Unmoved == UNCHANGED <<client, inbox, replies, rest>>

(* Spawned tasks, requests at the server, and what notices a broken         *)
(* transport or a deadline.                                                 *)
Progress ==
  \/ RecoverTimesOut
  \/ \E w \in Workers : WorkerStep(w) /\ Unmoved
  \/ \E r \in inbox : Serve(r)
  \/ \E c \in Conns : ServeDisconnect(c) \/ ReaderEnds(c) \/ ReaderHandles(c)
  \/ StarterStep \/ WriteReturns \/ RecoverStep

Next ==
  \/ Progress
  \/ \E w \in Workers : StreamChunk(w) /\ Unmoved
  \/ WatchExit /\ Unmoved
  \/ DropQuiesced /\ Unmoved
  \/ ExpireSession /\ Unmoved
  \/ \E c \in Conns : Disconnect(c) /\ Unmoved
  \/ StartBegin \/ WriteBegin \/ Shutdown

(* Runnable tasks keep running. *)
Spec == Init /\ [][Next]_vars /\ WF_vars(Progress)

-----------------------------------------------------------------------------
TypeOK ==
  /\ proc.log \in Seq(Kinds) /\ proc.open \subseteq Streams
  /\ proc.state \in {"none", "starting", "running", "removed"}
  /\ session.attached \in 0..MaxConn
  /\ conn \in [Conns -> {"none", "open", "dead"}]
  /\ events.delivered \in Seq(Kinds) /\ Cardinality(events.pending) <= MaxPending
  /\ status \in {"connected", "recovering", "failed"} /\ current \in Conns
  /\ \A r \in inbox : r.op \in Requests /\ r.c \in Conns
  /\ stdin \in Nat

(* Subscribers see the log in order, without gaps or repetitions, and       *)
(* nothing after a failure, whatever was reordered, lost with a connection, *)
(* or came again in a recovery's read.  Once a recovery has found that      *)
(* events are lost, only what they saw before that is promised.             *)
Seen ==
  IF gapped
  THEN SubSeq(events.delivered, 1,
              CHOOSE n \in 0..LastSeq(events) :
                /\ IsPrefix(SubSeq(events.delivered, 1, n), proc.log)
                /\ n < LastSeq(events) => ~IsPrefix(SubSeq(events.delivered, 1, n + 1), proc.log))
  ELSE events.delivered

Promise == INSTANCE EventStream WITH log <- proc.log, seen <- Seen, over <- events.failed
ImplementsEventStream == Promise!Spec

(* A retried write reaches the child once, an accepted one exactly once. *)
StdinIsWrittenOnce == stdin <= 1 /\ (task["write"].pc = "accepted" => stdin = 1)

(* The caller of start_process has seen it fail, or was gone. *)
CleaningUp  == task["start"].pc \in {"cleanup", "terminate"}
StartFailed == CleaningUp \/ task["start"].pc = "over"

(* A start that failed for its caller may have left a child, or a request   *)
(* that will spawn one, only while its clean-up is still at work: when the  *)
(* clean-up has ended on a client that lives, the start was cancelled,      *)
(* killed or never spawned, whatever reply was lost.                        *)
FailedStartLeavesNoProcess ==
  StartFailed /\ status # "failed" =>
    \/ CleaningUp
    \/ /\ ~Running \/ proc.killed \/ Exited
       /\ \A r \in inbox : r.op \notin {"start", "spawn"}

(* The clean-up ends: no chain of broken transports and lost replies leaves *)
(* it, and the child it is to kill, behind for ever.                        *)
FailedStartIsCleanedUp == CleaningUp ~> ~CleaningUp

(* The close of a process reaches its subscribers, or their session ends:   *)
(* no notification lost between two connections leaves them waiting.        *)
CloseIsDelivered == Closed ~> ~Registered
===============================================================================
