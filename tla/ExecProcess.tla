------------------------------ MODULE ExecProcess ------------------------------
(***************************************************************************)
(* The exec server's side of one process id (local_process.rs) in one       *)
(* session (session_registry.rs).  A starting process is an entry of the    *)
(* map; a running one has a task per output stream and one that watches its *)
(* exit.  A task numbers its event under the map's lock and sends the       *)
(* notification afterwards, to whatever connection the session then has, so *)
(* notifications overtake one another and those of a detached session are   *)
(* lost.  Reads are served from the outputs still retained.                 *)
(***************************************************************************)
EXTENDS Naturals, Sequences, FiniteSets, SequencesExt

CONSTANTS
  Streams,      \* output streams of a process (2)
  MaxOutput,    \* bound: output chunks
  MaxRetained,  \* chunks the server retains (50,000, or 1 MiB)
  MaxConn       \* bound: connections of the client

ASSUME ProcessAssumption ==
  /\ "exit" \notin Streams /\ IsFiniteSet(Streams)
  /\ MaxOutput \in Nat /\ MaxRetained \in Nat /\ MaxConn \in Nat \ {0}

VARIABLES
  proc,      \* the entry in the processes map, and the child behind it
  worker,    \* the tasks of the running process
  session,   \* the registered session
  conn,      \* transports, as their two ends see them
  wire       \* notifications on their way to the client

server == <<proc, worker, session, conn, wire>>

Conns   == 1..MaxConn
Workers == Streams \cup {"exit"}
Kinds   == {"output", "exited", "closed"}

(* log is every event numbered so far; next_seq is one more than its length. *)
NoProcess == [state |-> "none", log |-> <<>>, open |-> {}, quiesced |-> FALSE, killed |-> FALSE]

(* The entry leaves the map, with the child dead or its start cancelled. *)
Removed == [NoProcess EXCEPT !.state = "removed", !.log = proc.log, !.killed = TRUE]

Off == [pc |-> "off", seq |-> 0]

ServerInit ==
  /\ proc = NoProcess
  /\ worker = [w \in Workers |-> Off]
  /\ session = [attached |-> 1, live |-> TRUE]
  /\ conn = [c \in Conns |-> IF c = 1 THEN "open" ELSE "none"]
  /\ wire = [c \in Conns |-> <<>>]

Running == proc.state = "running"
Exited  == "exited" \in ToSet(proc.log)
Closed  == "closed" \in ToSet(proc.log)
Outputs == {seq \in 1..Len(proc.log) : proc.log[seq] = "output"}

(* The deque drops its oldest chunks. *)
Retained == {seq \in Outputs : Cardinality({s \in Outputs : s > seq}) < MaxRetained}

-----------------------------------------------------------------------------
(* start_process: the entry is reserved, then the child is spawned. *)
Reserved == [NoProcess EXCEPT !.state = "starting"]

SpawnedProcess == [proc EXCEPT !.state = "running", !.open = Streams]
SpawnedWorkers == [w \in Workers |-> [pc |-> "run", seq |-> 0]]

(* terminate_process: a start is cancelled, a child is killed. *)
Terminated ==
  CASE proc.state = "starting" -> Removed
    [] Running /\ ~Exited -> [proc EXCEPT !.killed = TRUE]
    [] OTHER -> proc

(* exec_read without limits; only a running process is known to it. *)
ReadAfter(seq) ==
  [known |-> Running,
   chunks |-> SetToSortSeq({s \in Retained : s > seq}, LAMBDA a, b : a < b),
   next |-> Len(proc.log) + 1, exited |-> Exited, closed |-> Closed]

-----------------------------------------------------------------------------
(* The tasks of a running process.  One that finds its entry gone stops,    *)
(* here at once; a notification it holds is still sent.                     *)
Orphaned == [w \in Workers |-> IF worker[w].pc = "notify" THEN worker[w] ELSE Off]

Numbered(w, kind, pc) ==
  /\ proc' = [proc EXCEPT !.log = Append(@, kind)]
  /\ worker' = [worker EXCEPT ![w] = [pc |-> pc, seq |-> Len(proc.log) + 1]]
  /\ UNCHANGED <<session, conn, wire>>

WorkerGoes(w, pc) == worker' = [worker EXCEPT ![w] = [pc |-> pc, seq |-> 0]]

(* stream_output *)
StreamChunk(w) ==
  /\ w \in Streams /\ worker[w].pc = "run" /\ Running
  /\ Cardinality(Outputs) < MaxOutput
  /\ Numbered(w, "output", "notify")

(* finish_output_stream *)
StreamEnds(w) ==
  /\ w \in Streams /\ worker[w].pc = "run" /\ Running
  /\ proc' = [proc EXCEPT !.open = @ \ {w}]
  /\ WorkerGoes(w, "close")
  /\ UNCHANGED <<session, conn, wire>>

(* watch_exit *)
WatchExit ==
  /\ worker["exit"].pc = "run" /\ Running
  /\ Numbered("exit", "exited", "notify")

MayClose == ~Closed /\ proc.open = {} /\ Exited

(* maybe_emit_closed *)
MaybeEmitClosed(w) ==
  /\ worker[w].pc = "close" /\ Running
  /\ IF MayClose THEN Numbered(w, "closed", "notify")
     ELSE WorkerGoes(w, "off") /\ UNCHANGED <<proc, session, conn, wire>>

(* The notification goes to the sender of the moment, if there is one.      *)
(* What a dead transport still carries is decided when it dies.             *)
Notify(w) ==
  /\ worker[w].pc = "notify"
  /\ LET ev == [seq |-> worker[w].seq, kind |-> proc.log[worker[w].seq]] IN
     /\ wire' = IF session.attached # 0 /\ conn[session.attached] = "open"
                THEN [wire EXCEPT ![session.attached] = Append(@, ev)] ELSE wire
     /\ WorkerGoes(w, CASE ~Running -> "off"
                        [] ev.kind = "output" -> "run"
                        [] ev.kind = "exited" -> "close"
                        [] OTHER -> "quiesce")
  /\ UNCHANGED <<proc, session, conn>>

(* ensure_quiesced: the process group may resist confirmation. *)
EnsureQuiesced(w) ==
  /\ worker[w].pc = "quiesce" /\ Running
  /\ \E confirmed \in BOOLEAN : proc' = [proc EXCEPT !.quiesced = confirmed, !.killed = TRUE]
  /\ WorkerGoes(w, "off")
  /\ UNCHANGED <<session, conn, wire>>

(* A quiesced entry is dropped after its retention. *)
DropQuiesced ==
  /\ Running /\ proc.quiesced
  /\ proc' = Removed /\ worker' = Orphaned
  /\ UNCHANGED <<session, conn, wire>>

WorkerStep(w) ==
  \/ StreamEnds(w) \/ MaybeEmitClosed(w) \/ Notify(w) \/ EnsureQuiesced(w)

-----------------------------------------------------------------------------
(* Sessions and transports. *)

(* attach: the session of an open connection, unknown, or taken. *)
AttachResult ==
  CASE ~session.live -> "unknown" [] session.attached # 0 -> "taken" [] OTHER -> "ok"

(* The transport breaks; some of what it carried is lost. *)
Disconnect(c) ==
  /\ conn[c] = "open" /\ conn' = [conn EXCEPT ![c] = "dead"]
  /\ \E n \in 0..Len(wire[c]) : wire' = [wire EXCEPT ![c] = SubSeq(@, 1, n)]
  /\ UNCHANGED <<proc, worker, session>>

(* expire_if_detached, and the attach that finds an expired session: its    *)
(* processes are drained and killed.                                        *)
ExpireSession ==
  /\ session.live /\ session.attached = 0
  /\ session' = [session EXCEPT !.live = FALSE]
  /\ proc' = IF proc.state = "none" THEN proc ELSE Removed
  /\ worker' = Orphaned
  /\ UNCHANGED <<conn, wire>>
===============================================================================
