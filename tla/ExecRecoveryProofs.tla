------------------------- MODULE ExecRecoveryProofs -------------------------
(***************************************************************************)
(* Proofs about a remote process and its client (ExecRecovery), for any     *)
(* number of streams, outputs, connections and attempts of a write: a start *)
(* that failed and was cleaned up leaves no process behind, and a write     *)
(* that is retried over a reconnect reaches the child once.                 *)
(***************************************************************************)
EXTENDS ExecRecovery, TLAPS

Processes == [state : {"none", "starting", "running", "removed"}, log : Seq(Kinds),
              open : SUBSET Streams, quiesced : BOOLEAN, killed : BOOLEAN]

Places == {"idle", "start", "started", "cleanup", "terminate", "over",
           "write", "retry", "accepted", "refused",
           "wait", "connect", "initialize", "read", "install"}

(* The parts of the state that the argument is about. *)
PartsTyped ==
  /\ proc \in Processes
  /\ session \in [attached : 0..MaxConn, live : BOOLEAN]
  /\ conn \in [Conns -> {"none", "open", "dead"}]
  /\ current \in Conns
  /\ task \in [Tasks -> [pc : Places, c : 0..MaxConn]]
  /\ \A r \in inbox :
       /\ r = [task |-> r.task, op |-> r.op, c |-> r.c, after |-> r.after]
       /\ r.task \in Tasks /\ r.c \in Conns

(* Only a recovering client has a recovery, and a recovery that has its     *)
(* session has a connection.                                                *)
RecoveryRuns ==
  /\ status # "recovering" => task["recover"].pc = "idle"
  /\ task["recover"].pc \in {"initialize", "read", "terminate", "install"} =>
       task["recover"].c \in Conns

(* The session is attached to the connection the client uses, or is about   *)
(* to use, unless that one broke.                                           *)
SessionFollows ==
  /\ status = "connected" /\ conn[current] # "dead" => session.attached = current
  /\ task["recover"].pc \in {"read", "terminate", "install"} =>
       conn[task["recover"].c] = "dead" \/ session.attached = task["recover"].c
  /\ \A c \in Conns :
       [task |-> "recover", op |-> "initialize", c |-> c, result |-> "ok"] \in replies =>
         conn[c] = "dead" \/ session.attached = c

Starting(r) == r \in inbox /\ r.op \in {"start", "spawn"}

(* One start at most is at the server: on the connection the session is     *)
(* attached to, and awaited, or given up with its connection.               *)
StartIsOne ==
  /\ \A r, q \in inbox : Starting(r) /\ Starting(q) => r = q
  /\ \A r \in inbox : Starting(r) =>
       /\ session.attached = r.c /\ r.task = "start" /\ route.state # "none"
       /\ (task["start"].pc = "start" /\ task["start"].c = r.c) \/ conn[r.c] = "dead"
  /\ route.state = "none" => task["start"].pc = "idle"
  /\ \A r \in inbox : r.op = "terminate" /\ r.task = "start" =>
       task["start"].pc \notin {"idle", "start"}

NoStart  == \A r \in inbox : ~Starting(r)
Harmless == ~Running \/ proc.killed \/ Exited

(* A reply that ends a start, or its cleanup, came after it was over. *)
RepliesAreLast ==
  \A c \in 0..MaxConn :
    /\ \A result \in {"ok", "error"} :
         [task |-> "start", op |-> "start", c |-> c, result |-> result] \in replies =>
           route.state # "none" /\ NoStart /\ (result = "error" => Harmless)
    /\ [task |-> "start", op |-> "terminate", c |-> c, result |-> "ok"] \in replies =>
         route.state # "none" /\ NoStart /\ Harmless

(* The write id is remembered with the write, and only then acknowledged. *)
WriteIsRemembered ==
  /\ accepted \in BOOLEAN /\ stdin = IF accepted THEN 1 ELSE 0
  /\ \A c \in 0..MaxConn :
       [task |-> "write", op |-> "write", c |-> c, result |-> "accepted"] \in replies =>
         accepted
  /\ task["write"].pc = "accepted" => accepted

RecoveryInvariant ==
  /\ PartsTyped /\ RecoveryRuns /\ SessionFollows /\ StartIsOne /\ RepliesAreLast
  /\ FailedStartLeavesNoProcess /\ WriteIsRemembered

-----------------------------------------------------------------------------
(* An answer adds one reply at most, for the task that awaits it. *)
LEMMA AnswerFacts ==
  ASSUME NEW r, NEW result, Answer(r, result),
         NEW k, NEW op, NEW c, NEW res,
         [task |-> k, op |-> op, c |-> c, result |-> res] \in replies'
  PROVE  \/ [task |-> k, op |-> op, c |-> c, result |-> res] \in replies
         \/ /\ k = r.task /\ op = r.op /\ c = r.c /\ res = result
            /\ conn[r.c] = "open" /\ task[r.task].c = r.c
  BY DEF Answer

(* An event is numbered: what has exited stays so. *)
LEMMA LogGrows ==
  ASSUME proc \in Processes, NEW kind \in Kinds,
         proc' = [proc EXCEPT !.log = Append(@, kind)]
  PROVE  proc' \in Processes /\ (Harmless => Harmless')
<1>1. proc.log \in Seq(Kinds) /\ proc' \in Processes
  BY SMTT(30) DEF Processes
<1>2. /\ proc'.log = Append(proc.log, kind) /\ proc'.state = proc.state
      /\ proc'.killed = proc.killed
  BY DEF Processes
<1>3. Exited => Exited'
  <2>1. \A i \in DOMAIN proc.log : i \in DOMAIN proc'.log /\ proc'.log[i] = proc.log[i]
    BY <1>1, <1>2
  <2>2. QED
    BY <2>1 DEF Exited, ToSet
<1>4. QED
  BY <1>1, <1>2, <1>3 DEF Harmless, Running

LEMMA RemovedIsHarmless ==
  ASSUME proc \in Processes, proc' = Removed
  PROVE  proc' \in Processes /\ Harmless' /\ ~Running'
<1>1. Removed \in Processes /\ Removed.state = "removed"
  BY DEF Removed, NoProcess, Processes
<1>2. QED
  BY <1>1 DEF Harmless, Running

(* A process goes on by itself, and may only become more harmless. *)
LEMMA ProcessMoves ==
  ASSUME RecoveryInvariant, proc' \in Processes, Harmless => Harmless',
         session' \in [attached : 0..MaxConn, live : BOOLEAN],
         session'.attached = session.attached,
         UNCHANGED <<conn, current, task, inbox, status, replies, route, accepted, stdin>>
  PROVE  RecoveryInvariant'
<1>1. PartsTyped' /\ RecoveryRuns' /\ WriteIsRemembered'
  BY DEF RecoveryInvariant, PartsTyped, RecoveryRuns, WriteIsRemembered
<1>2. SessionFollows'
  BY DEF RecoveryInvariant, SessionFollows
<1>3. StartIsOne'
  BY DEF RecoveryInvariant, StartIsOne, Starting
<1>4. RepliesAreLast'
  BY DEF RecoveryInvariant, RepliesAreLast, NoStart, Starting
<1>5. FailedStartLeavesNoProcess'
  BY DEF RecoveryInvariant, FailedStartLeavesNoProcess, StartFailed, CleaningUp, Harmless
<1>6. QED
  BY <1>1, <1>2, <1>3, <1>4, <1>5 DEF RecoveryInvariant

(* What the recovery, the readers, a writer and the network do to the state *)
(* of a start: requests of other tasks, replies taken, transports broken.   *)
StartKept ==
  /\ UNCHANGED <<proc, session, accepted, stdin>> /\ task'["start"] = task["start"]
  /\ \A c \in Conns : conn[c] = "dead" => conn'[c] = "dead"
  /\ replies' \subseteq replies
  /\ \A r \in inbox' : r \in inbox \/ (r.op \notin {"start", "spawn"} /\ r.task # "start")
  /\ route'.state = "none" <=> route.state = "none"
  /\ status = "failed" => status' = "failed"
  /\ task'["write"].pc = "accepted" => accepted

LEMMA StartIsKept ==
  ASSUME RecoveryInvariant, StartKept
  PROVE  /\ StartIsOne' /\ RepliesAreLast'
         /\ FailedStartLeavesNoProcess' /\ WriteIsRemembered'
<1>1. \A r : Starting(r)' => Starting(r)
  BY DEF StartKept, Starting
<1>2. StartIsOne'
  BY <1>1 DEF StartKept, RecoveryInvariant, PartsTyped, StartIsOne, Starting
<1>3. UNCHANGED Harmless /\ (NoStart => NoStart')
  BY <1>1 DEF StartKept, Harmless, Running, Exited, NoStart, Starting
<1>4. RepliesAreLast'
  BY <1>3 DEF StartKept, RecoveryInvariant, RepliesAreLast
<1>5. FailedStartLeavesNoProcess'
  BY <1>1
     DEF StartKept, RecoveryInvariant, FailedStartLeavesNoProcess, StartFailed,
         CleaningUp, Starting, Running, Exited
<1>6. WriteIsRemembered'
  BY DEF StartKept, RecoveryInvariant, WriteIsRemembered
<1>7. QED
  BY <1>2, <1>4, <1>5, <1>6

LEMMA ServeDisconnectStep ==
  ASSUME RecoveryInvariant, NEW c \in Conns, ServeDisconnect(c)
  PROVE  RecoveryInvariant'
<1>1. UNCHANGED <<proc, conn, current, task, status, replies, route, accepted, stdin>>
  BY DEF ServeDisconnect, client, rest
<1>2. PartsTyped
  BY DEF RecoveryInvariant
<1>3. /\ conn[c] = "dead" /\ inbox' = {r \in inbox : r.c # c}
      /\ session' \in [attached : 0..MaxConn, live : BOOLEAN]
      /\ session'.attached = IF session.attached = c THEN 0 ELSE session.attached
  BY <1>2, ProcessAssumption DEF ServeDisconnect, PartsTyped
<1>4. PartsTyped' /\ RecoveryRuns' /\ WriteIsRemembered'
  BY <1>1, <1>2, <1>3 DEF RecoveryInvariant, PartsTyped, RecoveryRuns, WriteIsRemembered
<1>5. SessionFollows'
  BY <1>1, <1>3 DEF RecoveryInvariant, SessionFollows
<1>6. StartIsOne'
  BY <1>1, <1>3 DEF RecoveryInvariant, StartIsOne, Starting
<1>7. (NoStart => NoStart') /\ UNCHANGED Harmless
  BY <1>1, <1>3 DEF NoStart, Starting, Harmless, Running, Exited
<1>8. RepliesAreLast'
  BY <1>1, <1>7 DEF RecoveryInvariant, RepliesAreLast
<1>9. FailedStartLeavesNoProcess'
  BY <1>1, <1>3, <1>7
     DEF RecoveryInvariant, FailedStartLeavesNoProcess, StartFailed, CleaningUp, Harmless
<1>10. QED
  BY <1>4, <1>5, <1>6, <1>8, <1>9 DEF RecoveryInvariant

(* A session is attached only while it is detached, when no start can be at *)
(* the server and no connection is in use.                                  *)
LEMMA ServeInitializeStep ==
  ASSUME RecoveryInvariant, NEW r \in inbox, ServeInitialize(r)
  PROVE  RecoveryInvariant'
<1>1. UNCHANGED <<proc, conn, current, task, status, route, accepted, stdin>>
  BY DEF ServeInitialize, client, rest
<1>2. PartsTyped
  BY DEF RecoveryInvariant
<1>3. inbox' = inbox \ {r} /\ r.op = "initialize"
  BY DEF ServeInitialize, Handle
<1>4. /\ session' \in [attached : 0..MaxConn, live : BOOLEAN]
      /\ \/ AttachResult = "ok" /\ session.attached = 0 /\ session'.attached = r.c
         \/ AttachResult # "ok" /\ session'.attached = session.attached
  BY <1>2 DEF ServeInitialize, PartsTyped, AttachResult, Conns
<1>5. \A k, op, c, res : [task |-> k, op |-> op, c |-> c, result |-> res] \in replies' =>
        \/ [task |-> k, op |-> op, c |-> c, result |-> res] \in replies
        \/ op = "initialize" /\ c = r.c /\ res = AttachResult
  BY <1>3, AnswerFacts DEF ServeInitialize
<1>6. PartsTyped' /\ RecoveryRuns'
  BY <1>1, <1>2, <1>3, <1>4 DEF RecoveryInvariant, PartsTyped, RecoveryRuns
<1>7. SessionFollows'
  BY <1>1, <1>2, <1>4, <1>5
     DEF RecoveryInvariant, PartsTyped, SessionFollows, RecoveryRuns, Conns
<1>8. StartIsOne'
  BY <1>1, <1>2, <1>3, <1>4 DEF RecoveryInvariant, PartsTyped, StartIsOne, Starting, Conns
<1>9. (NoStart => NoStart') /\ UNCHANGED Harmless
  BY <1>1, <1>3 DEF NoStart, Starting, Harmless, Running, Exited
<1>10. RepliesAreLast'
  <2>1. \A op \in Requests \ {"initialize"} : \A k, c, res :
          [task |-> k, op |-> op, c |-> c, result |-> res] \in replies' =>
            [task |-> k, op |-> op, c |-> c, result |-> res] \in replies
    BY <1>5
  <2>2. QED
    BY <1>1, <1>9, <2>1 DEF RecoveryInvariant, RepliesAreLast, Requests
<1>11. FailedStartLeavesNoProcess'
  BY <1>1, <1>3, <1>9
     DEF RecoveryInvariant, FailedStartLeavesNoProcess, StartFailed, CleaningUp, Harmless
<1>12. WriteIsRemembered'
  BY <1>1, <1>5 DEF RecoveryInvariant, WriteIsRemembered
<1>13. QED
  BY <1>6, <1>7, <1>8, <1>10, <1>11, <1>12 DEF RecoveryInvariant

(* The request that starts is alone, so no start was answered or failed. *)
LEMMA StartIsAlone ==
  ASSUME RecoveryInvariant, NEW r, Starting(r)
  PROVE  /\ \A q \in inbox : Starting(q) => q = r
         /\ session.attached = r.c /\ r.task = "start" /\ route.state # "none"
         /\ \A c \in 0..MaxConn :
           /\ \A result \in {"ok", "error"} :
             [task |-> "start", op |-> "start", c |-> c, result |-> result] \notin replies
           /\ [task |-> "start", op |-> "terminate", c |-> c, result |-> "ok"] \notin replies
         /\ ~(task["start"].pc = "over" /\ status # "failed")
<1>1. r \in inbox /\ ~NoStart
  BY DEF Starting, NoStart
<1>2. QED
  BY <1>1
     DEF RecoveryInvariant, StartIsOne, RepliesAreLast, FailedStartLeavesNoProcess,
         StartFailed, CleaningUp, Starting

LEMMA ServeStartStep ==
  ASSUME RecoveryInvariant, NEW r \in inbox, ServeStart(r)
  PROVE  RecoveryInvariant'
<1> DEFINE q == [r EXCEPT !.op = "spawn"]
<1>1. UNCHANGED <<conn, current, session, task, status, replies, route, accepted, stdin>>
  BY DEF ServeStart, client, rest
<1>2. PartsTyped
  BY DEF RecoveryInvariant
<1>3. /\ r = [task |-> r.task, op |-> r.op, c |-> r.c, after |-> r.after]
      /\ r.task \in Tasks /\ r.c \in Conns
  BY <1>2 DEF PartsTyped
<1>4. /\ q = [task |-> q.task, op |-> q.op, c |-> q.c, after |-> q.after]
      /\ q.op = "spawn" /\ q.c = r.c /\ q.task = r.task
  BY <1>3
<1>5. inbox' = (inbox \ {r}) \cup {q} /\ Starting(r) /\ proc' = Reserved
  BY DEF ServeStart, Starting
<1> HIDE DEF q
<1>6. proc' \in Processes
  <2>1. NoProcess \in Processes
    BY DEF NoProcess, Processes
  <2>2. QED
    BY <1>5, <2>1 DEF Reserved, Processes
<1>7. PartsTyped'
  BY <1>1, <1>2, <1>3, <1>4, <1>5, <1>6 DEF PartsTyped
<1>8. RecoveryRuns' /\ SessionFollows' /\ WriteIsRemembered'
  BY <1>1 DEF RecoveryInvariant, RecoveryRuns, SessionFollows, WriteIsRemembered
<1>9. \A x \in inbox' : Starting(x)' => x = q
  BY <1>5, StartIsAlone DEF Starting
<1>10. StartIsOne'
  BY <1>1, <1>3, <1>4, <1>5, <1>9, StartIsAlone
     DEF RecoveryInvariant, StartIsOne, Starting
<1>11. RepliesAreLast' /\ FailedStartLeavesNoProcess'
  BY <1>1, <1>5, StartIsAlone
     DEF RepliesAreLast, FailedStartLeavesNoProcess, StartFailed, CleaningUp
<1>12. QED
  BY <1>7, <1>8, <1>10, <1>11 DEF RecoveryInvariant

LEMMA ServeSpawnStep ==
  ASSUME RecoveryInvariant, NEW r \in inbox, ServeSpawn(r)
  PROVE  RecoveryInvariant'
<1> DEFINE q == [r EXCEPT !.op = "start"]
<1>1. UNCHANGED <<conn, current, session, task, status, route, accepted, stdin>>
  BY DEF ServeSpawn, client, rest
<1>2. PartsTyped
  BY DEF RecoveryInvariant
<1>3. inbox' = inbox \ {r} /\ Starting(r)
  BY DEF ServeSpawn, Handle, Starting
<1>4. q.op = "start" /\ q.c = r.c /\ q.task = "start"
  BY <1>2, <1>3, StartIsAlone DEF PartsTyped
<1>5. PICK result \in {"ok", "error"} :
        /\ Answer(q, result) /\ proc' \in Processes
        /\ result = "error" => Harmless'
  <2>1. SpawnedProcess \in Processes
    BY <1>2 DEF PartsTyped, SpawnedProcess, Processes
  <2>2. CASE proc' = SpawnedProcess /\ Answer(q, "ok")
    BY <2>1, <2>2
  <2>3. CASE proc' = Removed /\ Answer(q, "error")
    BY <1>2, <2>3, RemovedIsHarmless DEF PartsTyped
  <2>4. QED
    BY <2>2, <2>3 DEF ServeSpawn
<1> HIDE DEF q
<1>6. \A k, op, c, res : [task |-> k, op |-> op, c |-> c, result |-> res] \in replies' =>
        \/ [task |-> k, op |-> op, c |-> c, result |-> res] \in replies
        \/ k = "start" /\ op = "start" /\ res = result
  BY <1>4, <1>5, AnswerFacts
<1>7. PartsTyped' /\ RecoveryRuns'
  BY <1>1, <1>2, <1>3, <1>5 DEF RecoveryInvariant, PartsTyped, RecoveryRuns
<1>8. SessionFollows' /\ WriteIsRemembered'
  BY <1>1, <1>6 DEF RecoveryInvariant, SessionFollows, WriteIsRemembered
<1>9. NoStart' /\ route.state # "none"
  BY <1>3, StartIsAlone DEF NoStart, Starting
<1>10. StartIsOne'
  BY <1>1, <1>3, <1>9 DEF RecoveryInvariant, StartIsOne, NoStart, Starting
<1>11. RepliesAreLast'
  <2>1. \A c \in 0..MaxConn, res \in {"ok", "error"} :
          [task |-> "start", op |-> "start", c |-> c, result |-> res] \in replies' =>
            res = result
    BY <1>3, <1>6, StartIsAlone, ZenonT(60)
  <2>2. \A c \in 0..MaxConn :
          [task |-> "start", op |-> "terminate", c |-> c, result |-> "ok"] \notin replies'
    BY <1>3, <1>6, StartIsAlone, ZenonT(60)
  <2>3. QED
    BY <1>1, <1>5, <1>9, <2>1, <2>2 DEF RepliesAreLast
<1>12. FailedStartLeavesNoProcess'
  BY <1>1, <1>3, StartIsAlone DEF FailedStartLeavesNoProcess, StartFailed, CleaningUp
<1>13. QED
  BY <1>7, <1>8, <1>10, <1>11, <1>12 DEF RecoveryInvariant

(* A cleanup is answered on a connection that still works, where the        *)
(* session is: a start that was lost cannot be there any more.              *)
LEMMA ServeTerminateStep ==
  ASSUME RecoveryInvariant, NEW r \in inbox, ServeTerminate(r)
  PROVE  RecoveryInvariant'
<1>1. UNCHANGED <<conn, current, session, task, status, route, accepted, stdin>>
  BY DEF ServeTerminate, client, rest
<1>2. PartsTyped /\ proc \in Processes
  BY DEF RecoveryInvariant, PartsTyped
<1>3. inbox' = inbox \ {r} /\ r.op = "terminate" /\ session.attached = r.c
  BY DEF ServeTerminate, Handle
<1>4. proc' \in Processes /\ Harmless'
  <2>1. proc' = Terminated
    BY DEF ServeTerminate
  <2>2. CASE proc.state = "starting"
    <3>1. proc' = Removed
      BY <2>1, <2>2 DEF Terminated, Running
    <3>2. QED
      BY <1>2, <3>1, RemovedIsHarmless
  <2>3. CASE proc.state # "starting" /\ Running /\ ~Exited
    <3>1. proc' = [proc EXCEPT !.killed = TRUE]
      BY <2>1, <2>3 DEF Terminated
    <3>2. QED
      BY <1>2, <3>1 DEF Processes, Harmless
  <2>4. CASE proc.state # "starting" /\ ~(Running /\ ~Exited)
    <3>1. proc' = proc
      BY <2>1, <2>4 DEF Terminated
    <3>2. QED
      BY <1>2, <2>4, <3>1 DEF Harmless, Running, Exited
  <2>5. QED
    BY <2>2, <2>3, <2>4
<1>5. \A k, op, c, res : [task |-> k, op |-> op, c |-> c, result |-> res] \in replies' =>
        \/ [task |-> k, op |-> op, c |-> c, result |-> res] \in replies
        \/ k = r.task /\ op = "terminate" /\ conn[r.c] = "open"
  BY <1>3, AnswerFacts DEF ServeTerminate
<1>6. PartsTyped' /\ RecoveryRuns'
  BY <1>1, <1>2, <1>3, <1>4 DEF RecoveryInvariant, PartsTyped, RecoveryRuns
<1>7. SessionFollows' /\ WriteIsRemembered'
  BY <1>1, <1>5 DEF RecoveryInvariant, SessionFollows, WriteIsRemembered
<1>8. StartIsOne' /\ (NoStart => NoStart')
  BY <1>1, <1>3 DEF RecoveryInvariant, StartIsOne, NoStart, Starting
<1>9. ASSUME r.task = "start", conn[r.c] = "open"
      PROVE  NoStart /\ route.state # "none"
  <2>1. task["start"].pc \notin {"idle", "start"} /\ route.state # "none"
    BY <1>3, <1>9 DEF RecoveryInvariant, StartIsOne
  <2>2. ASSUME NEW q \in inbox, Starting(q)
        PROVE  FALSE
    <3>1. q.c = r.c /\ task["start"].pc = "start"
      BY <1>3, <1>9, <2>2 DEF RecoveryInvariant, StartIsOne
    <3>2. QED
      BY <2>1, <3>1
  <2>3. QED
    BY <2>1, <2>2 DEF NoStart
<1>10. RepliesAreLast'
  BY <1>1, <1>4, <1>5, <1>8, <1>9 DEF RecoveryInvariant, RepliesAreLast
<1>11. FailedStartLeavesNoProcess'
  BY <1>1, <1>3, <1>4
     DEF RecoveryInvariant, FailedStartLeavesNoProcess, StartFailed, CleaningUp, Harmless
<1>12. QED
  BY <1>6, <1>7, <1>8, <1>10, <1>11 DEF RecoveryInvariant

LEMMA ServeReadStep ==
  ASSUME RecoveryInvariant, NEW r \in inbox, ServeRead(r)
  PROVE  RecoveryInvariant'
<1>1. UNCHANGED <<proc, conn, current, session, task, status, route, accepted, stdin>>
  BY DEF ServeRead, client, server, rest
<1>2. inbox' = inbox \ {r} /\ r.op = "read"
  BY DEF ServeRead, Handle
<1>3. \A k, op, c, res : [task |-> k, op |-> op, c |-> c, result |-> res] \in replies' =>
        [task |-> k, op |-> op, c |-> c, result |-> res] \in replies \/ op = "read"
  BY <1>2, AnswerFacts DEF ServeRead
<1>4. PartsTyped' /\ RecoveryRuns'
  BY <1>1, <1>2 DEF RecoveryInvariant, PartsTyped, RecoveryRuns
<1>5. SessionFollows' /\ WriteIsRemembered'
  BY <1>1, <1>3 DEF RecoveryInvariant, SessionFollows, WriteIsRemembered
<1>6. StartIsOne' /\ (NoStart => NoStart') /\ UNCHANGED Harmless
  BY <1>1, <1>2
     DEF RecoveryInvariant, StartIsOne, NoStart, Starting, Harmless, Running, Exited
<1>7. RepliesAreLast'
  BY <1>1, <1>3, <1>6 DEF RecoveryInvariant, RepliesAreLast
<1>8. FailedStartLeavesNoProcess'
  BY <1>1, <1>2, <1>6
     DEF RecoveryInvariant, FailedStartLeavesNoProcess, StartFailed, CleaningUp, Harmless
<1>9. QED
  BY <1>4, <1>5, <1>6, <1>7, <1>8 DEF RecoveryInvariant

LEMMA ServeWriteStep ==
  ASSUME RecoveryInvariant, NEW r \in inbox, ServeWrite(r)
  PROVE  RecoveryInvariant'
<1>1. UNCHANGED <<proc, conn, current, session, task, status, route>>
  BY DEF ServeWrite, client, server
<1>2. inbox' = inbox \ {r} /\ r.op = "write"
  BY DEF ServeWrite, Handle
<1>3. PICK result \in {"accepted", "unknown"} :
        /\ Answer(r, result)
        /\ \/ accepted = FALSE /\ accepted' = TRUE /\ stdin' = stdin + 1
           \/ UNCHANGED <<accepted, stdin>> /\ (result = "accepted" => accepted)
  BY DEF ServeWrite, WriteAccepted, RecoveryInvariant, WriteIsRemembered
<1>4. \A k, op, c, res : [task |-> k, op |-> op, c |-> c, result |-> res] \in replies' =>
        \/ [task |-> k, op |-> op, c |-> c, result |-> res] \in replies
        \/ op = "write" /\ res = result
  BY <1>2, <1>3, AnswerFacts
<1>5. PartsTyped' /\ RecoveryRuns'
  BY <1>1, <1>2 DEF RecoveryInvariant, PartsTyped, RecoveryRuns
<1>6. SessionFollows'
  BY <1>1, <1>4 DEF RecoveryInvariant, SessionFollows
<1>7. WriteIsRemembered'
  <2>1. /\ accepted \in BOOLEAN /\ stdin = IF accepted THEN 1 ELSE 0
        /\ task["write"].pc = "accepted" => accepted
    BY DEF RecoveryInvariant, WriteIsRemembered
  <2>2. /\ accepted' \in BOOLEAN /\ stdin' = (IF accepted' THEN 1 ELSE 0)
        /\ (accepted => accepted')
    <3>1. CASE accepted = FALSE /\ accepted' = TRUE /\ stdin' = stdin + 1
      <4>1. stdin = 0
        BY <2>1, <3>1
      <4>2. stdin' = 1
        BY <3>1, <4>1
      <4>3. QED
        BY <3>1, <4>2
    <3>2. CASE UNCHANGED <<accepted, stdin>>
      BY <2>1, <3>2
    <3>3. QED
      BY <1>3, <3>1, <3>2
  <2>3. ASSUME NEW c \in 0..MaxConn,
               [task |-> "write", op |-> "write", c |-> c, result |-> "accepted"] \in replies'
        PROVE  accepted'
    BY <1>3, <1>4, <2>2, <2>3 DEF RecoveryInvariant, WriteIsRemembered
  <2>4. QED
    BY <1>1, <2>1, <2>2, <2>3 DEF WriteIsRemembered
<1>8. StartIsOne' /\ (NoStart => NoStart') /\ UNCHANGED Harmless
  BY <1>1, <1>2
     DEF RecoveryInvariant, StartIsOne, NoStart, Starting, Harmless, Running, Exited
<1>9. RepliesAreLast'
  BY <1>1, <1>4, <1>8 DEF RecoveryInvariant, RepliesAreLast
<1>10. FailedStartLeavesNoProcess'
  BY <1>1, <1>2, <1>8
     DEF RecoveryInvariant, FailedStartLeavesNoProcess, StartFailed, CleaningUp, Harmless
<1>11. QED
  BY <1>5, <1>6, <1>7, <1>8, <1>9, <1>10 DEF RecoveryInvariant

-----------------------------------------------------------------------------
(* The starter. *)

LEMMA StartBeginStep ==
  ASSUME RecoveryInvariant, StartBegin
  PROVE  RecoveryInvariant'
<1> DEFINE q == Request("start", "start", current, 0)
<1>1. UNCHANGED <<proc, session, conn, current, status, replies, accepted, stdin>>
  BY DEF StartBegin, server, rest
<1>2. PartsTyped /\ current \in 0..MaxConn
  BY DEF RecoveryInvariant, PartsTyped, Conns
<1>3. /\ route.state = "none" /\ route'.state = "registered" /\ inbox' = inbox \cup {q}
      /\ status = "connected" /\ conn[current] = "open"
  BY DEF StartBegin, Call, Live
<1>4. /\ task' \in [Tasks -> [pc : Places, c : 0..MaxConn]]
      /\ task'["start"].pc = "start" /\ task'["start"].c = current
      /\ task'["recover"] = task["recover"] /\ task'["write"] = task["write"]
  <2>1. task' = [task EXCEPT !["start"] = [pc |-> "start", c |-> current]]
    BY DEF StartBegin, Call
  <2>2. QED
    BY <1>2, <2>1 DEF PartsTyped, Tasks, Places
<1>5. /\ q = [task |-> q.task, op |-> q.op, c |-> q.c, after |-> q.after]
      /\ q.task = "start" /\ q.op = "start" /\ q.c = current
  BY DEF Request
<1> HIDE DEF q
<1>6. PartsTyped'
  BY <1>1, <1>2, <1>3, <1>4, <1>5 DEF PartsTyped, Tasks
<1>7. RecoveryRuns' /\ SessionFollows' /\ WriteIsRemembered'
  BY <1>1, <1>4 DEF RecoveryInvariant, RecoveryRuns, SessionFollows, WriteIsRemembered
<1>8. session.attached = current /\ NoStart /\ task["start"].pc = "idle"
  BY <1>3 DEF RecoveryInvariant, SessionFollows, StartIsOne, NoStart
<1>9. StartIsOne'
  <2>1. \A r \in inbox' : Starting(r)' => r = q
    BY <1>3, <1>8 DEF NoStart, Starting
  <2>2. \A r \in inbox' : ~(r.op = "terminate" /\ r.task = "start")
    BY <1>3, <1>5, <1>8 DEF RecoveryInvariant, StartIsOne
  <2>3. QED
    BY <1>1, <1>3, <1>4, <1>5, <1>8, <2>1, <2>2 DEF StartIsOne
<1>10. RepliesAreLast'
  BY <1>1, <1>3 DEF RecoveryInvariant, RepliesAreLast
<1>11. FailedStartLeavesNoProcess'
  BY <1>4 DEF FailedStartLeavesNoProcess, StartFailed, CleaningUp
<1>12. QED
  BY <1>6, <1>7, <1>9, <1>10, <1>11 DEF RecoveryInvariant

(* A start, or its cleanup, that goes on without a new start: it is answered *)
(* or given up, and a start still at the server is on a broken connection.  *)
StarterMove ==
  /\ UNCHANGED <<proc, session, conn, current, status, accepted, stdin>>
  /\ route.state # "none" /\ route'.state # "none"
  /\ task' \in [Tasks -> [pc : Places, c : 0..MaxConn]]
  /\ task'["recover"] = task["recover"] /\ task'["write"] = task["write"]
  /\ task'["start"].pc \notin {"idle", "start"}
  /\ replies' \subseteq replies
  /\ \A r \in inbox : Starting(r) => conn[r.c] = "dead"
  /\ \A r \in inbox' : r \in inbox \/ r = Request("start", "terminate", current, 0)
  /\ task'["start"].pc = "over" /\ status # "failed" =>
       inbox' = inbox /\ NoStart /\ Harmless

LEMMA StarterMoves ==
  ASSUME RecoveryInvariant, StarterMove
  PROVE  RecoveryInvariant'
<1> DEFINE q == Request("start", "terminate", current, 0)
<1>1. /\ q = [task |-> q.task, op |-> q.op, c |-> q.c, after |-> q.after]
      /\ q.task = "start" /\ q.op = "terminate" /\ q.c = current
  BY DEF Request
<1>2. PartsTyped /\ \A r \in inbox' : r \in inbox \/ r = q
  BY DEF RecoveryInvariant, StarterMove
<1> HIDE DEF q
<1>3. PartsTyped'
  BY <1>1, <1>2 DEF StarterMove, PartsTyped, Tasks
<1>4. RecoveryRuns' /\ SessionFollows' /\ WriteIsRemembered'
  BY DEF StarterMove, RecoveryInvariant, RecoveryRuns, SessionFollows, WriteIsRemembered
<1>5. \A r \in inbox' : Starting(r)' => r \in inbox /\ Starting(r)
  BY <1>1, <1>2 DEF Starting
<1>6. StartIsOne'
  BY <1>5 DEF StarterMove, RecoveryInvariant, StartIsOne
<1>7. (NoStart => NoStart') /\ UNCHANGED Harmless
  BY <1>5 DEF StarterMove, NoStart, Harmless, Running, Exited
<1>8. RepliesAreLast'
  BY <1>7 DEF StarterMove, RecoveryInvariant, RepliesAreLast
<1>9. FailedStartLeavesNoProcess'
  BY DEF StarterMove, FailedStartLeavesNoProcess, StartFailed, CleaningUp, NoStart, Starting,
         Harmless, Running,
         Exited
<1>10. QED
  BY <1>3, <1>4, <1>6, <1>8, <1>9 DEF RecoveryInvariant

(* The starter goes on to pc. *)
LEMMA StarterGoes ==
  ASSUME RecoveryInvariant, NEW pc \in Places, Goes("start", pc)
  PROVE  /\ task' \in [Tasks -> [pc : Places, c : 0..MaxConn]] /\ task'["start"].pc = pc
         /\ task'["recover"] = task["recover"] /\ task'["write"] = task["write"]
  BY ProcessAssumption DEF RecoveryInvariant, PartsTyped, Goes, Tasks

(* A route that ends was not absent. *)
LEMMA UnroutedIsRouted ==
  ASSUME RecoveryInvariant, task["start"].pc # "idle"
  PROVE  route.state # "none" /\ Unrouted.state # "none"
  BY DEF RecoveryInvariant, StartIsOne, Unrouted

LEMMA StartReturnsStep ==
  ASSUME RecoveryInvariant, StartReturns
  PROVE  RecoveryInvariant'
<1>1. /\ UNCHANGED <<proc, session, conn, current, status, accepted, stdin>>
      /\ inbox' = inbox /\ task["start"].pc = "start" /\ replies' \subseteq replies
  BY DEF StartReturns, server, rest, Taken
<1>2. route.state # "none" /\ Unrouted.state # "none"
  BY <1>1, UnroutedIsRouted
<1>3. task["start"].c \in 0..MaxConn
  BY DEF RecoveryInvariant, PartsTyped, Tasks
<1>4. ASSUME NEW result \in {"ok", "error"}, Replied("start", "start", result)
      PROVE  NoStart /\ (result = "error" => Harmless)
  BY <1>3, <1>4 DEF RecoveryInvariant, RepliesAreLast, Replied
<1>5. PICK pc \in {"started", "cleanup", "over"} :
        /\ Goes("start", pc) /\ NoStart
        /\ route'.state # "none" /\ (pc = "over" => Harmless)
  <2>1. CASE /\ Replied("start", "start", "ok") /\ Goes("start", "started")
             /\ route' = [route EXCEPT !.recoverable = TRUE]
    BY <1>2, <1>4, <2>1
  <2>2. CASE /\ Replied("start", "start", "ok") /\ Goes("start", "cleanup")
             /\ UNCHANGED route
    BY <1>2, <1>4, <2>2
  <2>3. CASE /\ Replied("start", "start", "error") /\ Goes("start", "over")
             /\ route' = Unrouted
    BY <1>2, <1>4, <2>3
  <2>4. QED
    BY <2>1, <2>2, <2>3 DEF StartReturns
<1>6. /\ task' \in [Tasks -> [pc : Places, c : 0..MaxConn]] /\ task'["start"].pc = pc
      /\ task'["recover"] = task["recover"] /\ task'["write"] = task["write"]
  BY <1>5, StarterGoes DEF Places
<1>7. \A r \in inbox : ~Starting(r)
  BY <1>5 DEF NoStart
<1>8. StarterMove
  BY <1>1, <1>2, <1>5, <1>6, <1>7 DEF StarterMove
<1>9. QED
  BY <1>8, StarterMoves

LEMMA StartLostStep ==
  ASSUME RecoveryInvariant, StartLost \/ CleanupLost
  PROVE  RecoveryInvariant'
<1>1. /\ UNCHANGED <<proc, session, conn, current, status, accepted, stdin>>
      /\ inbox' = inbox /\ route' = route /\ replies' \subseteq replies
  BY DEF StartLost, CleanupLost, server, rest, Lost, Taken
<1>2. /\ task["start"].pc # "idle" /\ conn[task["start"].c] = "dead"
      /\ Goes("start", "cleanup")
  BY DEF StartLost, CleanupLost, Lost
<1>3. route.state # "none"
  BY <1>2, UnroutedIsRouted
<1>4. \A r \in inbox : Starting(r) => conn[r.c] = "dead"
  BY <1>2 DEF RecoveryInvariant, StartIsOne
<1>5. /\ task' \in [Tasks -> [pc : Places, c : 0..MaxConn]]
      /\ task'["start"].pc = "cleanup"
      /\ task'["recover"] = task["recover"] /\ task'["write"] = task["write"]
  BY <1>2, StarterGoes DEF Places
<1>6. StarterMove
  BY <1>1, <1>3, <1>4, <1>5 DEF StarterMove
<1>7. QED
  BY <1>6, StarterMoves

LEMMA CleanupCallsStep ==
  ASSUME RecoveryInvariant, CleanupCalls
  PROVE  RecoveryInvariant'
<1>1. /\ UNCHANGED <<proc, session, conn, current, status, accepted, stdin>>
      /\ route' = route /\ replies' \subseteq replies /\ task["start"].pc = "cleanup"
      /\ inbox' = inbox \cup {Request("start", "terminate", current, 0)}
  BY DEF CleanupCalls, Call, server, rest
<1>2. route.state # "none"
  BY <1>1, UnroutedIsRouted
<1>3. \A r \in inbox : Starting(r) => conn[r.c] = "dead"
  BY <1>1 DEF RecoveryInvariant, StartIsOne
<1>4. /\ task' \in [Tasks -> [pc : Places, c : 0..MaxConn]]
      /\ task'["start"].pc = "terminate"
      /\ task'["recover"] = task["recover"] /\ task'["write"] = task["write"]
  BY ProcessAssumption
     DEF CleanupCalls, Call, RecoveryInvariant, PartsTyped, Tasks, Conns, Places
<1>5. StarterMove
  BY <1>1, <1>2, <1>3, <1>4 DEF StarterMove
<1>6. QED
  BY <1>5, StarterMoves

(* A cleanup ends with the answer of its terminate, after any start, or with *)
(* the client.                                                              *)
LEMMA CleanupEndsStep ==
  ASSUME RecoveryInvariant, CleanupEnds
  PROVE  RecoveryInvariant'
<1>1. /\ UNCHANGED <<proc, session, conn, current, status, accepted, stdin>>
      /\ inbox' = inbox /\ route' = Unrouted /\ replies' \subseteq replies
      /\ Goes("start", "over") /\ task["start"].pc \in {"terminate", "cleanup"}
  BY DEF CleanupEnds, server, rest, Taken
<1>2. route.state # "none" /\ Unrouted.state # "none"
  BY <1>1, UnroutedIsRouted
<1>3. \A r \in inbox : Starting(r) => conn[r.c] = "dead"
  BY <1>1 DEF RecoveryInvariant, StartIsOne
<1>4. status # "failed" => NoStart /\ Harmless
  <2>1. task["start"].c \in 0..MaxConn
    BY DEF RecoveryInvariant, PartsTyped, Tasks
  <2>2. QED
    BY <2>1 DEF CleanupEnds, RecoveryInvariant, RepliesAreLast, Replied
<1>5. /\ task' \in [Tasks -> [pc : Places, c : 0..MaxConn]]
      /\ task'["start"].pc = "over"
      /\ task'["recover"] = task["recover"] /\ task'["write"] = task["write"]
  BY <1>1, StarterGoes DEF Places
<1>6. StarterMove
  BY <1>1, <1>2, <1>3, <1>4, <1>5 DEF StarterMove
<1>7. QED
  BY <1>6, StarterMoves

-----------------------------------------------------------------------------
(* A writer, the readers and the network. *)

LEMMA WriteBeginStep ==
  ASSUME RecoveryInvariant, WriteBegin
  PROVE  RecoveryInvariant'
<1> DEFINE q == Request("write", "write", current, 0)
<1>1. UNCHANGED <<proc, session, conn, current, status, route, replies, accepted, stdin>>
  BY DEF WriteBegin, server
<1>2. PartsTyped /\ current \in 0..MaxConn
  BY DEF RecoveryInvariant, PartsTyped, Conns
<1>3. inbox' = inbox \cup {q}
  BY DEF WriteBegin, Call
<1>4. /\ q = [task |-> q.task, op |-> q.op, c |-> q.c, after |-> q.after]
      /\ q.task = "write" /\ q.op = "write" /\ q.c = current
  BY DEF Request
<1> HIDE DEF q
<1>5. /\ task' \in [Tasks -> [pc : Places, c : 0..MaxConn]]
      /\ task'["write"].pc = "write"
      /\ task'["start"] = task["start"] /\ task'["recover"] = task["recover"]
  <2>1. task' = [task EXCEPT !["write"] = [pc |-> "write", c |-> current]]
    BY DEF WriteBegin, Call
  <2>2. QED
    BY <1>2, <2>1 DEF PartsTyped, Tasks, Places
<1>6. PartsTyped'
  BY <1>1, <1>2, <1>3, <1>4, <1>5 DEF PartsTyped, Tasks
<1>7. RecoveryRuns' /\ SessionFollows'
  BY <1>1, <1>5 DEF RecoveryInvariant, RecoveryRuns, SessionFollows
<1>8. StartKept
  BY <1>1, <1>3, <1>4, <1>5 DEF StartKept
<1>9. QED
  BY <1>6, <1>7, <1>8, StartIsKept DEF RecoveryInvariant

LEMMA WriteReturnsStep ==
  ASSUME RecoveryInvariant, WriteReturns
  PROVE  RecoveryInvariant'
<1>1. /\ UNCHANGED <<proc, session, conn, current, status, route, inbox, accepted, stdin>>
      /\ replies' \subseteq replies
  BY DEF WriteReturns, server, rest, Taken
<1>2. PartsTyped /\ task["write"].c \in 0..MaxConn
  BY DEF RecoveryInvariant, PartsTyped, Tasks
<1>3. PICK pc \in {"accepted", "refused", "retry"} :
        Goes("write", pc) /\ (pc = "accepted" => accepted)
  <2>1. Replied("write", "write", "accepted") => accepted
    BY <1>2 DEF Replied, RecoveryInvariant, WriteIsRemembered
  <2>2. QED
    BY <2>1 DEF WriteReturns
<1>4. /\ task' \in [Tasks -> [pc : Places, c : 0..MaxConn]] /\ task'["write"].pc = pc
      /\ task'["start"] = task["start"] /\ task'["recover"] = task["recover"]
  <2>1. task' = [task EXCEPT !["write"] = [pc |-> pc, c |-> 0]]
    BY <1>3 DEF Goes
  <2>2. QED
    BY <1>2, <2>1, ProcessAssumption DEF PartsTyped, Tasks, Places
<1>5. PartsTyped'
  BY <1>1, <1>2, <1>4 DEF PartsTyped
<1>6. RecoveryRuns' /\ SessionFollows'
  BY <1>1, <1>4 DEF RecoveryInvariant, RecoveryRuns, SessionFollows
<1>7. StartKept
  BY <1>1, <1>3, <1>4 DEF StartKept
<1>8. QED
  BY <1>5, <1>6, <1>7, StartIsKept DEF RecoveryInvariant

LEMMA RouteFacts == \A o : Routed(o).state = "none" <=> route.state = "none"
  BY DEF Routed, Unrouted, Registered

LEMMA UnroutedFacts == Unrouted.state = "none" <=> route.state = "none"
  BY DEF Unrouted, Registered

LEMMA ReaderHandlesStep ==
  ASSUME RecoveryInvariant, NEW c \in Conns, ReaderHandles(c)
  PROVE  RecoveryInvariant'
<1>1. /\ UNCHANGED <<proc, session, conn, current, status>>
      /\ UNCHANGED <<task, inbox, replies, accepted, stdin>>
  BY DEF ReaderHandles, rest
<1>2. route'.state = "none" <=> route.state = "none"
  BY RouteFacts DEF ReaderHandles
<1>3. PartsTyped' /\ RecoveryRuns' /\ SessionFollows'
  BY <1>1 DEF RecoveryInvariant, PartsTyped, RecoveryRuns, SessionFollows
<1>4. StartKept
  BY <1>1, <1>2 DEF StartKept, RecoveryInvariant, WriteIsRemembered
<1>5. QED
  BY <1>3, <1>4, StartIsKept DEF RecoveryInvariant

(* A step of the recovery's task, which leaves the others alone. *)
LEMMA RecoverGoes ==
  ASSUME PartsTyped, NEW pc \in Places, NEW c \in 0..MaxConn,
         task' = [task EXCEPT !["recover"] = [pc |-> pc, c |-> c]]
  PROVE  /\ task' \in [Tasks -> [pc : Places, c : 0..MaxConn]]
         /\ task'["recover"].pc = pc /\ task'["recover"].c = c
         /\ task'["start"] = task["start"] /\ task'["write"] = task["write"]
  BY DEF PartsTyped, Tasks

LEMMA ReaderEndsStep ==
  ASSUME RecoveryInvariant, NEW c \in Conns, ReaderEnds(c)
  PROVE  RecoveryInvariant'
<1>1. UNCHANGED <<proc, session, conn, current, route, inbox, replies, accepted, stdin>>
  BY DEF ReaderEnds, server, rest
<1>2. CASE status = "connected" /\ current = c
  <2>1. /\ status' = "recovering"
        /\ task' = [task EXCEPT !["recover"] = [pc |-> "wait", c |-> 0]]
    BY <1>2 DEF ReaderEnds, Goes
  <2>2. PartsTyped /\ "wait" \in Places /\ 0 \in 0..MaxConn
    BY ProcessAssumption DEF RecoveryInvariant, Places
  <2>3. /\ task' \in [Tasks -> [pc : Places, c : 0..MaxConn]]
        /\ task'["recover"].pc = "wait"
        /\ task'["start"] = task["start"] /\ task'["write"] = task["write"]
    BY <2>1, <2>2, RecoverGoes
  <2>4. PartsTyped' /\ RecoveryRuns' /\ SessionFollows'
    BY <1>1, <2>1, <2>2, <2>3
       DEF RecoveryInvariant, PartsTyped, RecoveryRuns, SessionFollows
  <2>5. StartKept
    BY <1>1, <1>2, <2>1, <2>3 DEF StartKept, RecoveryInvariant, WriteIsRemembered
  <2>6. QED
    BY <2>4, <2>5, StartIsKept DEF RecoveryInvariant
<1>3. CASE ~(status = "connected" /\ current = c)
  <2>1. UNCHANGED <<status, task>>
    BY <1>3 DEF ReaderEnds
  <2>2. PartsTyped' /\ RecoveryRuns' /\ SessionFollows'
    BY <1>1, <2>1 DEF RecoveryInvariant, PartsTyped, RecoveryRuns, SessionFollows
  <2>3. StartKept
    BY <1>1, <2>1 DEF StartKept, RecoveryInvariant, WriteIsRemembered
  <2>4. QED
    BY <2>2, <2>3, StartIsKept DEF RecoveryInvariant
<1>4. QED
  BY <1>2, <1>3

LEMMA DisconnectStep ==
  ASSUME RecoveryInvariant, NEW c \in Conns, Disconnect(c), Unmoved
  PROVE  RecoveryInvariant'
<1>1. /\ UNCHANGED <<proc, session, current, status, route>>
      /\ UNCHANGED <<task, inbox, replies, accepted, stdin>>
  BY DEF Disconnect, Unmoved, client, rest
<1>2. PartsTyped /\ conn' = [conn EXCEPT ![c] = "dead"]
  BY DEF RecoveryInvariant, Disconnect
<1>3. /\ conn' \in [Conns -> {"none", "open", "dead"}]
      /\ \A d \in Conns : conn[d] = "dead" => conn'[d] = "dead"
      /\ \A d \in Conns : conn'[d] # "dead" => conn[d] # "dead"
  BY <1>2 DEF PartsTyped
<1>4. PartsTyped' /\ RecoveryRuns'
  BY <1>1, <1>2, <1>3 DEF RecoveryInvariant, PartsTyped, RecoveryRuns
<1>5. SessionFollows'
  BY <1>1, <1>2, <1>3 DEF RecoveryInvariant, PartsTyped, RecoveryRuns, SessionFollows
<1>6. StartKept
  BY <1>1, <1>3 DEF StartKept, RecoveryInvariant, WriteIsRemembered
<1>7. QED
  BY <1>4, <1>5, <1>6, StartIsKept DEF RecoveryInvariant

-----------------------------------------------------------------------------
(* The recovery. *)

LEMMA RecoverWaitsStep ==
  ASSUME RecoveryInvariant, RecoverWaits
  PROVE  RecoveryInvariant'
<1>1. /\ UNCHANGED <<proc, session, conn, current, status, route>>
      /\ UNCHANGED <<inbox, replies, accepted, stdin>>
      /\ task["recover"].pc = "wait"
      /\ task' = [task EXCEPT !["recover"] = [pc |-> "connect", c |-> 0]]
  BY DEF RecoverWaits, Goes, server, rest
<1>2. PartsTyped /\ "connect" \in Places /\ 0 \in 0..MaxConn
  BY ProcessAssumption DEF RecoveryInvariant, Places
<1>3. /\ task' \in [Tasks -> [pc : Places, c : 0..MaxConn]]
      /\ task'["recover"].pc = "connect"
      /\ task'["start"] = task["start"] /\ task'["write"] = task["write"]
  BY <1>1, <1>2, RecoverGoes
<1>4. PartsTyped' /\ RecoveryRuns' /\ SessionFollows'
  BY <1>1, <1>2, <1>3 DEF RecoveryInvariant, PartsTyped, RecoveryRuns, SessionFollows
<1>5. StartKept
  BY <1>1, <1>3 DEF StartKept, RecoveryInvariant, WriteIsRemembered
<1>6. QED
  BY <1>4, <1>5, StartIsKept DEF RecoveryInvariant

LEMMA ConnectStep ==
  ASSUME RecoveryInvariant, NEW c \in Conns, Connect(c)
  PROVE  RecoveryInvariant'
<1> DEFINE q == Request("recover", "initialize", c, 0)
<1>1. /\ UNCHANGED <<proc, session, current, status, route, replies, accepted, stdin>>
      /\ task["recover"].pc = "connect" /\ conn[c] = "none"
      /\ conn' = [conn EXCEPT ![c] = "open"] /\ inbox' = inbox \cup {q}
      /\ task' = [task EXCEPT !["recover"] = [pc |-> "initialize", c |-> c]]
  BY DEF Connect, Call, rest
<1>2. /\ q = [task |-> q.task, op |-> q.op, c |-> q.c, after |-> q.after]
      /\ q.task = "recover" /\ q.op = "initialize" /\ q.c = c
  BY DEF Request
<1> HIDE DEF q
<1>3. PartsTyped /\ "initialize" \in Places /\ c \in 0..MaxConn
  BY ProcessAssumption DEF RecoveryInvariant, Places, Conns
<1>4. /\ task' \in [Tasks -> [pc : Places, c : 0..MaxConn]]
      /\ task'["recover"].pc = "initialize" /\ task'["recover"].c = c
      /\ task'["start"] = task["start"] /\ task'["write"] = task["write"]
  BY <1>1, <1>3, RecoverGoes
<1>5. /\ conn' \in [Conns -> {"none", "open", "dead"}]
      /\ \A d \in Conns : conn[d] = "dead" => conn'[d] = "dead"
  BY <1>1, <1>3 DEF PartsTyped
<1>6. PartsTyped' /\ status = "recovering"
  BY <1>1, <1>2, <1>3, <1>4, <1>5 DEF RecoveryInvariant, RecoveryRuns, PartsTyped, Tasks
<1>7. RecoveryRuns' /\ SessionFollows'
  BY <1>1, <1>4, <1>5, <1>6 DEF RecoveryInvariant, RecoveryRuns, SessionFollows
<1>8. StartKept
  BY <1>1, <1>2, <1>4, <1>5 DEF StartKept, RecoveryInvariant, WriteIsRemembered
<1>9. QED
  BY <1>6, <1>7, <1>8, StartIsKept DEF RecoveryInvariant

(* A candidate is given up, by a retry or with the client. *)
LEMMA AbandonFacts ==
  ASSUME PartsTyped, NEW c \in Conns, Abandon(c)
  PROVE  /\ conn' \in [Conns -> {"none", "open", "dead"}]
         /\ \A d \in Conns : conn[d] = "dead" => conn'[d] = "dead"
  BY DEF Abandon, PartsTyped

LEMMA RetryStep ==
  ASSUME RecoveryInvariant, Retry, replies' \subseteq replies,
         task["recover"].pc \in {"initialize", "read", "terminate", "install"}
  PROVE  RecoveryInvariant'
<1>1. /\ UNCHANGED <<proc, session, current, status, route, inbox, accepted, stdin>>
      /\ task' = [task EXCEPT !["recover"] = [pc |-> "connect", c |-> 0]]
  BY DEF Retry, Goes, rest
<1>2. PartsTyped /\ "connect" \in Places /\ 0 \in 0..MaxConn
  BY ProcessAssumption DEF RecoveryInvariant, Places
<1>3. task["recover"].c \in Conns /\ status = "recovering"
  BY DEF RecoveryInvariant, RecoveryRuns
<1>4. /\ conn' \in [Conns -> {"none", "open", "dead"}]
      /\ \A d \in Conns : conn[d] = "dead" => conn'[d] = "dead"
  BY <1>2, <1>3, AbandonFacts DEF Retry
<1>5. /\ task' \in [Tasks -> [pc : Places, c : 0..MaxConn]]
      /\ task'["recover"].pc = "connect"
      /\ task'["start"] = task["start"] /\ task'["write"] = task["write"]
  BY <1>1, <1>2, RecoverGoes
<1>6. PartsTyped' /\ RecoveryRuns'
  BY <1>1, <1>2, <1>3, <1>4, <1>5 DEF PartsTyped, RecoveryRuns
<1>7. SessionFollows'
  BY <1>1, <1>3, <1>4, <1>5 DEF RecoveryInvariant, SessionFollows
<1>8. StartKept
  BY <1>1, <1>4, <1>5 DEF StartKept, RecoveryInvariant, WriteIsRemembered
<1>9. QED
  BY <1>6, <1>7, <1>8, StartIsKept DEF RecoveryInvariant

LEMMA RecoverFailsStep ==
  ASSUME RecoveryInvariant, RecoverFails
  PROVE  RecoveryInvariant'
<1>1. /\ UNCHANGED <<proc, session, current, inbox, accepted, stdin>>
      /\ task' = [task EXCEPT !["recover"] = [pc |-> "idle", c |-> 0]]
      /\ status' = "failed" /\ route' = Unrouted /\ replies' \subseteq replies
  BY DEF RecoverFails, ClientFails, Idle, Taken, rest
<1>2. PartsTyped /\ "idle" \in Places /\ 0 \in 0..MaxConn
  BY ProcessAssumption DEF RecoveryInvariant, Places
<1>3. /\ conn' \in [Conns -> {"none", "open", "dead"}]
      /\ \A d \in Conns : conn[d] = "dead" => conn'[d] = "dead"
  <2>1. CASE task["recover"].c # 0
    <3>1. task["recover"].c \in Conns
      BY <1>2, <2>1, ProcessAssumption DEF PartsTyped, Tasks, Conns
    <3>2. QED
      BY <1>2, <2>1, <3>1, AbandonFacts DEF RecoverFails
  <2>2. CASE task["recover"].c = 0
    BY <1>2, <2>2 DEF RecoverFails, PartsTyped
  <2>3. QED
    BY <2>1, <2>2
<1>4. /\ task' \in [Tasks -> [pc : Places, c : 0..MaxConn]]
      /\ task'["recover"].pc = "idle"
      /\ task'["start"] = task["start"] /\ task'["write"] = task["write"]
  BY <1>1, <1>2, RecoverGoes
<1>5. PartsTyped' /\ RecoveryRuns'
  BY <1>1, <1>2, <1>3, <1>4 DEF PartsTyped, RecoveryRuns
<1>6. SessionFollows'
  BY <1>1, <1>3, <1>4 DEF RecoveryInvariant, SessionFollows
<1>7. StartKept
  BY <1>1, <1>3, <1>4, UnroutedFacts DEF StartKept, RecoveryInvariant, WriteIsRemembered
<1>8. QED
  BY <1>5, <1>6, <1>7, StartIsKept DEF RecoveryInvariant

(* The recovery goes on with the connection it has: with a request to it,   *)
(* or to its installation.                                                  *)
CandidateMove ==
  /\ UNCHANGED <<proc, session, conn, current, status, accepted, stdin>>
  /\ route'.state = "none" <=> route.state = "none"
  /\ replies' \subseteq replies
  /\ task' \in [Tasks -> [pc : Places, c : 0..MaxConn]]
  /\ task'["start"] = task["start"] /\ task'["write"] = task["write"]
  /\ task["recover"].pc # "idle" /\ task["recover"].c \in Conns
  /\ task'["recover"].pc \in {"read", "terminate", "install"}
  /\ task'["recover"].c = task["recover"].c
  /\ conn[task["recover"].c] = "dead" \/ session.attached = task["recover"].c
  /\ \A r \in inbox' : r \in inbox \/
       \E op \in {"read", "terminate"} : \E after :
         r = Request("recover", op, task["recover"].c, after)

LEMMA CandidateMoves ==
  ASSUME RecoveryInvariant, CandidateMove
  PROVE  RecoveryInvariant'
<1>1. PartsTyped /\ status = "recovering"
  BY DEF RecoveryInvariant, RecoveryRuns, CandidateMove
<1>2. \A r \in inbox' : r \in inbox \/
        /\ r = [task |-> r.task, op |-> r.op, c |-> r.c, after |-> r.after]
        /\ r.task = "recover" /\ r.op \in {"read", "terminate"} /\ r.c \in Conns
  BY DEF CandidateMove, Request
<1>3. PartsTyped' /\ RecoveryRuns'
  BY <1>1, <1>2 DEF CandidateMove, PartsTyped, RecoveryRuns, Tasks
<1>4. SessionFollows'
  BY <1>1 DEF CandidateMove, RecoveryInvariant, SessionFollows
<1>5. StartKept
  BY <1>1, <1>2 DEF CandidateMove, StartKept, RecoveryInvariant, WriteIsRemembered
<1>6. QED
  BY <1>3, <1>4, <1>5, StartIsKept DEF RecoveryInvariant

LEMMA InstallsFacts ==
  ASSUME PartsTyped, Installs
  PROVE  /\ task' \in [Tasks -> [pc : Places, c : 0..MaxConn]]
         /\ task'["recover"].pc = "install" /\ task'["recover"].c = task["recover"].c
         /\ task'["start"] = task["start"] /\ task'["write"] = task["write"]
  BY DEF Installs, PartsTyped, Tasks, Places

LEMMA InitializedStep ==
  ASSUME RecoveryInvariant, Initialized
  PROVE  RecoveryInvariant'
<1>1. PartsTyped /\ task["recover"].pc = "initialize" /\ task["recover"].c \in Conns
  BY DEF RecoveryInvariant, RecoveryRuns, Initialized
<1>2. Replied("recover", "initialize", "ok") =>
        conn[task["recover"].c] = "dead" \/ session.attached = task["recover"].c
  BY <1>1 DEF RecoveryInvariant, SessionFollows, Replied
<1>3. "read" \in Places /\ task["recover"].c \in 0..MaxConn
  BY <1>1, ProcessAssumption DEF Places, Conns
<1>4. CASE /\ Replied("recover", "initialize", "ok") /\ Registered /\ route.recoverable
           /\ Call("recover", "read", task["recover"].c, LastSeq(events))
           /\ Taken("recover")
           /\ UNCHANGED <<server, events, route, status, current, reader, rest>>
  <2>1. /\ UNCHANGED <<proc, session, conn, current, status, route, accepted, stdin>>
        /\ replies' \subseteq replies
        /\ inbox' = inbox \cup
             {Request("recover", "read", task["recover"].c, LastSeq(events))}
        /\ task' = [task EXCEPT !["recover"] = [pc |-> "read", c |-> task["recover"].c]]
    BY <1>4 DEF Call, Taken, server, rest
  <2>2. /\ task' \in [Tasks -> [pc : Places, c : 0..MaxConn]]
        /\ task'["recover"].pc = "read" /\ task'["recover"].c = task["recover"].c
        /\ task'["start"] = task["start"] /\ task'["write"] = task["write"]
    BY <1>1, <1>3, <2>1, RecoverGoes
  <2>3. CandidateMove
    BY <1>1, <1>2, <1>4, <2>1, <2>2 DEF CandidateMove
  <2>4. QED
    BY <2>3, CandidateMoves
<1>5. CASE /\ Replied("recover", "initialize", "ok") /\ ~(Registered /\ route.recoverable)
           /\ Installs /\ Taken("recover")
           /\ UNCHANGED <<server, events, route, status, current, reader, inbox, rest>>
  <2>1. /\ UNCHANGED <<proc, session, conn, current, status, route, inbox, accepted, stdin>>
        /\ replies' \subseteq replies
    BY <1>5 DEF Taken, server, rest
  <2>2. CandidateMove
    BY <1>1, <1>2, <1>5, <2>1, InstallsFacts DEF CandidateMove
  <2>3. QED
    BY <2>2, CandidateMoves
<1>6. CASE Replied("recover", "initialize", "taken") /\ Taken("recover") /\ Retry
  <2>1. replies' \subseteq replies
    BY <1>6 DEF Taken
  <2>2. QED
    BY <1>1, <1>6, <2>1, RetryStep
<1>7. CASE Replied("recover", "initialize", "unknown") /\ RecoverFails
  BY <1>7, RecoverFailsStep
<1>8. QED
  BY <1>4, <1>5, <1>6, <1>7 DEF Initialized

LEMMA RecoverRetriesStep ==
  ASSUME RecoveryInvariant, RecoverRetries
  PROVE  RecoveryInvariant'
<1>1. replies' \subseteq replies
  BY DEF RecoverRetries, Taken
<1>2. QED
  BY <1>1, RetryStep DEF RecoverRetries

LEMMA RecoverReadsStep ==
  ASSUME RecoveryInvariant, RecoverReads
  PROVE  RecoveryInvariant'
<1>1. /\ UNCHANGED <<proc, session, conn, current, status, accepted, stdin>>
      /\ task["recover"].pc = "read" /\ replies' \subseteq replies
  BY DEF RecoverReads, Taken, server
<1>2. /\ PartsTyped /\ task["recover"].c \in Conns
      /\ conn[task["recover"].c] = "dead" \/ session.attached = task["recover"].c
  BY <1>1 DEF RecoveryInvariant, RecoveryRuns, SessionFollows
<1>3. \/ Call("recover", "terminate", task["recover"].c, 0) /\ route' = route
      \/ Installs /\ inbox' = inbox /\ \E o : route' = Routed(o)
  BY DEF RecoverReads
<1>4. CASE Call("recover", "terminate", task["recover"].c, 0) /\ route' = route
  <2>1. /\ inbox' = inbox \cup {Request("recover", "terminate", task["recover"].c, 0)}
        /\ task' = [task EXCEPT !["recover"] = [pc |-> "terminate", c |-> task["recover"].c]]
    BY <1>4 DEF Call
  <2>2. "terminate" \in Places /\ task["recover"].c \in 0..MaxConn
    BY <1>2, ProcessAssumption DEF Places, Conns
  <2>3. /\ task' \in [Tasks -> [pc : Places, c : 0..MaxConn]]
        /\ task'["recover"].pc = "terminate" /\ task'["recover"].c = task["recover"].c
        /\ task'["start"] = task["start"] /\ task'["write"] = task["write"]
    BY <1>2, <2>1, <2>2, RecoverGoes
  <2>4. CandidateMove
    BY <1>1, <1>2, <1>4, <2>1, <2>3 DEF CandidateMove
  <2>5. QED
    BY <2>4, CandidateMoves
<1>5. CASE Installs /\ inbox' = inbox /\ \E o : route' = Routed(o)
  <2>1. route'.state = "none" <=> route.state = "none"
    BY <1>5, RouteFacts
  <2>2. CandidateMove
    BY <1>1, <1>2, <1>5, <2>1, InstallsFacts DEF CandidateMove
  <2>3. QED
    BY <2>2, CandidateMoves
<1>6. QED
  BY <1>3, <1>4, <1>5

LEMMA RecoverKillsStep ==
  ASSUME RecoveryInvariant, RecoverKills
  PROVE  RecoveryInvariant'
<1>1. /\ UNCHANGED <<proc, session, conn, current, status, inbox, accepted, stdin>>
      /\ task["recover"].pc = "terminate" /\ replies' \subseteq replies
      /\ route' = Unrouted /\ Installs
  BY DEF RecoverKills, Taken, server, rest
<1>2. /\ PartsTyped /\ task["recover"].c \in Conns
      /\ conn[task["recover"].c] = "dead" \/ session.attached = task["recover"].c
  BY <1>1 DEF RecoveryInvariant, RecoveryRuns, SessionFollows
<1>3. CandidateMove
  BY <1>1, <1>2, InstallsFacts, UnroutedFacts DEF CandidateMove
<1>4. QED
  BY <1>3, CandidateMoves

LEMMA InstallStep ==
  ASSUME RecoveryInvariant, Install
  PROVE  RecoveryInvariant'
<1>1. /\ PartsTyped /\ task["recover"].pc = "install" /\ task["recover"].c \in Conns
      /\ conn[task["recover"].c] = "dead" \/ session.attached = task["recover"].c
      /\ status = "recovering"
  BY DEF Install, RecoveryInvariant, RecoveryRuns, SessionFollows
<1>2. CASE /\ Installable(task["recover"].c)
           /\ status' = "connected" /\ current' = task["recover"].c
           /\ task' = [task EXCEPT !["recover"] = Idle]
           /\ UNCHANGED <<server, events, route, reader, inbox, replies, rest>>
  <2>1. /\ UNCHANGED <<proc, session, conn, route, inbox, replies, accepted, stdin>>
        /\ conn[current'] = "open" /\ session.attached = current' /\ current' \in Conns
        /\ task' = [task EXCEPT !["recover"] = [pc |-> "idle", c |-> 0]]
    BY <1>1, <1>2 DEF Installable, Idle, server, rest
  <2>2. "idle" \in Places /\ 0 \in 0..MaxConn
    BY ProcessAssumption DEF Places
  <2>3. /\ task' \in [Tasks -> [pc : Places, c : 0..MaxConn]]
        /\ task'["recover"].pc = "idle"
        /\ task'["start"] = task["start"] /\ task'["write"] = task["write"]
    BY <1>1, <2>1, <2>2, RecoverGoes
  <2>4. PartsTyped' /\ RecoveryRuns'
    BY <1>1, <1>2, <2>1, <2>3 DEF PartsTyped, RecoveryRuns
  <2>5. SessionFollows'
    BY <2>1, <2>3 DEF RecoveryInvariant, SessionFollows
  <2>6. StartKept
    BY <1>1, <1>2, <2>1, <2>3 DEF StartKept, RecoveryInvariant, WriteIsRemembered
  <2>7. QED
    BY <2>4, <2>5, <2>6, StartIsKept DEF RecoveryInvariant
<1>3. CASE UNCHANGED replies /\ Retry
  BY <1>1, <1>3, RetryStep
<1>4. QED
  BY <1>2, <1>3 DEF Install

LEMMA ShutdownStep ==
  ASSUME RecoveryInvariant, Shutdown
  PROVE  RecoveryInvariant'
<1>1. /\ UNCHANGED <<proc, session, current, task, inbox, replies, accepted, stdin>>
      /\ status' = "failed" /\ route' = Unrouted /\ status = "connected"
      /\ conn' = [conn EXCEPT ![current] = "dead"]
  BY DEF Shutdown, ClientFails, rest
<1>2. PartsTyped /\ task["recover"].pc = "idle"
  BY <1>1 DEF RecoveryInvariant, RecoveryRuns
<1>3. /\ conn' \in [Conns -> {"none", "open", "dead"}]
      /\ \A d \in Conns : conn[d] = "dead" => conn'[d] = "dead"
  BY <1>1, <1>2 DEF PartsTyped
<1>4. PartsTyped' /\ RecoveryRuns' /\ SessionFollows'
  BY <1>1, <1>2, <1>3 DEF RecoveryInvariant, PartsTyped, RecoveryRuns, SessionFollows
<1>5. StartKept
  BY <1>1, <1>3, UnroutedFacts DEF StartKept, RecoveryInvariant, WriteIsRemembered
<1>6. QED
  BY <1>4, <1>5, StartIsKept DEF RecoveryInvariant

-----------------------------------------------------------------------------
(* The tasks of the process, its retention and its session's expiry. *)

LEMMA WorkersStep ==
  ASSUME RecoveryInvariant, Unmoved,
         \/ \E w \in Workers : WorkerStep(w) \/ StreamChunk(w)
         \/ WatchExit \/ DropQuiesced \/ ExpireSession
  PROVE  RecoveryInvariant'
<1>1. UNCHANGED <<current, task, inbox, status, replies, route, accepted, stdin>>
  BY DEF Unmoved, client, rest
<1>2. proc \in Processes /\ session \in [attached : 0..MaxConn, live : BOOLEAN]
  BY DEF RecoveryInvariant, PartsTyped
<1>3. /\ conn' = conn /\ proc' \in Processes /\ (Harmless => Harmless')
      /\ session' \in [attached : 0..MaxConn, live : BOOLEAN]
      /\ session'.attached = session.attached
  <2>1. ASSUME NEW w, NEW kind \in Kinds, NEW pc, Numbered(w, kind, pc)
        PROVE  <1>3!:
    BY <1>2, <2>1, LogGrows DEF Numbered
  <2>2. ASSUME proc' = proc, UNCHANGED <<session, conn>>
        PROVE  <1>3!:
    BY <1>2, <2>2 DEF Harmless, Running, Exited
  <2>3. {"output", "exited", "closed"} = Kinds
    BY DEF Kinds
  <2>4. ASSUME NEW w \in Workers, StreamEnds(w)
        PROVE  <1>3!:
    <3>1. proc' = [proc EXCEPT !.open = @ \ {w}] /\ UNCHANGED <<session, conn>>
      BY <2>4 DEF StreamEnds
    <3>2. QED
      BY <1>2, <3>1 DEF Processes, Harmless, Running, Exited
  <2>5. ASSUME NEW w \in Workers, EnsureQuiesced(w)
        PROVE  <1>3!:
    <3>1. PICK confirmed \in BOOLEAN :
            proc' = [proc EXCEPT !.quiesced = confirmed, !.killed = TRUE]
      BY <2>5 DEF EnsureQuiesced
    <3>2. UNCHANGED <<session, conn>>
      BY <2>5 DEF EnsureQuiesced
    <3>3. QED
      BY <1>2, <3>1, <3>2 DEF Processes, Harmless
  <2>6. ASSUME NEW w \in Workers, MaybeEmitClosed(w)
        PROVE  <1>3!:
    BY <2>1, <2>2, <2>3, <2>6 DEF MaybeEmitClosed
  <2>7. ASSUME NEW w \in Workers, Notify(w)
        PROVE  <1>3!:
    BY <2>2, <2>7 DEF Notify
  <2>8. ASSUME NEW w \in Workers, StreamChunk(w)
        PROVE  <1>3!:
    BY <2>1, <2>3, <2>8 DEF StreamChunk
  <2>9. CASE WatchExit
    BY <2>1, <2>3, <2>9 DEF WatchExit
  <2>10. CASE DropQuiesced
    BY <1>2, <2>10, RemovedIsHarmless DEF DropQuiesced
  <2>11. CASE ExpireSession
    <3>1. session' = [session EXCEPT !.live = FALSE] /\ conn' = conn
      BY <2>11 DEF ExpireSession
    <3>2. proc' \in Processes /\ (Harmless => Harmless')
      BY <1>2, <2>11, RemovedIsHarmless DEF ExpireSession, Harmless, Running, Exited
    <3>3. QED
      BY <1>2, <3>1, <3>2
  <2>12. QED
    BY <2>4, <2>5, <2>6, <2>7, <2>8, <2>9, <2>10, <2>11 DEF WorkerStep
<1>4. QED
  BY <1>1, <1>3, ProcessMoves

-----------------------------------------------------------------------------
LEMMA InitInvariant == Init => RecoveryInvariant
<1> SUFFICES ASSUME Init PROVE RecoveryInvariant
  OBVIOUS
<1>1. /\ proc = NoProcess /\ inbox = {} /\ replies = {}
      /\ session = [attached |-> 1, live |-> TRUE]
      /\ conn = [c \in Conns |-> IF c = 1 THEN "open" ELSE "none"]
      /\ task = [k \in Tasks |-> [pc |-> "idle", c |-> 0]]
      /\ status = "connected" /\ current = 1 /\ accepted = FALSE /\ stdin = 0
      /\ route.state = "none"
  BY DEF Init, ServerInit, Idle
<1>2. proc \in Processes
  BY <1>1 DEF NoProcess, Processes
<1>3. 1 \in Conns /\ 0 \in 0..MaxConn /\ 1 \in 0..MaxConn
  BY ProcessAssumption DEF Conns
<1>4. /\ task \in [Tasks -> [pc : Places, c : 0..MaxConn]]
      /\ task["start"].pc = "idle" /\ task["recover"].pc = "idle"
      /\ task["write"].pc = "idle"
  BY <1>1, <1>3 DEF Tasks, Places
<1>5. PartsTyped
  BY <1>1, <1>2, <1>3, <1>4 DEF PartsTyped
<1>6. RecoveryRuns /\ SessionFollows
  BY <1>1, <1>4 DEF RecoveryRuns, SessionFollows
<1>7. StartIsOne /\ RepliesAreLast /\ FailedStartLeavesNoProcess
  BY <1>1, <1>4
     DEF StartIsOne, RepliesAreLast, FailedStartLeavesNoProcess, StartFailed, CleaningUp
<1>8. WriteIsRemembered
  BY <1>1, <1>4 DEF WriteIsRemembered
<1>9. QED
  BY <1>5, <1>6, <1>7, <1>8 DEF RecoveryInvariant

LEMMA StutterInvariant == RecoveryInvariant /\ UNCHANGED vars => RecoveryInvariant'
  BY DEF vars, server, client, RecoveryInvariant, PartsTyped, RecoveryRuns,
         SessionFollows, StartIsOne, Starting, RepliesAreLast, NoStart, Harmless, Running,
         Exited, FailedStartLeavesNoProcess, StartFailed, CleaningUp, WriteIsRemembered

LEMMA NextInvariant == RecoveryInvariant /\ [Next]_vars => RecoveryInvariant'
<1> SUFFICES ASSUME RecoveryInvariant, [Next]_vars PROVE RecoveryInvariant'
  OBVIOUS
<1>1. ASSUME NEW r \in inbox, Serve(r) PROVE RecoveryInvariant'
  BY <1>1, ServeInitializeStep, ServeStartStep, ServeSpawnStep, ServeTerminateStep,
     ServeReadStep, ServeWriteStep
     DEF Serve
<1>2. ASSUME NEW c \in Conns, ServeDisconnect(c) \/ ReaderEnds(c) \/ ReaderHandles(c)
      PROVE  RecoveryInvariant'
  BY <1>2, ServeDisconnectStep, ReaderEndsStep, ReaderHandlesStep
<1>3. CASE StarterStep
  BY <1>3, StartReturnsStep, StartLostStep, CleanupCallsStep, CleanupEndsStep
     DEF StarterStep
<1>4. CASE RecoverStep
  BY <1>4, RecoverWaitsStep, ConnectStep, InitializedStep, RecoverRetriesStep,
     RecoverReadsStep, RecoverKillsStep, InstallStep
     DEF RecoverStep
<1>5. CASE Progress
  BY <1>1, <1>2, <1>3, <1>4, <1>5, RecoverFailsStep, WorkersStep, WriteReturnsStep
     DEF Progress, RecoverTimesOut
<1>6. CASE UNCHANGED vars
  BY <1>6, StutterInvariant
<1>7. QED
  BY <1>5, <1>6, WorkersStep, DisconnectStep, StartBeginStep, WriteBeginStep, ShutdownStep
     DEF Next

(* What the argument rests on holds in every reachable state: the session    *)
(* follows the connection the client uses, at most one start is at the      *)
(* server, and a reply that ends a start came after it was over.            *)
THEOREM RecoveryInvariantHolds == Spec => []RecoveryInvariant
<1>1. QED
  BY InitInvariant, NextInvariant, PTL DEF Spec

(* A start that failed, whose caller may have heard so already, has a child *)
(* or one to come only while its cleanup is at work: cleanup_process_start  *)
(* goes on until its terminate was answered on the session's connection, or *)
(* the client itself has failed.                                            *)
THEOREM FailedStartLeavesNoProcessHolds == Spec => []FailedStartLeavesNoProcess
<1>1. RecoveryInvariant => FailedStartLeavesNoProcess
  BY DEF RecoveryInvariant
<1>2. QED
  BY <1>1, RecoveryInvariantHolds, PTL

(* A write retried over any number of reconnects reaches the child's stdin  *)
(* at most once, and an acknowledged one has reached it: exec_write         *)
(* remembers the id with the write.                                         *)
THEOREM StdinIsWrittenOnceHolds == Spec => []StdinIsWrittenOnce
<1>1. RecoveryInvariant => StdinIsWrittenOnce
  BY DEF RecoveryInvariant, WriteIsRemembered, StdinIsWrittenOnce
<1>2. QED
  BY <1>1, RecoveryInvariantHolds, PTL
=============================================================================
